--------------------------- MODULE Decoding_proofs --------------------------
(***************************************************************************)
(* Proofs about what is made of a book's records, for all books, payloads  *)
(* and dictionaries.  The algorithms are recursive functions; each is      *)
(* shown to go step by step (Recursion, RecursionDown, Joining), and what  *)
(* it keeps is carried along (Upwards, Downwards).                         *)
(*   Contents        what a table keeps of its records, lines and parents  *)
(*   LogicalRecords  the tokens of a walk cover the payload (Tiles), the   *)
(*                   lines cover the tokens (Framed); the rebuilt bytes of *)
(*                   a line are read as that line again, token by token    *)
(*                   (RelinedReads), and a payload has one reading only    *)
(*                   (LinesUnique), which makes the round trip (RoundTrip);*)
(*                   its text is built entry by entry, and two lines of    *)
(*                   the same words stay alike whatever stands before and  *)
(*                   behind (AlikeGoesOn, TextPassed, LineAlone)           *)
(*   Assembly, Ownership  one order goes through all of the layout: the    *)
(*                   words of a line are assembled in the order of their   *)
(*                   tokens (LineInOrder), so a later word has a larger    *)
(*                   column (ColumnsFollow); a run claims its words in     *)
(*                   that order (ClaimsInOrder) and places them from left  *)
(*                   to right (PlacedInOrder).  The ledger is followed run *)
(*                   by run: what a run comes to own leaves what the       *)
(*                   others own alone (OthersStayWhole, NewIsWhole), and   *)
(*                   the ledger that forgets its conflicts is the one that *)
(*                   the other runs make (Traced)                          *)
(***************************************************************************)
EXTENDS Decoding, FiniteSetTheorems, SequenceTheorems, WellFoundedInduction, TLAPS
-----------------------------------------------------------------------------
(* Sets of numbers *)

LEMMA LeastExists ==
  ASSUME NEW T, T \subseteq Nat, T # {}
  PROVE  \E x \in T : \A y \in T : x <= y
<1> DEFINE Below == {0..x : x \in T}
<1>1. Below \subseteq FiniteSubsetsOf(Nat)
  <2>1. ASSUME NEW x \in T PROVE IsFiniteSet(0..x) /\ 0..x \subseteq Nat
    BY FS_Interval
  <2>2. QED
    BY <2>1 DEF FiniteSubsetsOf
<1>2. Below # {}
  OBVIOUS
<1>3. PICK m \in Below : \A s \in Below : <<s, m>> \notin StrictSubsetOrdering(Nat)
  <2>1. IsWellFoundedOn(StrictSubsetOrdering(Nat), FiniteSubsetsOf(Nat))
    BY FS_StrictSubsetOrderingWellFounded
  <2> HIDE DEF Below
  <2>2. QED
    BY <1>1, <1>2, <2>1, WFMin
<1>4. PICK x \in T : m = 0..x
  OBVIOUS
<1>5. ASSUME NEW y \in T PROVE x <= y
  <2>1. x \in Nat /\ y \in Nat
    OBVIOUS
  <2>2. CASE y < x
    <3>1. 0..y \subseteq 0..x /\ 0..y # 0..x
      <4>1. x \in 0..x /\ x \notin 0..y
        BY <2>1, <2>2
      <4>2. 0..y \subseteq 0..x
        BY <2>1, <2>2
      <4>3. QED
        BY <4>1, <4>2
    <3>2. <<0..y, 0..x>> \in StrictSubsetOrdering(Nat)
      <4>1. 0..y \in SUBSET Nat /\ 0..x \in SUBSET Nat
        BY <2>1
      <4>2. QED
        BY <3>1, <4>1 DEF StrictSubsetOrdering
    <3>3. QED
      BY <1>3, <1>4, <3>2
  <2>3. QED
    BY <2>1, <2>2
<1>6. QED
  BY <1>5

LEMMA GreatestExists ==
  ASSUME NEW n \in Nat, NEW T, T \subseteq 1..n, T # {}
  PROVE  \E x \in T : \A y \in T : y <= x
<1> DEFINE Below == {n - y : y \in T}
<1>1. PICK d \in Below : \A e \in Below : d <= e
  <2>1. ASSUME NEW y \in T PROVE n - y \in Nat
    <3>1. y \in 1..n
      OBVIOUS
    <3>2. QED
      BY <3>1
  <2>2. Below \subseteq Nat
    BY <2>1
  <2>3. Below # {}
    OBVIOUS
  <2> HIDE DEF Below
  <2>4. QED
    BY <2>2, <2>3, LeastExists
<1>2. PICK x \in T : d = n - x
  OBVIOUS
<1>3. ASSUME NEW y \in T PROVE y <= x
  <2>1. d <= n - y
    BY <1>1
  <2>2. x \in 1..n /\ y \in 1..n
    OBVIOUS
  <2>3. QED
    BY <1>2, <2>1, <2>2
<1>4. QED
  BY <1>3
-----------------------------------------------------------------------------
(* Recursion over numbers *)

(* What holds at 0 and goes on holding holds up to the end.                *)
LEMMA Upwards ==
  ASSUME NEW Size \in Nat, NEW Held, 0 \in Held, \A n \in 1..Size : n - 1 \in Held => n \in Held
  PROVE  \A n \in 0..Size : n \in Held
<1> DEFINE Wrong == {n \in 0..Size : n \notin Held}
<1>1. SUFFICES ASSUME Wrong # {} PROVE FALSE
  OBVIOUS
<1>2. PICK m \in Wrong : \A n \in Wrong : m <= n
  <2>1. Wrong \subseteq Nat
    OBVIOUS
  <2> HIDE DEF Wrong
  <2> QED
    BY <1>1, <2>1, LeastExists
<1>3. m \in 1..Size /\ m - 1 \in 0..Size /\ ~(m <= m - 1)
  BY <1>2
<1>4. m - 1 \in Held
  BY <1>2, <1>3
<1> QED
  BY <1>2, <1>3, <1>4

(* A recursion over 0..Size that takes each value to the next one.         *)
Steps(Size, Values) == [1..Size -> [Values -> Values]]
Runs(f, Size, Values, start, onward) ==
  /\ f \in [0..Size -> Values]
  /\ f[0] = start
  /\ \A n \in 1..Size : f[n] = onward[n][f[n - 1]]

LEMMA Recursion ==
  ASSUME NEW Size \in Nat, NEW Values, NEW start \in Values, NEW onward \in Steps(Size, Values)
  PROVE  \E f : Runs(f, Size, Values, start, onward)
<1> USE DEF Steps
<1> DEFINE Upto(f, m) == f[0] = start /\ \A n \in 1..m : f[n] = onward[n][f[n - 1]]
           Held == {m \in 0..Size : \E f \in [0..m -> Values] : Upto(f, m)}
<1>1. 0 \in Held
  <2>1. [n \in 0..0 |-> start] \in [0..0 -> Values] /\ Upto([n \in 0..0 |-> start], 0)
    OBVIOUS
  <2>2. \E f \in [0..0 -> Values] : Upto(f, 0)
    BY <2>1
  <2> HIDE DEF Upto
  <2> QED
    BY <2>2
<1>2. ASSUME NEW m \in 1..Size, m - 1 \in Held PROVE m \in Held
  <2>1. PICK f \in [0..(m - 1) -> Values] : Upto(f, m - 1)
    BY <1>2
  <2> DEFINE g == [n \in 0..m |-> IF n = m THEN onward[m][f[m - 1]] ELSE f[n]]
  <2>2. \A n \in 0..m : n # m => n \in 0..(m - 1)
    OBVIOUS
  <2>3. f[m - 1] \in Values /\ onward[m] \in [Values -> Values]
    OBVIOUS
  <2>4. g \in [0..m -> Values]
    BY <2>2, <2>3
  <2>5. g[0] = start
    BY <2>1
  <2>6. \A n \in 1..m : g[n] = onward[n][g[n - 1]]
    <3>1. ASSUME NEW n \in 1..m PROVE g[n] = onward[n][g[n - 1]]
      <4>1. CASE n = m
        BY <4>1
      <4>2. CASE n # m
        <5>1. n \in 1..(m - 1) /\ n \in 0..m /\ n - 1 \in 0..m /\ n - 1 # m
          BY <4>2
        <5> QED
          BY <2>1, <4>2, <5>1
      <4> QED
        BY <4>1, <4>2
    <3> QED
      BY <3>1
  <2>7. Upto(g, m)
    BY <2>5, <2>6
  <2> HIDE DEF Upto, g
  <2> QED
    BY <2>4, <2>7
<1>3. Size \in Held
  <2> HIDE DEF Held
  <2>1. \A n \in 0..Size : n \in Held
    BY <1>1, <1>2, Upwards
  <2> QED
    BY <2>1
<1> QED
  BY <1>3 DEF Runs

(* What holds of a number as soon as it holds of the larger ones.          *)
LEMMA Downwards ==
  ASSUME NEW low \in Nat, NEW high \in Nat, NEW Held,
         \A x \in low..high : (\A y \in x + 1..high : y \in Held) => x \in Held
  PROVE  \A x \in low..high : x \in Held
<1> DEFINE Wrong == {x \in low..high : x \notin Held}
           Far == {high - x : x \in Wrong}
<1>1. SUFFICES ASSUME Wrong # {} PROVE FALSE
  OBVIOUS
<1>2. PICK d \in Far : \A e \in Far : d <= e
  <2>1. Far \subseteq Nat /\ Far # {}
    BY <1>1
  <2> HIDE DEF Far
  <2> QED
    BY <2>1, LeastExists
<1>3. PICK x \in Wrong : d = high - x
  OBVIOUS
<1>4. ASSUME NEW y \in x + 1..high PROVE y \in Held
  <2>1. y \in low..high /\ ~(d <= high - y)
    BY <1>3
  <2>2. y \notin Wrong
    BY <1>2, <2>1
  <2> QED
    BY <2>1, <2>2
<1>5. x \in low..high
  OBVIOUS
<1> QED
  BY <1>4, <1>5

(* A function that computes each of its values from the ones further on.   *)
StepsDown(low, high, Values) ==
  {onward \in [low..high -> [[low..high -> Values] -> Values]] :
     \A x \in low..high : \A f, g \in [low..high -> Values] :
        (\A y \in x + 1..high : f[y] = g[y]) => onward[x][f] = onward[x][g]}
RunsDown(f, low, high, Values, onward) ==
  f \in [low..high -> Values] /\ \A x \in low..high : f[x] = onward[x][f]

LEMMA RecursionDown ==
  ASSUME NEW low \in Nat, NEW high \in Nat, low <= high, NEW Values, NEW start \in Values,
         NEW onward \in StepsDown(low, high, Values)
  PROVE  \E f : RunsDown(f, low, high, Values, onward)
<1> USE DEF StepsDown
<1> DEFINE Dom == low..high
           Size == high - low + 1
           Upto(f, n) == \A x \in Dom : x > high - n => f[x] = onward[x][f]
           Held == {n \in 0..Size : \E f \in [Dom -> Values] : Upto(f, n)}
<1>0. Size \in Nat
  OBVIOUS
<1>1. 0 \in Held
  <2>1. [x \in Dom |-> start] \in [Dom -> Values]
    OBVIOUS
  <2>2. \A x \in Dom : ~(x > high - 0)
    OBVIOUS
  <2>3. Upto([x \in Dom |-> start], 0)
    BY <2>2
  <2> HIDE DEF Upto, Dom
  <2> QED
    BY <1>0, <2>1, <2>3
<1>2. ASSUME NEW n \in 1..Size, n - 1 \in Held PROVE n \in Held
  <2>1. PICK f \in [Dom -> Values] : Upto(f, n - 1)
    BY <1>2
  <2> DEFINE m == high - n + 1
             g == [x \in Dom |-> IF x = m THEN onward[m][f] ELSE f[x]]
  <2>2. m \in Dom /\ m \in Nat
    OBVIOUS
  <2>3. onward[m][f] \in Values
    <3>1. onward[m] \in [[Dom -> Values] -> Values]
      BY <2>2
    <3> QED
      BY <3>1
  <2>4. g \in [Dom -> Values]
    <3> HIDE DEF Dom, m
    <3> QED
      BY <2>3
  <2>5. ASSUME NEW x \in Dom, x > high - n PROVE g[x] = onward[x][g]
    <3>1. \A y \in x + 1..high : y \in Dom /\ y # m
      BY <2>5
    <3>2. \A y \in x + 1..high : f[y] = g[y]
      <4> HIDE DEF Dom, m
      <4> QED
        BY <3>1
    <3>3. onward[x][f] = onward[x][g]
      <4> HIDE DEF g
      <4> QED
        BY <2>4, <3>2
    <3>4. CASE x = m
      <4>1. g[x] = onward[x][f]
        <5> HIDE DEF Dom, m
        <5> QED
          BY <3>4
      <4> QED
        BY <3>3, <4>1
    <3>5. CASE x # m
      <4>1. x > high - (n - 1)
        BY <2>5, <3>5
      <4>2. f[x] = onward[x][f]
        BY <2>1, <4>1
      <4>3. g[x] = f[x]
        <5> HIDE DEF Dom, m
        <5> QED
          BY <3>5
      <4> QED
        BY <3>3, <4>2, <4>3
    <3> QED
      BY <3>4, <3>5
  <2>6. Upto(g, n)
    <3> HIDE DEF g, Dom
    <3> QED
      BY <2>5
  <2> HIDE DEF g, Upto, Dom
  <2> QED
    BY <2>4, <2>6
<1>3. Size \in Held
  <2> HIDE DEF Held
  <2>1. \A n \in 0..Size : n \in Held
    <3> HIDE DEF Size
    <3> QED
      BY <1>0, <1>1, <1>2, Upwards
  <2> QED
    BY <1>0, <2>1
<1>4. PICK f \in [Dom -> Values] : Upto(f, Size)
  BY <1>3
<1>5. \A x \in Dom : x > high - Size
  OBVIOUS
<1> QED
  BY <1>4, <1>5 DEF RunsDown
-----------------------------------------------------------------------------
(* FlattenSeq() *)

(* It goes sequence by sequence.                                           *)
LEMMA Joining ==
  ASSUME NEW U, NEW ss \in Seq(Seq(U))
  PROVE  \E f : /\ f \in [0..Len(ss) -> Seq(U)]
                /\ f[0] = <<>>
                /\ \A i \in 1..Len(ss) : f[i] = f[i - 1] \o ss[i]
                /\ FlattenSeq(ss) = f[Len(ss)]
<1> DEFINE N == Len(ss)
           Made == Seq(U)
           Added(i, s) == s \o ss[i]
           step == [i \in 1..N |-> [s \in Made |-> Added(i, s)]]
           Turn(f, i) == IF i = 1 THEN ss[i] ELSE f[i - 1] \o ss[i]
           joined == CHOOSE f : f = [i \in 1..N |-> Turn(f, i)]
<1>1. N \in Nat /\ DOMAIN ss = 1..N /\ \A i \in 1..N : ss[i] \in Made
  OBVIOUS
<1>2. <<>> \in Made /\ \A i \in 1..N, s \in Made : Added(i, s) \in Made
  OBVIOUS
<1>3. step \in Steps(N, Made)
  <2> HIDE DEF Made, Added
  <2> QED
    BY <1>2 DEF Steps
<1>4. PICK f : Runs(f, N, Made, <<>>, step)
  <2> HIDE DEF N, Made, step
  <2> QED
    BY <1>1, <1>2, <1>3, Recursion
<1>5. f \in [0..N -> Made] /\ f[0] = <<>> /\ \A i \in 1..N : f[i] = f[i - 1] \o ss[i]
  <2> HIDE DEF Made, N
  <2>1. \A i \in 1..N : i - 1 \in 0..N
    BY <1>1
  <2>2. \A i \in 1..N : f[i - 1] \in Made
    BY <1>4, <2>1 DEF Runs
  <2> QED
    BY <1>4, <2>2 DEF Runs
<1> HIDE DEF step
<1>6. \A i \in 1..N : f[i] = Turn(f, i)
  <2>1. \A i \in 1..N : ss[i] = <<>> \o ss[i]
    <3> HIDE DEF N
    <3> QED
      BY <1>1, ConcatEmptySeq
  <2> HIDE DEF N, Made
  <2>2. ASSUME NEW i \in 1..N PROVE f[i] = Turn(f, i)
    <3>1. CASE i = 1
      <4>1. f[i] = f[i - 1] \o ss[i]
        BY <1>5, <2>2
      <4>2. f[i - 1] = <<>>
        BY <1>5, <3>1
      <4> QED
        BY <2>1, <3>1, <4>1, <4>2
    <3>2. CASE i # 1
      BY <1>5, <3>2
    <3> QED
      BY <3>1, <3>2
  <2> HIDE DEF Turn
  <2> QED
    BY <2>2
<1>7. \E g : g = [i \in 1..N |-> Turn(g, i)]
  <2> DEFINE g == [i \in 1..N |-> f[i]]
  <2>1. \A i \in 1..N : i # 1 => i - 1 \in 1..N
    BY <1>1
  <2>2. \A i \in 1..N : Turn(f, i) = Turn(g, i)
    BY <2>1
  <2>3. g = [i \in 1..N |-> Turn(g, i)]
    <3> HIDE DEF Turn
    <3> QED
      BY <1>6, <2>2
  <2> QED
    BY <2>3
<1>8. joined = [i \in 1..N |-> Turn(joined, i)]
  <2> HIDE DEF Turn
  <2> QED
    BY <1>7
<1>9. \A i \in 1..N : joined[i] = f[i]
  <2> DEFINE T == {i \in 0..N : i = 0 \/ joined[i] = f[i]}
  <2>1. 0 \in T
    BY <1>1
  <2>2. ASSUME NEW i \in 1..N, i - 1 \in T PROVE i \in T
    <3>1. joined[i] = Turn(joined, i)
      <4> HIDE DEF joined, Turn, N
      <4> QED
        BY <1>1, <1>8
    <3> HIDE DEF joined
    <3>2. i # 1 => joined[i - 1] = f[i - 1]
      BY <1>1, <2>2
    <3>3. joined[i] = f[i]
      BY <1>6, <3>1, <3>2
    <3> QED
      BY <1>1, <3>3
  <2>3. \A i \in 0..N : i \in T
    <3> HIDE DEF T
    <3> QED
      BY <1>1, <2>1, <2>2, Upwards
  <2> HIDE DEF joined
  <2> QED
    BY <1>1, <2>3
<1>10. FlattenSeq(ss) = f[N]
  <2>1. CASE N = 0
    <3>1. ss = <<>>
      BY <2>1
    <3>2. FlattenSeq(ss) = ss
      BY <2>1 DEF FlattenSeq
    <3> QED
      BY <1>5, <2>1, <3>1, <3>2
  <2>2. CASE N # 0
    <3>1. FlattenSeq(ss) = joined[N]
      BY <2>2 DEF FlattenSeq
    <3> HIDE DEF joined
    <3> QED
      BY <1>1, <1>9, <2>2, <3>1
  <2> QED
    BY <2>1, <2>2
<1> HIDE DEF N, Made
<1> QED
  BY <1>5, <1>10 DEF N, Made

(* An order within each sequence, and from each to the ones that follow,   *)
(* is one of all that they hold.                                           *)
LEMMA JoinedInOrder ==
  ASSUME NEW U, NEW ss \in Seq(Seq(U)), NEW Lt,
         \A r \in 1..Len(ss) : \A i, j \in 1..Len(ss[r]) : i < j => <<ss[r][i], ss[r][j]>> \in Lt,
         \A r, q \in 1..Len(ss) : r < q =>
           \A i \in 1..Len(ss[r]), j \in 1..Len(ss[q]) : <<ss[r][i], ss[q][j]>> \in Lt
  PROVE  /\ FlattenSeq(ss) \in Seq(U)
         /\ \A i, j \in 1..Len(FlattenSeq(ss)) :
              i < j => <<FlattenSeq(ss)[i], FlattenSeq(ss)[j]>> \in Lt
<1> DEFINE N == Len(ss)
<1>1. N \in Nat /\ \A r \in 1..N : ss[r] \in Seq(U) /\ Len(ss[r]) \in Nat
  OBVIOUS
<1>2. PICK f : /\ f \in [0..N -> Seq(U)] /\ f[0] = <<>>
               /\ \A i \in 1..N : f[i] = f[i - 1] \o ss[i]
               /\ FlattenSeq(ss) = f[N]
  BY Joining
<1> HIDE DEF N
<1> DEFINE Sorted(n) == \A i, j \in 1..Len(f[n]) : i < j => <<f[n][i], f[n][j]>> \in Lt
           Drawn(n) == \A i \in 1..Len(f[n]) :
                         \E r \in 1..N : r <= n /\ \E k \in 1..Len(ss[r]) : f[n][i] = ss[r][k]
           T == {n \in 0..N : Sorted(n) /\ Drawn(n)}
<1>3. 0 \in T
  <2>1. \A i \in 1..Len(f[0]) : FALSE
    BY <1>2
  <2> QED
    BY <1>1, <2>1
<1>4. ASSUME NEW n \in 1..N, n - 1 \in T PROVE n \in T
  <2> DEFINE old == f[n - 1]  new == ss[n]
  <2>1. n - 1 \in 0..N /\ n \in Nat /\ n \in 0..N /\ old \in Seq(U) /\ new \in Seq(U) /\ f[n] = old \o new
    <3>1. n - 1 \in 0..N /\ n \in Nat /\ n \in 0..N
      BY <1>1
    <3>2. old \in Seq(U) /\ f[n] = old \o new
      BY <1>2, <3>1
    <3>3. new \in Seq(U)
      BY <1>1
    <3> QED
      BY <3>1, <3>2, <3>3
  <2>2. Sorted(n - 1) /\ Drawn(n - 1)
    BY <1>4
  <2> DEFINE L1 == Len(old)  L2 == Len(new)
  <2>3. L1 \in Nat /\ L2 \in Nat
    <3> HIDE DEF old, new
    <3> QED
      BY <2>1, LenProperties
  <2>4. /\ Len(f[n]) = L1 + L2
        /\ \A i \in 1..L1 + L2 : f[n][i] = IF i <= L1 THEN old[i] ELSE new[i - L1]
    <3> HIDE DEF old, new
    <3> QED
      BY <2>1, ConcatProperties
  <2>5. \A i \in 1..L1 : \E r \in 1..N : r < n /\ \E k \in 1..Len(ss[r]) : old[i] = ss[r][k]
    <3>1. \A r \in 1..N : r <= n - 1 => r < n
      BY <1>1
    <3> QED
      BY <2>2, <3>1
  <2>6. \A i \in 1..L1, j \in 1..L2 : <<old[i], new[j]>> \in Lt
    <3>1. ASSUME NEW i \in 1..L1, NEW j \in 1..L2 PROVE <<old[i], new[j]>> \in Lt
      <4>1. PICK r \in 1..N : r < n /\ \E k \in 1..Len(ss[r]) : old[i] = ss[r][k]
        BY <2>5
      <4>2. PICK k \in 1..Len(ss[r]) : old[i] = ss[r][k]
        BY <4>1
      <4>3. <<ss[r][k], ss[n][j]>> \in Lt
        BY <4>1 DEF N
      <4> QED
        BY <4>2, <4>3
    <3> QED
      BY <3>1
  <2>7. \A i, j \in 1..L1 : i < j => <<old[i], old[j]>> \in Lt
    BY <2>2
  <2>8. \A i, j \in 1..L2 : i < j => <<new[i], new[j]>> \in Lt
    BY DEF N
  <2> HIDE DEF old, new, L1, L2
  <2>9. Sorted(n)
    <3>1. ASSUME NEW i \in 1..L1 + L2, NEW j \in 1..L1 + L2, i < j PROVE <<f[n][i], f[n][j]>> \in Lt
      <4>1. CASE j <= L1
        <5>1. i \in 1..L1 /\ j \in 1..L1 /\ i <= L1
          BY <2>3, <3>1, <4>1
        <5>2. f[n][i] = old[i] /\ f[n][j] = old[j]
          BY <2>4, <4>1, <5>1
        <5>3. <<old[i], old[j]>> \in Lt
          BY <2>7, <3>1, <5>1
        <5> QED
          BY <5>2, <5>3
      <4>2. CASE i <= L1 /\ ~(j <= L1)
        <5>1. i \in 1..L1 /\ j - L1 \in 1..L2
          BY <2>3, <4>2
        <5> QED
          BY <2>4, <2>6, <4>2, <5>1
      <4>3. CASE ~(i <= L1)
        <5>1. i - L1 \in 1..L2 /\ j - L1 \in 1..L2 /\ i - L1 < j - L1 /\ ~(j <= L1)
          BY <2>3, <3>1, <4>3
        <5> QED
          BY <2>4, <2>8, <4>3, <5>1
      <4> QED
        BY <4>1, <4>2, <4>3
    <3> QED
      BY <2>4, <3>1
  <2>10. Drawn(n)
    <3>1. ASSUME NEW i \in 1..L1 + L2
          PROVE  \E r \in 1..N : r <= n /\ \E k \in 1..Len(ss[r]) : f[n][i] = ss[r][k]
      <4>1. CASE i <= L1
        <5>1. PICK r \in 1..N : r < n /\ \E k \in 1..Len(ss[r]) : old[i] = ss[r][k]
          <6>1. i \in 1..L1
            BY <2>3, <4>1
          <6> QED
            BY <2>5, <6>1
        <5>2. r <= n
          BY <1>1, <5>1
        <5> QED
          BY <2>4, <4>1, <5>1, <5>2
      <4>2. CASE ~(i <= L1)
        <5>1. i - L1 \in 1..Len(ss[n]) /\ n <= n
          BY <2>1, <2>3, <4>2 DEF L2, new
        <5> QED
          BY <2>4, <4>2, <5>1 DEF new
      <4> QED
        BY <4>1, <4>2
    <3> QED
      BY <2>4, <3>1
  <2> HIDE DEF Sorted, Drawn
  <2> QED
    BY <2>1, <2>9, <2>10
<1>5. N \in T
  <2> HIDE DEF T
  <2>1. \A n \in 0..N : n \in T
    BY <1>1, <1>3, <1>4, Upwards
  <2> QED
    BY <1>1, <2>1
<1> QED
  BY <1>1, <1>2, <1>5

(* What is joined is found where the sequences before it end.              *)
LEMMA JoinedAt ==
  ASSUME NEW U, NEW ss \in Seq(Seq(U))
  PROVE  /\ FlattenSeq(ss) \in Seq(U)
         /\ \E cut \in [0..Len(ss) -> Nat] :
              /\ cut[0] = 0 /\ cut[Len(ss)] = Len(FlattenSeq(ss))
              /\ \A i \in 0..Len(ss) : cut[i] <= Len(FlattenSeq(ss))
              /\ \A i \in 1..Len(ss) :
                   /\ cut[i] = cut[i - 1] + Len(ss[i])
                   /\ \A k \in 1..Len(ss[i]) : FlattenSeq(ss)[cut[i - 1] + k] = ss[i][k]
<1> DEFINE N == Len(ss)
<1>1. N \in Nat /\ \A r \in 1..N : ss[r] \in Seq(U) /\ Len(ss[r]) \in Nat
  OBVIOUS
<1>2. PICK f : /\ f \in [0..N -> Seq(U)] /\ f[0] = <<>>
               /\ \A i \in 1..N : f[i] = f[i - 1] \o ss[i]
               /\ FlattenSeq(ss) = f[N]
  BY Joining
<1> HIDE DEF N
<1> DEFINE cut == [i \in 0..N |-> Len(f[i])]
           At(m) == \A i \in 1..N : i <= m =>
                      /\ cut[i] <= cut[m]
                      /\ \A k \in 1..Len(ss[i]) : f[m][cut[i - 1] + k] = ss[i][k]
           T == {m \in 0..N : At(m)}
<1>3. cut \in [0..N -> Nat] /\ cut[0] = 0 /\ N \in 0..N /\ 0 \in 0..N
  <2>1. \A i \in 0..N : Len(f[i]) \in Nat
    BY <1>2, LenProperties
  <2>2. Len(f[0]) = 0 /\ 0 \in 0..N /\ N \in 0..N
    BY <1>1, <1>2
  <2> QED
    BY <2>1, <2>2
<1>4. ASSUME NEW i \in 1..N
      PROVE  /\ i - 1 \in 0..N /\ i \in 0..N /\ cut[i - 1] \in Nat /\ cut[i] \in Nat
             /\ cut[i] = cut[i - 1] + Len(ss[i])
             /\ \A k \in 1..cut[i - 1] : f[i][k] = f[i - 1][k]
             /\ \A k \in 1..Len(ss[i]) : f[i][cut[i - 1] + k] = ss[i][k]
  <2>1. i - 1 \in 0..N /\ i \in 0..N
    BY <1>1
  <2>2. f[i - 1] \in Seq(U) /\ ss[i] \in Seq(U) /\ f[i] = f[i - 1] \o ss[i]
    BY <1>1, <1>2, <2>1
  <2>3. cut[i - 1] = Len(f[i - 1]) /\ cut[i] = Len(f[i]) /\ cut[i - 1] \in Nat /\ cut[i] \in Nat
    BY <1>3, <2>1
  <2> HIDE DEF cut
  <2>4. /\ Len(f[i]) = Len(f[i - 1]) + Len(ss[i])
        /\ \A k \in 1..Len(f[i - 1]) : f[i][k] = f[i - 1][k]
        /\ \A k \in 1..Len(ss[i]) : f[i][Len(f[i - 1]) + k] = ss[i][k]
    <3> DEFINE a == f[i - 1]  b == ss[i]
    <3>1. /\ Len(a \o b) = Len(a) + Len(b)
          /\ \A k \in 1..Len(a) : (a \o b)[k] = a[k]
          /\ \A k \in 1..Len(b) : (a \o b)[Len(a) + k] = b[k]
      <4>1. a \in Seq(U) /\ b \in Seq(U)
        BY <2>2
      <4> HIDE DEF a, b
      <4> QED
        BY <4>1
    <3> QED
      BY <2>2, <3>1
  <2> QED
    BY <2>1, <2>3, <2>4
<1> HIDE DEF cut
<1>5. 0 \in T
  BY <1>1, <1>3
<1>6. ASSUME NEW m \in 1..N, m - 1 \in T PROVE m \in T
  <2>1. m - 1 \in 0..N /\ m \in 0..N /\ m \in Nat
    BY <1>1
  <2>2. At(m - 1)
    BY <1>6
  <2>3. ASSUME NEW i \in 1..N, i <= m
        PROVE  /\ cut[i] <= cut[m]
               /\ \A k \in 1..Len(ss[i]) : f[m][cut[i - 1] + k] = ss[i][k]
    <3>1. CASE i = m
      <4>1. cut[m] \in Nat /\ \A k \in 1..Len(ss[m]) : f[m][cut[m - 1] + k] = ss[m][k]
        BY <1>4
      <4>2. cut[i] <= cut[m]
        BY <3>1, <4>1
      <4> QED
        BY <3>1, <4>1, <4>2, Zenon
    <3>2. CASE i # m
      <4>1. i <= m - 1
        BY <1>1, <2>3, <3>2
      <4>2. cut[i] <= cut[m - 1] /\ \A k \in 1..Len(ss[i]) : f[m - 1][cut[i - 1] + k] = ss[i][k]
        BY <2>2, <4>1
      <4>3. cut[i] \in Nat /\ cut[m - 1] \in Nat /\ cut[m] = cut[m - 1] + Len(ss[m]) /\ Len(ss[m]) \in Nat
        BY <1>1, <1>4
      <4>4. cut[i] <= cut[m]
        BY <4>2, <4>3
      <4>5. ASSUME NEW k \in 1..Len(ss[i]) PROVE f[m][cut[i - 1] + k] = ss[i][k]
        <5>1. cut[i - 1] \in Nat /\ cut[i] = cut[i - 1] + Len(ss[i]) /\ Len(ss[i]) \in Nat
          BY <1>1, <1>4
        <5>2. cut[i - 1] + k \in 1..cut[m - 1]
          <6>1. k \in Nat /\ 1 <= k /\ k <= Len(ss[i])
            BY <5>1
          <6>2. cut[i - 1] + k <= cut[i] /\ 1 <= cut[i - 1] + k /\ cut[i - 1] + k \in Nat
            BY <5>1, <6>1
          <6>3. cut[i - 1] + k <= cut[m - 1]
            BY <4>2, <4>3, <6>2
          <6> QED
            BY <4>3, <6>2, <6>3
        <5>3. f[m][cut[i - 1] + k] = f[m - 1][cut[i - 1] + k]
          BY <1>4, <5>2
        <5> QED
          BY <4>2, <5>3
      <4> QED
        BY <4>4, <4>5
    <3> QED
      BY <3>1, <3>2
  <2> QED
    BY <2>1, <2>3
<1>7. N \in T
  <2> HIDE DEF T
  <2>1. \A m \in 0..N : m \in T
    BY <1>1, <1>5, <1>6, Upwards
  <2> QED
    BY <1>3, <2>1
<1>8. At(N)
  BY <1>7
<1>9. \A i \in 1..N : \A k \in 1..Len(ss[i]) : FlattenSeq(ss)[cut[i - 1] + k] = ss[i][k]
  <2>1. \A i \in 1..N : i <= N
    BY <1>1
  <2> QED
    BY <1>2, <1>8, <2>1
<1>10. cut[N] = Len(FlattenSeq(ss)) /\ FlattenSeq(ss) \in Seq(U)
  BY <1>2, <1>3 DEF cut
<1>11. ASSUME NEW i \in 0..N PROVE cut[i] <= cut[N]
  <2>1. CASE i = 0
    BY <1>3, <2>1
  <2>2. CASE i # 0
    BY <1>1, <1>8, <2>2
  <2> QED
    BY <2>1, <2>2
<1> QED
  BY <1>3, <1>4, <1>9, <1>10, <1>11 DEF N
-----------------------------------------------------------------------------
(* Contents *)

(* Every record opens one topic at the most, and no id comes twice.        *)
Distinct(topics) == \A i, j \in 1..Len(topics) : topics[i].id = topics[j].id => i = j

LEMMA TopicsAreDistinct ==
  ASSUME NEW records, IsASequence(records)
  PROVE  /\ C!Topics(records) \in Seq({C!TopicOf(records, r) : r \in C!Headers(records)})
         /\ Distinct(C!Topics(records))
<1> DEFINE N == Len(records)
           Made == Seq({C!TopicOf(records, r) : r \in C!Headers(records)})
           Fits(r, s) == r \in C!Headers(records) /\ records[r].header \notin C!Ids(s)
           Added(r, s) == IF Fits(r, s) THEN Append(s, C!TopicOf(records, r)) ELSE s
           step == [r \in 1..N |-> [s \in Made |-> Added(r, s)]]
           Turn(f, r) == IF r = 0 THEN <<>> ELSE Added(r, f[r - 1])
           kept == CHOOSE f : f = [r \in 0..N |-> Turn(f, r)]
<1>0. N \in Nat
  BY DEF IsASequence
<1>1. <<>> \in Made
  OBVIOUS
<1>2. \A r \in 1..N, s \in Made : Added(r, s) \in Made
  OBVIOUS
<1>3. step \in Steps(N, Made)
  <2> HIDE DEF Made, Added
  <2> QED
    BY <1>2 DEF Steps
<1>4. \E f : f = [r \in 0..N |-> Turn(f, r)]
  <2>1. PICK f : Runs(f, N, Made, <<>>, step)
    <3> HIDE DEF N, Made, step
    <3> QED
      BY <1>0, <1>1, <1>3, Recursion
  <2>2. \A r \in 1..N : f[r] = Added(r, f[r - 1])
    <3> HIDE DEF Made, Added
    <3>1. \A r \in 1..N : f[r - 1] \in Made
      BY <1>0, <2>1 DEF Runs
    <3> QED
      BY <2>1, <3>1 DEF Runs
  <2>3. f = [r \in 0..N |-> Turn(f, r)]
    <3> HIDE DEF N, Made, Added, step
    <3>1. \A r \in 0..N : r = 0 \/ r \in 1..N
      BY <1>0
    <3>2. \A r \in 1..N : r # 0
      BY <1>0
    <3>3. \A r \in 0..N : f[r] = Turn(f, r)
      BY <2>1, <2>2, <3>1, <3>2 DEF Runs
    <3> QED
      BY <2>1, <3>3 DEF Runs
  <2> QED
    BY <2>3
<1>5. kept = [r \in 0..N |-> Turn(kept, r)]
  <2> HIDE DEF Turn
  <2> QED
    BY <1>4
<1>6. kept[0] = <<>> /\ \A r \in 1..N : kept[r] = Added(r, kept[r - 1])
  <2> HIDE DEF kept, Added
  <2>1. 0 \in 0..N /\ \A r \in 1..N : r \in 0..N /\ r # 0
    BY <1>0
  <2> QED
    BY <1>5, <2>1
<1>7. \A r \in 0..N : kept[r] \in Made /\ Distinct(kept[r])
  <2> DEFINE T == {r \in 0..N : kept[r] \in Made /\ Distinct(kept[r])}
  <2>1. 0 \in T
    <3>1. Distinct(<<>>)
      BY DEF Distinct
    <3> HIDE DEF kept, Made
    <3> QED
      BY <1>0, <1>1, <1>6, <3>1
  <2>2. ASSUME NEW r \in 1..N, r - 1 \in T PROVE r \in T
    <3> DEFINE s == kept[r - 1]
               new == C!TopicOf(records, r)
    <3>1. kept[r] = Added(r, s) /\ s \in Made /\ Distinct(s)
      BY <1>6, <2>2
    <3> HIDE DEF kept, s
    <3>2. CASE ~Fits(r, s)
      BY <2>2, <3>1, <3>2
    <3>3. CASE Fits(r, s)
      <4>1. new.id = records[r].header
        BY DEF C!TopicOf
      <4>2. new.id \notin C!Ids(s) /\ r \in C!Headers(records)
        BY <3>3, <4>1
      <4>3. Append(s, new) \in Made
        BY <3>1, <4>2
      <4> HIDE DEF new
      <4>4. /\ Len(Append(s, new)) = Len(s) + 1
            /\ Append(s, new)[Len(s) + 1] = new
            /\ \A i \in 1..Len(s) : Append(s, new)[i] = s[i]
        BY <3>1, AppendProperties
      <4>5. \A i \in 1..Len(s) : s[i].id # new.id
        BY <3>1, <4>2 DEF C!Ids
      <4>6. Distinct(Append(s, new))
        <5>1. SUFFICES ASSUME NEW i \in 1..(Len(s) + 1), NEW j \in 1..(Len(s) + 1),
                              Append(s, new)[i].id = Append(s, new)[j].id
                       PROVE  i = j
          BY <4>4 DEF Distinct
        <5>2. Len(s) \in Nat
          BY <3>1
        <5>3. (i = Len(s) + 1 \/ i \in 1..Len(s)) /\ (j = Len(s) + 1 \/ j \in 1..Len(s))
          BY <5>2
        <5> QED
          BY <3>1, <4>4, <4>5, <5>1, <5>3 DEF Distinct
      <4>7. kept[r] = Append(s, new)
        BY <3>1, <3>3 DEF new
      <4>8. kept[r] \in Made /\ Distinct(kept[r]) /\ r \in 0..N
        BY <4>3, <4>6, <4>7, <1>0
      <4> QED
        BY <4>8
    <3> QED
      BY <3>2, <3>3
  <2>3. \A r \in 0..N : r \in T
    <3> HIDE DEF T
    <3> QED
      BY <1>0, <2>1, <2>2, Upwards
  <2> QED
    BY <2>3
<1>8. C!Topics(records) = kept[N]
  BY DEF C!Topics
<1> QED
  <2> HIDE DEF kept, Made
  <2>1. N \in 0..N
    BY <1>0
  <2>2. kept[N] \in Made /\ Distinct(kept[N])
    BY <1>7, <2>1
  <2> QED
    BY <1>8, <2>2 DEF Made

(* What is left of a sequence of lines is one.                             *)
LEMMA StyledLines ==
  ASSUME NEW U, NEW lines \in Seq(U)
  PROVE  C!Styled(lines) \in Seq(U)
<1> DEFINE N == Len(lines)
           Made == Seq(U)
           Added(n, s) == IF lines[n].style = 0 THEN s ELSE Append(s, lines[n])
           step == [n \in 1..N |-> [s \in Made |-> Added(n, s)]]
           Turn(f, n) == IF n = 0 THEN <<>> ELSE Added(n, f[n - 1])
           shown == CHOOSE f : f = [n \in 0..N |-> Turn(f, n)]
<1>0. N \in Nat
  OBVIOUS
<1>1. <<>> \in Made
  OBVIOUS
<1>2. \A n \in 1..N, s \in Made : Added(n, s) \in Made
  OBVIOUS
<1>3. step \in Steps(N, Made)
  <2> HIDE DEF Made, Added
  <2> QED
    BY <1>2 DEF Steps
<1>4. \E f : f = [n \in 0..N |-> Turn(f, n)]
  <2>1. PICK f : Runs(f, N, Made, <<>>, step)
    <3> HIDE DEF N, Made, step
    <3> QED
      BY <1>0, <1>1, <1>3, Recursion
  <2>2. \A n \in 1..N : f[n] = Added(n, f[n - 1])
    <3> HIDE DEF Made, Added
    <3>1. \A n \in 1..N : f[n - 1] \in Made
      BY <1>0, <2>1 DEF Runs
    <3> QED
      BY <2>1, <3>1 DEF Runs
  <2>3. f = [n \in 0..N |-> Turn(f, n)]
    <3> HIDE DEF N, Made, Added, step
    <3>1. \A n \in 0..N : n = 0 \/ (n \in 1..N /\ n # 0)
      BY <1>0
    <3>2. \A n \in 0..N : f[n] = Turn(f, n)
      BY <2>1, <2>2, <3>1 DEF Runs
    <3> QED
      BY <2>1, <3>2 DEF Runs
  <2> QED
    BY <2>3
<1>5. shown = [n \in 0..N |-> Turn(shown, n)]
  <2> HIDE DEF Turn
  <2> QED
    BY <1>4
<1>6. shown[0] = <<>> /\ \A n \in 1..N : shown[n] = Added(n, shown[n - 1])
  <2> HIDE DEF shown, Added
  <2>1. 0 \in 0..N /\ \A n \in 1..N : n \in 0..N /\ n # 0
    BY <1>0
  <2> QED
    BY <1>5, <2>1
<1>7. \A n \in 0..N : shown[n] \in Made
  <2> DEFINE T == {n \in 0..N : shown[n] \in Made}
  <2> HIDE DEF shown, Added, Made
  <2>1. 0 \in T
    BY <1>0, <1>1, <1>6
  <2>2. ASSUME NEW n \in 1..N, n - 1 \in T PROVE n \in T
    BY <1>0, <1>2, <1>6, <2>2
  <2>3. \A n \in 0..N : n \in T
    <3> HIDE DEF T
    <3> QED
      BY <1>0, <2>1, <2>2, Upwards
  <2> QED
    BY <2>3
<1>8. C!Styled(lines) = shown[N]
  BY DEF C!Styled
<1> QED
  <2> HIDE DEF shown, Made
  <2> QED
    BY <1>0, <1>7, <1>8 DEF Made

LEMMA LeastFound ==
  ASSUME NEW Q, Q \subseteq Nat, Q # {}
  PROVE  C!LeastOf(Q) \in Q /\ \A m \in Q : C!LeastOf(Q) <= m
<1>1. \E n \in Q : \A m \in Q : n <= m
  BY LeastExists
<1> QED
  BY <1>1 DEF C!LeastOf

LEMMA TopicIsNamed ==
  ASSUME NEW U, NEW topics \in Seq(U), NEW id \in C!Ids(topics)
  PROVE  \E i \in 1..Len(topics) : C!TopicNamed(topics, id) = topics[i] /\ topics[i].id = id
<1> DEFINE Q == {i \in DOMAIN topics : topics[i].id = id}
<1>1. Q \subseteq Nat /\ Q # {}
  BY DEF C!Ids
<1>2. C!LeastOf(Q) \in Q
  <2> HIDE DEF Q
  <2> QED
    BY <1>1, LeastFound
<1>3. DOMAIN topics = 1..Len(topics)
  OBVIOUS
<1>4. C!TopicNamed(topics, id) = topics[C!LeastOf(Q)]
  BY DEF C!TopicNamed
<1> QED
  BY <1>2, <1>3, <1>4

(* The lines of the CONTENTS topic are those of the records that it has.   *)
LEMMA ContentsLines ==
  ASSUME NEW v \in Volumes
  PROVE  \E U : C!Lines(v.records, C!Topics(v.records)) \in Seq(U)
<1> DEFINE records == v.records
           topics == C!Topics(records)
           U == UNION {{records[q].entries[k] : k \in DOMAIN records[q].entries} : q \in DOMAIN records}
<1>1. /\ Len(records) \in Nat /\ DOMAIN records = 1..Len(records)
      /\ \A q \in DOMAIN records : records[q].entries \in Seq(U)
  <2>1. IsASequence(records) /\ \A q \in DOMAIN records : IsASequence(records[q].entries)
    BY VolumesAssumption
  <2>2. ASSUME NEW q \in DOMAIN records PROVE records[q].entries \in Seq(U)
    <3> DEFINE own == {records[q].entries[k] : k \in DOMAIN records[q].entries}
    <3>1. own \subseteq U
      OBVIOUS
    <3>2. records[q].entries \in Seq(own)
      BY <2>1 DEF IsASequence
    <3> HIDE DEF own, U
    <3> QED
      BY <3>1, <3>2, SeqMonotonic
  <2>3. records \in Seq({records[i] : i \in DOMAIN records})
    BY <2>1 DEF IsASequence
  <2>4. Len(records) \in Nat /\ DOMAIN records = 1..Len(records)
    <3> DEFINE Recorded == {records[i] : i \in DOMAIN records}
    <3> HIDE DEF Recorded, records
    <3> QED
      BY <2>3, LenProperties DEF Recorded
  <2> QED
    BY <2>2, <2>4
<1> HIDE DEF U
<1>2. CASE "contents" \notin C!Ids(topics)
  <2>1. C!Lines(records, topics) = <<>>
    BY <1>2 DEF C!Lines
  <2> QED
    BY <2>1
<1>3. CASE "contents" \in C!Ids(topics)
  <2> DEFINE one == C!TopicNamed(topics, "contents")
             parts == [i \in 1..one.end - one.first |-> records[one.first + i - 1].entries]
  <2>1. PICK r \in C!Headers(records) : one = C!TopicOf(records, r)
    <3> DEFINE Opened == {C!TopicOf(records, q) : q \in C!Headers(records)}
    <3>1. topics \in Seq(Opened)
      BY TopicsAreDistinct, VolumesAssumption
    <3> HIDE DEF topics, Opened
    <3>2. PICK i \in 1..Len(topics) : one = topics[i]
      BY <1>3, <3>1, TopicIsNamed
    <3>3. topics[i] \in Opened
      BY <3>1
    <3> QED
      BY <3>2, <3>3 DEF Opened
  <2> HIDE DEF one
  <2>2. r \in 1..Len(records)
    BY <1>1 DEF C!Headers
  <2>3. one.first = r /\ one.end = C!EndOf(records, r)
    BY <2>1 DEF C!TopicOf
  <2>4. one.end \in r..Len(records) + 1
    <3> DEFINE Q == {h \in C!Headers(records) : h > r} \cup {Len(records) + 1}
    <3>1. Q \subseteq r..Len(records) + 1 /\ Q # {}
      BY <1>1, <2>2 DEF C!Headers
    <3>2. Q \subseteq Nat
      BY <2>2, <3>1
    <3>3. C!LeastOf(Q) \in Q
      <4> HIDE DEF Q
      <4> QED
        BY <3>1, <3>2, LeastFound
    <3> QED
      BY <2>3, <3>1, <3>3 DEF C!EndOf
  <2>5. parts \in Seq(Seq(U))
    <3>1. one.end - one.first \in Nat
      BY <1>1, <2>2, <2>3, <2>4
    <3>2. \A i \in 1..one.end - one.first : one.first + i - 1 \in DOMAIN records
      BY <1>1, <2>2, <2>3, <2>4
    <3>3. \A i \in 1..one.end - one.first : parts[i] \in Seq(U)
      BY <1>1, <3>2
    <3> QED
      BY <3>1, <3>3
  <2>6. C!Lines(records, topics) = C!FlattenSeq(parts)
    BY <1>3 DEF C!Lines, one
  <2> HIDE DEF parts
  <2>7. FlattenSeq(parts) \in Seq(U)
    <3> HIDE DEF records, topics
    <3> QED
      BY <2>5, JoinedAt, Zenon
  <2>8. C!FlattenSeq(parts) = FlattenSeq(parts)
    BY Zenon DEF C!FlattenSeq, FlattenSeq
  <2>9. C!Lines(records, topics) \in Seq(U)
    BY <2>6, <2>7, <2>8, Zenon
  <2> QED
    BY <2>9, Zenon
<1> QED
  BY <1>2, <1>3
-----------------------------------------------------------------------------
(* The way up from a topic, step by step.                                  *)
Up(topics, name) == IF name \in C!Ids(topics) THEN C!TopicNamed(topics, name).parent ELSE name

LEMMA WayStepwise ==
  ASSUME NEW topics, Len(topics) \in Nat, NEW id
  PROVE  LET way == C!Way(topics, id)
         IN  way[0] = id /\ \A n \in 1..Len(topics) : way[n] = Up(topics, way[n - 1])
<1> DEFINE N == Len(topics)
           Made == {id} \cup {C!TopicNamed(topics, name).parent : name \in C!Ids(topics)}
           step == [n \in 1..N |-> [s \in Made |-> Up(topics, s)]]
           Turn(f, n) == IF n = 0 THEN id ELSE Up(topics, f[n - 1])
           way == CHOOSE f : f = [n \in 0..N |-> Turn(f, n)]
<1>1. id \in Made
  OBVIOUS
<1>2. step \in Steps(N, Made)
  BY DEF Steps, Up
<1>3. \E f : f = [n \in 0..N |-> Turn(f, n)]
  <2>1. PICK f : Runs(f, N, Made, id, step)
    <3> HIDE DEF N, Made, step
    <3>1. N \in Nat
      BY DEF N
    <3> QED
      BY <1>1, <1>2, <3>1, Recursion
  <2>2. \A n \in 1..N : f[n] = Up(topics, f[n - 1])
    <3> HIDE DEF Made
    <3>1. \A n \in 1..N : f[n - 1] \in Made
      BY <2>1 DEF Runs
    <3> QED
      BY <2>1, <3>1 DEF Runs
  <2>3. f = [n \in 0..N |-> Turn(f, n)]
    <3> HIDE DEF Made, step
    <3>1. \A n \in 0..N : n = 0 \/ (n \in 1..N /\ n # 0)
      OBVIOUS
    <3>2. \A n \in 0..N : f[n] = Turn(f, n)
      BY <2>1, <2>2, <3>1 DEF Runs
    <3> QED
      BY <2>1, <3>2 DEF Runs
  <2> QED
    BY <2>3
<1>4. way = [n \in 0..N |-> Turn(way, n)]
  <2> HIDE DEF Turn
  <2> QED
    BY <1>3
<1>5. C!Way(topics, id) = way
  BY DEF C!Way, Up
<1> QED
  <2> HIDE DEF way
  <2>1. 0 \in 0..N /\ \A n \in 1..N : n \in 0..N /\ n # 0
    OBVIOUS
  <2> QED
    BY <1>4, <1>5, <2>1

(* A chain that ends is one longer than the chain of the parent.           *)
LEMMA ChainStepwise ==
  ASSUME NEW topics, Len(topics) \in Nat, NEW id \in C!Ids(topics),
         C!ParentChainLength(topics, id) # Unset
  PROVE  LET parent == C!TopicNamed(topics, id).parent
             length == C!ParentChainLength(topics, id)
         IN  /\ length \in Nat
             /\ parent = "top" => length = 0
             /\ parent # "top" => /\ length > 0 /\ parent \in C!Ids(topics)
                                 /\ C!ParentChainLength(topics, parent) = length - 1
<1> DEFINE N == Len(topics)
           Parent(name) == C!TopicNamed(topics, name).parent
           W(name) == C!Way(topics, name)
           Ends(name) == {n \in 0..N : W(name)[n] \in C!Ids(topics) /\ Parent(W(name)[n]) = "top"}
           parent == Parent(id)
           length == C!ParentChainLength(topics, id)
<1>1. \A name : C!ParentChainLength(topics, name) = IF Ends(name) = {} THEN Unset ELSE C!LeastOf(Ends(name))
  BY DEF C!ParentChainLength
<1>2. \A name : W(name)[0] = name /\ \A n \in 1..N : W(name)[n] = Up(topics, W(name)[n - 1])
  BY WayStepwise
<1>3. \A name : Ends(name) # {} => /\ C!LeastOf(Ends(name)) \in Ends(name)
                                   /\ \A m \in Ends(name) : C!LeastOf(Ends(name)) <= m
  <2>1. \A name : Ends(name) \subseteq Nat
    OBVIOUS
  <2> HIDE DEF Ends
  <2> QED
    BY <2>1, LeastFound
<1>4. Ends(id) # {} /\ length = C!LeastOf(Ends(id))
  <2> HIDE DEF Ends
  <2> QED
    BY <1>1
<1>5. length \in Ends(id) /\ \A m \in Ends(id) : length <= m
  <2> HIDE DEF Ends, length
  <2> QED
    BY <1>3, <1>4
<1> HIDE DEF length
<1>6. length \in 0..N
  BY <1>5
<1>7. CASE parent = "top"
  <2>1. 0 \in Ends(id)
    BY <1>2, <1>7
  <2>2. length <= 0
    <3> HIDE DEF Ends
    <3> QED
      BY <1>5, <2>1
  <2> QED
    BY <1>6, <1>7, <2>2 DEF length
<1>8. CASE parent # "top"
  <2>1. length # 0
    BY <1>2, <1>5, <1>8
  <2>2. length \in 1..N /\ length - 1 \in 0..N
    BY <1>6, <2>1
  <2>3. \A n \in 0..N : n + 1 <= N => W(id)[n + 1] = W(parent)[n]
    <3> DEFINE T == {n \in 0..N : n + 1 <= N => W(id)[n + 1] = W(parent)[n]}
    <3> HIDE DEF W
    <3>1. 0 \in T
      <4>1. 1 <= N => W(id)[1] = Up(topics, id)
        BY <1>2
      <4>2. Up(topics, id) = parent
        BY DEF Up
      <4> QED
        BY <1>2, <4>1, <4>2
    <3>2. ASSUME NEW n \in 1..N, n - 1 \in T PROVE n \in T
      <4>1. CASE n + 1 <= N
        <5>1. W(id)[n] = W(parent)[n - 1]
          BY <3>2, <4>1
        <5>2. W(id)[n + 1] = Up(topics, W(id)[n])
          <6>1. n + 1 \in 1..N /\ (n + 1) - 1 = n
            BY <4>1
          <6> QED
            BY <1>2, <6>1
        <5>3. W(parent)[n] = Up(topics, W(parent)[n - 1])
          BY <1>2
        <5> QED
          BY <5>1, <5>2, <5>3
      <4> QED
        BY <4>1
    <3>3. \A n \in 0..N : n \in T
      <4> HIDE DEF T
      <4> QED
        BY <3>1, <3>2, Upwards
    <3> QED
      BY <3>3
  <2>4. \A n \in 1..N : n \in Ends(id) <=> n - 1 \in Ends(parent)
    <3> SUFFICES ASSUME NEW n \in 1..N PROVE n \in Ends(id) <=> n - 1 \in Ends(parent)
      OBVIOUS
    <3>1. n - 1 \in 0..N /\ n \in 0..N /\ (n - 1) + 1 = n /\ n <= N
      OBVIOUS
    <3>2. W(id)[n] = W(parent)[n - 1]
      <4> HIDE DEF W
      <4> QED
        BY <2>3, <3>1
    <3> HIDE DEF W, Parent
    <3> QED
      BY <3>1, <3>2
  <2>5. length - 1 \in Ends(parent)
    <3> HIDE DEF Ends
    <3> QED
      BY <1>5, <2>2, <2>4
  <2> DEFINE e == C!LeastOf(Ends(parent))
  <2>6. e \in Ends(parent) /\ e <= length - 1 /\ C!ParentChainLength(topics, parent) = e
    <3> HIDE DEF Ends
    <3> QED
      BY <1>1, <1>3, <2>5
  <2> HIDE DEF e
  <2>7. e \in 0..N
    BY <2>6
  <2>8. e + 1 \in Ends(id)
    <3>1. e + 1 \in 1..N /\ (e + 1) - 1 = e
      BY <2>2, <2>6, <2>7
    <3> HIDE DEF Ends
    <3> QED
      BY <2>4, <2>6, <3>1
  <2>9. e = length - 1
    <3>1. length <= e + 1
      <4> HIDE DEF Ends
      <4> QED
        BY <1>5, <2>8
    <3> QED
      BY <2>2, <2>6, <2>7, <3>1
  <2>10. parent \in C!Ids(topics)
    <3>1. SUFFICES ASSUME parent \notin C!Ids(topics) PROVE FALSE
      OBVIOUS
    <3> DEFINE T == {n \in 0..N : W(parent)[n] = parent}
    <3> HIDE DEF W, parent
    <3>2. 0 \in T
      BY <1>2
    <3>3. \A n \in 1..N : n - 1 \in T => n \in T
      BY <1>2, <3>1 DEF Up
    <3>4. \A n \in 0..N : n \in T
      <4> HIDE DEF T
      <4> QED
        BY <3>2, <3>3, Upwards
    <3>5. W(parent)[length - 1] = parent
      BY <2>2, <3>4
    <3> QED
      BY <2>5, <3>1, <3>5
  <2> QED
    BY <1>6, <1>8, <2>2, <2>6, <2>9, <2>10 DEF length
<1> QED
  BY <1>7, <1>8
-----------------------------------------------------------------------------
(* The tree that a reader draws, entry by entry.                           *)
Grown == [parents : Seq(Nat), path : Seq(Nat)]

LEMMA Planted ==
  ASSUME NEW planted \in Grown, NEW level \in Nat
  PROVE  LET new  == C!Plant(planted, level)
             this == Len(planted.parents) + 1
         IN  /\ new \in Grown
             /\ Len(new.parents) = this
             /\ \A i \in 1..Len(planted.parents) : new.parents[i] = planted.parents[i]
             /\ level <= Len(planted.path) =>
                  /\ Len(new.path) = level + 1 /\ new.path[level + 1] = this
                  /\ \A k \in 1..level : new.path[k] = planted.path[k]
                  /\ new.parents[this] = IF level = 0 THEN 0 ELSE planted.path[level]
<1> DEFINE slot == C!LeastOf({level, Len(planted.path)})
           this == Len(planted.parents) + 1
           new  == C!Plant(planted, level)
<1>1. /\ planted.parents \in Seq(Nat) /\ planted.path \in Seq(Nat)
      /\ Len(planted.path) \in Nat /\ this \in Nat
  BY DEF Grown
<1>2. slot \in {level, Len(planted.path)} /\ slot <= level /\ slot <= Len(planted.path)
  <2> DEFINE Q == {level, Len(planted.path)}
  <2>1. Q \subseteq Nat /\ Q # {}
    BY <1>1
  <2>2. C!LeastOf(Q) \in Q /\ \A m \in Q : C!LeastOf(Q) <= m
    <3> HIDE DEF Q
    <3> QED
      BY <2>1, LeastFound
  <2> QED
    BY <2>2
<1> HIDE DEF slot
<1>3. slot \in Nat
  BY <1>1, <1>2
<1>4. CASE slot = 0
  <2>1. new = [parents |-> Append(planted.parents, 0), path |-> <<this>>]
    BY <1>4 DEF C!Plant, slot
  <2>2. /\ Append(planted.parents, 0) \in Seq(Nat)
        /\ Len(Append(planted.parents, 0)) = this
        /\ Append(planted.parents, 0)[this] = 0
        /\ \A i \in 1..Len(planted.parents) : Append(planted.parents, 0)[i] = planted.parents[i]
    BY <1>1, AppendProperties
  <2>3. <<this>> \in Seq(Nat) /\ Len(<<this>>) = 1 /\ <<this>>[1] = this
    BY <1>1
  <2>4. level <= Len(planted.path) => level = 0
    BY <1>1, <1>2, <1>4
  <2> HIDE DEF new, this
  <2> QED
    BY <2>1, <2>2, <2>3, <2>4 DEF Grown, new, this
<1>5. CASE slot # 0
  <2> DEFINE upper == planted.path[slot]
             front == SubSeq(planted.path, 1, slot)
  <2>1. new = [parents |-> Append(planted.parents, upper), path |-> Append(front, this)]
    BY <1>5 DEF C!Plant, slot
  <2>2. slot \in 1..Len(planted.path) /\ upper \in Nat
    BY <1>1, <1>2, <1>3, <1>5
  <2>3. front \in Seq(Nat) /\ Len(front) = slot /\ \A k \in 1..slot : front[k] = planted.path[k]
    <3>1. \A k \in 1..slot : planted.path[k] \in Nat
      BY <1>1, <2>2
    <3>2. 1 \in Int /\ slot \in Int /\ 1 <= slot /\ slot - 1 + 1 = slot
      BY <2>2
    <3>3. /\ SubSeq(planted.path, 1, slot) \in Seq(Nat)
          /\ Len(SubSeq(planted.path, 1, slot)) = slot
          /\ \A k \in 1..slot : SubSeq(planted.path, 1, slot)[k] = planted.path[1 + k - 1]
      BY <3>1, <3>2, SubSeqProperties
    <3>4. \A k \in 1..slot : 1 + k - 1 = k
      OBVIOUS
    <3> QED
      BY <3>3, <3>4
  <2> HIDE DEF front, upper
  <2>4. /\ Append(planted.parents, upper) \in Seq(Nat)
        /\ Len(Append(planted.parents, upper)) = this
        /\ Append(planted.parents, upper)[this] = upper
        /\ \A i \in 1..Len(planted.parents) : Append(planted.parents, upper)[i] = planted.parents[i]
    BY <1>1, <2>2, AppendProperties
  <2>5. /\ Append(front, this) \in Seq(Nat)
        /\ Len(Append(front, this)) = slot + 1
        /\ Append(front, this)[slot + 1] = this
        /\ \A k \in 1..slot : Append(front, this)[k] = front[k]
    BY <1>1, <2>3, AppendProperties
  <2>6. level <= Len(planted.path) => level = slot
    BY <1>1, <1>2, <1>3
  <2>7. new.parents = Append(planted.parents, upper) /\ new.path = Append(front, this)
    BY <2>1
  <2>8. new \in Grown
    BY <2>1, <2>4, <2>5 DEF Grown
  <2> HIDE DEF new, this
  <2>9. level <= Len(planted.path) => \A k \in 1..level : new.path[k] = planted.path[k]
    BY <2>3, <2>5, <2>6, <2>7
  <2>10. level <= Len(planted.path) => new.parents[this] = IF level = 0 THEN 0 ELSE planted.path[level]
    BY <1>5, <2>4, <2>6, <2>7 DEF upper
  <2> QED
    BY <2>4, <2>5, <2>6, <2>7, <2>8, <2>9, <2>10 DEF new, this
<1> QED
  BY <1>4, <1>5

LEMMA GrownStepwise ==
  ASSUME NEW entries, Len(entries) \in Nat, \A n \in 1..Len(entries) : entries[n].level \in Nat
  PROVE  \E grown : /\ grown[0] = [parents |-> <<>>, path |-> <<>>]
                    /\ \A n \in 1..Len(entries) : grown[n] = C!Plant(grown[n - 1], entries[n].level)
                    /\ C!Tree(entries) = grown[Len(entries)].parents
<1> DEFINE N == Len(entries)
           Sapling == [parents |-> <<>>, path |-> <<>>]
           Added(n, planted) == C!Plant(planted, entries[n].level)
           step == [n \in 1..N |-> [planted \in Grown |-> Added(n, planted)]]
           Turn(f, n) == IF n = 0 THEN Sapling ELSE Added(n, f[n - 1])
           grown == CHOOSE f : f = [n \in 0..N |-> Turn(f, n)]
<1>1. Sapling \in Grown
  BY DEF Grown
<1>2. step \in Steps(N, Grown)
  <2>1. \A n \in 1..N, planted \in Grown : Added(n, planted) \in Grown
    BY Planted
  <2> HIDE DEF Added
  <2> QED
    BY <2>1 DEF Steps
<1>3. \E f : f = [n \in 0..N |-> Turn(f, n)]
  <2>1. PICK f : Runs(f, N, Grown, Sapling, step)
    <3> HIDE DEF N, Sapling, step
    <3>1. N \in Nat
      BY DEF N
    <3> QED
      BY <1>1, <1>2, <3>1, Recursion
  <2>2. \A n \in 1..N : f[n] = Added(n, f[n - 1])
    <3> HIDE DEF Added
    <3>1. \A n \in 1..N : f[n - 1] \in Grown
      BY <2>1 DEF Runs
    <3> QED
      BY <2>1, <3>1 DEF Runs
  <2>3. f = [n \in 0..N |-> Turn(f, n)]
    <3> HIDE DEF Added, Sapling, step
    <3>1. \A n \in 0..N : n = 0 \/ (n \in 1..N /\ n # 0)
      OBVIOUS
    <3>2. \A n \in 0..N : f[n] = Turn(f, n)
      BY <2>1, <2>2, <3>1 DEF Runs
    <3> QED
      BY <2>1, <3>2 DEF Runs
  <2> QED
    BY <2>3
<1>4. grown = [n \in 0..N |-> Turn(grown, n)]
  <2> HIDE DEF Turn
  <2> QED
    BY <1>3
<1>5. C!Tree(entries) = grown[N].parents
  BY DEF C!Tree
<1>6. grown[0] = Sapling /\ \A n \in 1..N : grown[n] = Added(n, grown[n - 1])
  <2> HIDE DEF grown, Sapling, Added
  <2>1. 0 \in 0..N /\ \A n \in 1..N : n \in 0..N /\ n # 0
    OBVIOUS
  <2> QED
    BY <1>4, <2>1
<1> HIDE DEF grown
<1> QED
  BY <1>5, <1>6

LEMMA WayStays ==
  ASSUME NEW topics, Len(topics) \in Nat, NEW A, NEW id \in A,
         \A name \in A : Up(topics, name) \in A
  PROVE  \A n \in 0..Len(topics) : C!Way(topics, id)[n] \in A
<1> DEFINE way == C!Way(topics, id)
           T == {n \in 0..Len(topics) : way[n] \in A}
<1>1. way[0] = id /\ \A n \in 1..Len(topics) : way[n] = Up(topics, way[n - 1])
  BY WayStepwise
<1> HIDE DEF way
<1>2. 0 \in T
  BY <1>1
<1>3. \A n \in 1..Len(topics) : n - 1 \in T => n \in T
  BY <1>1
<1>4. \A n \in 0..Len(topics) : n \in T
  <2> HIDE DEF T
  <2> QED
    BY <1>2, <1>3, Upwards
<1> QED
  BY <1>4 DEF way

(* When every entry has for its level the length of its chain, and comes   *)
(* below the entry before it, the path of the tree is its chain.           *)
LEMMA DrawnByChains ==
  ASSUME NEW U, NEW topics \in Seq(U), NEW entries, Len(entries) \in Nat,
         "top" \notin C!Ids(topics),
         \A i \in 1..Len(entries) :
           /\ entries[i].id \in C!Ids(topics)
           /\ entries[i].level = C!ParentChainLength(topics, entries[i].id) /\ entries[i].level # Unset
           /\ LET parent == C!TopicNamed(topics, entries[i].id).parent
              IN  parent = "top" \/ (i > 1 /\ \E n \in 0..Len(topics) :
                                                parent = C!Way(topics, entries[i - 1].id)[n])
  PROVE  \A i \in 1..Len(entries) :
           LET parent == C!TopicNamed(topics, entries[i].id).parent
               drawn  == C!Tree(entries)[i]
           IN  IF drawn = 0 THEN parent = "top" ELSE entries[drawn].id = parent
<1> DEFINE Count == Len(entries)
           Id(i) == entries[i].id
           Parent(name) == C!TopicNamed(topics, name).parent
           Length(name) == C!ParentChainLength(topics, name)
           Under(i, drawn) == IF drawn = 0 THEN Parent(Id(i)) = "top" ELSE Id(drawn) = Parent(Id(i))
           Chain(path, n) == /\ Len(path) = Length(Id(n)) + 1 /\ path[Len(path)] = n
                             /\ \A k \in 1..Len(path) : path[k] \in 1..n /\ Length(Id(path[k])) = k - 1
                             /\ \A k \in 1..Len(path) : k > 1 => Parent(Id(path[k])) = Id(path[k - 1])
<1>0. Len(topics) \in Nat
  OBVIOUS
<1>1. ASSUME NEW i \in 1..Count
      PROVE  /\ Id(i) \in C!Ids(topics) /\ entries[i].level = Length(Id(i)) /\ Length(Id(i)) \in Nat
             /\ Parent(Id(i)) = "top" => Length(Id(i)) = 0
             /\ Parent(Id(i)) # "top" => /\ Length(Id(i)) > 0 /\ Parent(Id(i)) \in C!Ids(topics)
                                         /\ Length(Parent(Id(i))) = Length(Id(i)) - 1
             /\ Parent(Id(i)) # "top" =>
                  i > 1 /\ \E n \in 0..Len(topics) : Parent(Id(i)) = C!Way(topics, Id(i - 1))[n]
  BY <1>0, ChainStepwise
<1>2. PICK grown : /\ grown[0] = [parents |-> <<>>, path |-> <<>>]
                   /\ \A n \in 1..Count : grown[n] = C!Plant(grown[n - 1], entries[n].level)
                   /\ C!Tree(entries) = grown[Count].parents
  <2>1. \A n \in 1..Count : entries[n].level \in Nat
    BY <1>1
  <2> QED
    BY <2>1, GrownStepwise
<1> DEFINE Right(n) == /\ grown[n] \in Grown /\ Len(grown[n].parents) = n
                       /\ \A i \in 1..n : Under(i, grown[n].parents[i])
                       /\ n > 0 => Chain(grown[n].path, n)
           T == {n \in 0..Count : Right(n)}
<1>3. 0 \in T
  <2>1. grown[0] \in Grown /\ Len(grown[0].parents) = 0
    BY <1>2 DEF Grown
  <2>2. Right(0)
    <3> HIDE DEF Under, Chain
    <3> QED
      BY <2>1
  <2> HIDE DEF Right
  <2> QED
    BY <2>2
<1>4. ASSUME NEW n \in 1..Count, n - 1 \in T PROVE n \in T
  <2> DEFINE old == grown[n - 1]
             new == grown[n]
             level == Length(Id(n))
  <2>1. Right(n - 1)
    <3> HIDE DEF Right
    <3> QED
      BY <1>4
  <2>2. old \in Grown /\ level \in Nat /\ new = C!Plant(old, level) /\ Len(old.parents) + 1 = n
    <3>1. new = C!Plant(old, entries[n].level)
      BY <1>2
    <3>2. entries[n].level = level /\ level \in Nat
      BY <1>1
    <3>3. old \in Grown /\ Len(old.parents) = n - 1
      BY <2>1
    <3> QED
      BY <3>1, <3>2, <3>3
  (* The chain of the entry before has the parent at the level upper.      *)
  <2>3. level <= Len(old.path) /\ (level # 0 => Id(old.path[level]) = Parent(Id(n)))
    <3>1. CASE Parent(Id(n)) = "top"
      <4>1. level = 0
        BY <1>1, <3>1
      <4>2. Len(old.path) \in Nat
        BY <2>2 DEF Grown
      <4> QED
        BY <4>1, <4>2
    <3>2. CASE Parent(Id(n)) # "top"
      <4> DEFINE path == old.path
                 A == {Id(path[k]) : k \in 1..Len(path)} \cup {"top"}
      <4>1. /\ n > 1 /\ level > 0 /\ Length(Parent(Id(n))) = level - 1
            /\ \E m \in 0..Len(topics) : Parent(Id(n)) = C!Way(topics, Id(n - 1))[m]
        BY <1>1, <3>2
      <4>2. Chain(path, n - 1) /\ Len(path) \in Nat
        <5>1. n - 1 > 0
          BY <4>1
        <5>2. Chain(path, n - 1)
          <6> HIDE DEF Chain, Under
          <6> QED
            BY <2>1, <5>1
        <5>3. Len(path) \in Nat
          BY <2>2 DEF Grown
        <5> QED
          BY <5>2, <5>3
      <4>3. Id(n - 1) \in A
        <5>1. Len(path) \in 1..Len(path)
          <6>1. n - 1 \in 1..Count
            BY <4>1
          <6>2. Length(Id(n - 1)) \in Nat
            BY <1>1, <6>1
          <6>3. Len(path) = Length(Id(n - 1)) + 1
            BY <4>2
          <6> HIDE DEF Length, Id, path
          <6> QED
            BY <6>2, <6>3
        <5> QED
          BY <4>2, <5>1
      <4>4. \A name \in A : Up(topics, name) \in A
        <5>1. Up(topics, "top") = "top"
          BY DEF Up
        <5>2. ASSUME NEW k \in 1..Len(path) PROVE Up(topics, Id(path[k])) \in A
          <6>1. path[k] \in 1..Count /\ Length(Id(path[k])) = k - 1
            BY <4>2
          <6>2. Up(topics, Id(path[k])) = Parent(Id(path[k]))
            BY <1>1, <6>1 DEF Up
          <6>3. CASE k = 1
            <7>1. Parent(Id(path[k])) = "top"
              BY <1>1, <6>1, <6>3
            <7> QED
              BY <6>2, <7>1
          <6>4. CASE k # 1
            <7>1. k - 1 \in 1..Len(path) /\ Parent(Id(path[k])) = Id(path[k - 1])
              BY <4>2, <6>4
            <7> QED
              BY <6>2, <7>1
          <6> QED
            BY <6>3, <6>4
        <5> QED
          BY <5>1, <5>2
      <4>5. Parent(Id(n)) \in A
        <5> HIDE DEF A
        <5>1. \A m \in 0..Len(topics) : C!Way(topics, Id(n - 1))[m] \in A
          BY <1>0, <4>3, <4>4, WayStays
        <5> QED
          BY <4>1, <5>1
      <4>6. PICK k \in 1..Len(path) : Parent(Id(n)) = Id(path[k])
        BY <3>2, <4>5
      <4>7. k = level
        <5>1. Length(Id(path[k])) = k - 1
          BY <4>2
        <5> QED
          BY <2>2, <4>1, <4>6, <5>1
      <4> QED
        BY <4>2, <4>6, <4>7
    <3> QED
      BY <3>1, <3>2
  <2> HIDE DEF old, new, level
  <2>4. /\ new \in Grown /\ Len(new.parents) = n
        /\ \A i \in 1..n - 1 : new.parents[i] = old.parents[i]
        /\ Len(new.path) = level + 1 /\ new.path[level + 1] = n
        /\ \A k \in 1..level : new.path[k] = old.path[k]
        /\ new.parents[n] = IF level = 0 THEN 0 ELSE old.path[level]
    <3>1. Len(old.parents) = n - 1 /\ Len(old.parents) + 1 = n
      BY <2>1 DEF old
    <3>2. /\ new \in Grown
          /\ Len(new.parents) = Len(old.parents) + 1
          /\ \A i \in 1..Len(old.parents) : new.parents[i] = old.parents[i]
          /\ level <= Len(old.path) =>
               /\ Len(new.path) = level + 1 /\ new.path[level + 1] = Len(old.parents) + 1
               /\ \A k \in 1..level : new.path[k] = old.path[k]
               /\ new.parents[Len(old.parents) + 1] = IF level = 0 THEN 0 ELSE old.path[level]
      BY <2>2, Planted, ZenonT(60)
    <3>3. level <= Len(old.path)
      BY <2>3
    <3> QED
      BY <3>1, <3>2, <3>3
  <2>5. \A i \in 1..n : Under(i, new.parents[i])
    <3>1. ASSUME NEW i \in 1..n - 1 PROVE Under(i, new.parents[i])
      <4>1. Under(i, old.parents[i])
        BY <2>1 DEF old
      <4> HIDE DEF Under
      <4> QED
        BY <2>4, <4>1
    <3>2. Under(n, new.parents[n])
      <4>1. CASE level = 0
        <5>1. Parent(Id(n)) = "top"
          BY <1>1, <4>1 DEF level
        <5> QED
          BY <2>4, <4>1, <5>1
      <4>2. CASE level # 0
        <5>1. old.path[level] # 0
          <6>1. level \in 1..Len(old.path)
            BY <2>2, <2>3, <4>2 DEF Grown
          <6>2. n - 1 > 0
            BY <1>1, <4>2 DEF level
          <6>3. Chain(old.path, n - 1)
            BY <2>1, <6>2 DEF old
          <6> QED
            BY <6>1, <6>3
        <5> QED
          BY <2>3, <2>4, <4>2, <5>1
      <4> QED
        BY <4>1, <4>2
    <3>3. \A i \in 1..n : i \in 1..n - 1 \/ i = n
      OBVIOUS
    <3> HIDE DEF Under
    <3> QED
      BY <3>1, <3>2, <3>3
  <2>6. Chain(new.path, n)
    <3>1. level \in Nat /\ level = Length(Id(n))
      BY <2>2 DEF level
    <3>2. CASE level = 0
      <4>1. Len(new.path) = 1 /\ new.path[1] = n /\ Length(Id(n)) = 0
        BY <2>4, <3>1, <3>2
      <4>2. \A k \in 1..1 : k = 1
        OBVIOUS
      <4> HIDE DEF Length, Id, Parent
      <4> QED
        BY <4>1, <4>2
    <3>3. CASE level # 0
      <4>1. n - 1 > 0
        BY <1>1, <3>3 DEF level
      <4>2. Chain(old.path, n - 1)
        BY <2>1, <4>1 DEF old
      <4>3. \A k \in 1..level : k \in 1..Len(old.path)
        BY <2>2, <2>3, <3>1 DEF Grown
      <4>4. \A k \in 1..level : new.path[k] \in 1..n /\ Length(Id(new.path[k])) = k - 1
        <5>1. SUFFICES ASSUME NEW k \in 1..level
                       PROVE  new.path[k] \in 1..n /\ Length(Id(new.path[k])) = k - 1
          OBVIOUS
        <5>2. new.path[k] = old.path[k] /\ k \in 1..Len(old.path)
          BY <2>4, <4>3
        <5>3. old.path[k] \in 1..(n - 1) /\ Length(Id(old.path[k])) = k - 1
          <6> HIDE DEF Length, Id, Parent
          <6> QED
            BY <4>2, <5>2
        <5>4. \A i \in 1..(n - 1) : i \in 1..n
          OBVIOUS
        <5> HIDE DEF Length, Id
        <5> QED
          BY <5>2, <5>3, <5>4
      <4>5. \A k \in 1..level : k > 1 => Parent(Id(new.path[k])) = Id(new.path[k - 1])
        <5>1. \A k \in 1..level : k > 1 => k - 1 \in 1..level
          BY <3>1
        <5> QED
          BY <2>4, <4>2, <4>3, <5>1
      <4>6. \A k \in 1..level + 1 : k \in 1..level \/ k = level + 1
        BY <3>1
      <4>7. new.path[level] = old.path[level] /\ Id(old.path[level]) = Parent(Id(n))
        <5>1. level \in 1..level
          BY <3>1, <3>3
        <5> HIDE DEF Id, Parent
        <5> QED
          BY <2>3, <2>4, <3>3, <5>1
      <4>8. \A k \in 1..level + 1 : new.path[k] \in 1..n /\ Length(Id(new.path[k])) = k - 1
        <5>1. new.path[level + 1] = n /\ Length(Id(n)) = (level + 1) - 1
          BY <2>4, <3>1
        <5> HIDE DEF Length, Id
        <5> QED
          BY <4>4, <4>6, <5>1
      <4>9. \A k \in 1..level + 1 : k > 1 => Parent(Id(new.path[k])) = Id(new.path[k - 1])
        <5>1. (level + 1) - 1 = level
          BY <3>1
        <5> HIDE DEF Parent, Id
        <5> QED
          BY <2>4, <4>5, <4>6, <4>7, <5>1
      <4> QED
        BY <2>4, <3>1, <4>8, <4>9
    <3> QED
      BY <3>2, <3>3
  <2>7. Right(n)
    <3> HIDE DEF Under, Chain
    <3> QED
      BY <2>4, <2>5, <2>6 DEF new
  <2> HIDE DEF Right
  <2> QED
    BY <2>7
<1>5. Count \in 0..Count /\ \A n \in 0..Count : n \in T
  <2> HIDE DEF T
  <2> QED
    BY <1>3, <1>4, Upwards
<1>6. Right(Count)
  <2> HIDE DEF Right
  <2> QED
    BY <1>5
<1> QED
  BY <1>2, <1>6

(* The lines that are not passed over, and the entries made of them.       *)
LEMMA EntriesOfLines ==
  ASSUME NEW v \in Volumes
  PROVE  LET topics == C!Topics(v.records)
             entries    == C!TableOfContents(v, topics)
         IN  /\ Len(entries) \in Nat /\ DOMAIN entries = 1..Len(entries)
             /\ \A i \in 1..Len(entries) :
                  /\ entries[i].level # Unset
                  /\ v.grammar = "style_only" => entries[i].level = C!ParentChainLength(topics, entries[i].id)
<1> DEFINE topics == C!Topics(v.records)
           entries    == C!TableOfContents(v, topics)
           lines  == C!Styled(C!Lines(v.records, topics))
           LevelOf(i) == C!Level(v.grammar, topics, lines[i])
<1>1. Len(lines) \in Nat /\ DOMAIN lines = 1..Len(lines)
  <2>1. PICK U : C!Lines(v.records, topics) \in Seq(U)
    BY ContentsLines
  <2>2. lines \in Seq(U)
    <3> HIDE DEF topics
    <3> QED
      BY <2>1, StyledLines
  <2> HIDE DEF lines
  <2> QED
    BY <2>2, LenProperties
<1> HIDE DEF topics, lines
<1>2. CASE \E i \in DOMAIN lines : LevelOf(i) = Unset
  <2>1. entries = <<>>
    BY <1>2 DEF C!TableOfContents, lines
  <2> HIDE DEF entries
  <2>2. Len(entries) = 0 /\ DOMAIN entries = 1..0
    BY <2>1
  <2>3. \A i \in 1..Len(entries) : FALSE
    BY <2>2
  <2>4. Len(entries) \in Nat /\ DOMAIN entries = 1..Len(entries)
    BY <2>2
  <2> QED
    BY <2>3, <2>4 DEF entries, topics
<1>3. CASE ~ \E i \in DOMAIN lines : LevelOf(i) = Unset
  <2>1. entries = [i \in DOMAIN lines |-> C!Entry(topics, lines[i].id, LevelOf(i), lines[i].style)]
    BY <1>3 DEF C!TableOfContents, lines
  <2>2. \A i \in DOMAIN lines : entries[i].id = lines[i].id /\ entries[i].level = LevelOf(i)
    BY <2>1 DEF C!Entry
  <2>3. Len(entries) = Len(lines) /\ DOMAIN entries = DOMAIN lines
    <3> HIDE DEF LevelOf
    <3>1. entries \in Seq({C!Entry(topics, lines[i].id, LevelOf(i), lines[i].style) : i \in DOMAIN lines})
      BY <1>1, <2>1
    <3>2. DOMAIN entries = 1..Len(lines)
      BY <1>1, <2>1
    <3> HIDE DEF entries
    <3> QED
      BY <1>1, <3>1, <3>2
  <2>4. \A i \in DOMAIN lines : v.grammar = "style_only" => LevelOf(i) = C!ParentChainLength(topics, lines[i].id)
    BY DEF C!Level
  <2> HIDE DEF LevelOf, entries
  <2> QED
    BY <1>1, <1>3, <2>2, <2>3, <2>4 DEF entries, topics
<1> QED
  BY <1>2, <1>3

LEMMA OpenedFollowsParents ==
  ASSUME volume \in Volumes
  PROVE  contents = C!Opened(volume) => C!TreeFollowsParents
<1>0. HAVE contents = C!Opened(volume)
<1> DEFINE topics == C!Topics(volume.records)
           entries    == C!TableOfContents(volume, topics)
<1>1. /\ contents.topics = topics /\ contents.spelled = (entries # <<>>)
      /\ contents.toc = IF entries = <<>> THEN C!ByHeadings(topics) ELSE entries
  BY <1>0 DEF C!Opened
<1> DEFINE Opening == {C!TopicOf(volume.records, r) : r \in C!Headers(volume.records)}
<1>2. topics \in Seq(Opening) /\ Distinct(topics)
  BY TopicsAreDistinct, VolumesAssumption
<1>3. "top" \notin C!Ids(topics)
  <2>1. \A t \in Opening : t.id # "top"
    BY VolumesAssumption DEF C!TopicOf, C!Headers
  <2>2. \A i \in DOMAIN topics : topics[i] \in Opening
    <3> HIDE DEF topics, Opening
    <3> QED
      BY <1>2
  <2> HIDE DEF topics, Opening
  <2> QED
    BY <2>1, <2>2 DEF C!Ids
<1>4. /\ Len(entries) \in Nat /\ DOMAIN entries = 1..Len(entries)
      /\ \A i \in 1..Len(entries) :
           /\ entries[i].level # Unset
           /\ volume.grammar = "style_only" => entries[i].level = C!ParentChainLength(topics, entries[i].id)
  BY EntriesOfLines
<1> HIDE DEF topics, entries, Opening
<1>5. CASE entries # <<>>
  <2>1. contents.spelled /\ contents.toc = entries
    BY <1>1, <1>5
  <2>2. ASSUME C!InOrder(C!IdsOf(entries)), C!NestingsTrue(entries) PROVE C!DrawnUnderParents
    <3> DEFINE ids == C!IdsOf(entries)
    <3>1. /\ DOMAIN ids = 1..Len(entries)
          /\ \A i \in 1..Len(entries) : ids[i] = entries[i].id
      BY <1>4 DEF C!IdsOf
    <3> HIDE DEF ids
    <3>2. \A i \in 1..Len(entries) :
            LET parent == C!TopicNamed(topics, ids[i]).parent
            IN  /\ ids[i] \in C!Ids(topics)
                /\ parent = "top" \/ (i > 1 /\ parent \in C!Above(ids[i - 1]))
      BY <1>1, <2>2, <3>1 DEF C!InOrder, ids
    <3>3. \A i \in 1..Len(entries) : entries[i].level = C!ParentChainLength(topics, entries[i].id)
      BY <1>1, <1>4, <2>2 DEF C!NestingsTrue
    <3>4. \A i \in 1..Len(entries) :
            LET parent == C!TopicNamed(topics, entries[i].id).parent
            IN  parent = "top" \/ (i > 1 /\ \E n \in 0..Len(topics) :
                                               parent = C!Way(topics, entries[i - 1].id)[n])
      <4>1. \A id : C!Above(id) = {C!Way(topics, id)[n] : n \in 0..Len(topics)}
        BY <1>1 DEF C!Above
      <4>2. \A i \in 1..Len(entries) : i > 1 => i - 1 \in 1..Len(entries)
        BY <1>4
      <4> QED
        BY <3>1, <3>2, <4>1, <4>2, ZenonT(60)
    <3>5. \A i \in 1..Len(entries) :
            LET parent == C!TopicNamed(topics, entries[i].id).parent
                drawn  == C!Tree(entries)[i]
            IN  IF drawn = 0 THEN parent = "top" ELSE entries[drawn].id = parent
      <4>1. \A i \in 1..Len(entries) : entries[i].id \in C!Ids(topics) /\ entries[i].level # Unset
        BY <1>4, <3>1, <3>2
      <4>2. Len(entries) \in Nat
        BY <1>4
      <4>3. \A i \in 1..Len(entries) :
              /\ entries[i].id \in C!Ids(topics)
              /\ entries[i].level = C!ParentChainLength(topics, entries[i].id) /\ entries[i].level # Unset
              /\ LET parent == C!TopicNamed(topics, entries[i].id).parent
                 IN  parent = "top" \/ (i > 1 /\ \E n \in 0..Len(topics) :
                                                   parent = C!Way(topics, entries[i - 1].id)[n])
        BY <3>3, <3>4, <4>1
      <4> QED
        BY <1>2, <1>3, <4>2, <4>3, DrawnByChains
    <3> QED
      BY <1>1, <1>4, <2>1, <3>5 DEF C!DrawnUnderParents
  <2>3. \A i \in DOMAIN contents.toc : contents.toc[i].level # Unset
    BY <1>4, <2>1
  <2> QED
    BY <2>1, <2>2, <2>3 DEF C!TreeFollowsParents
<1>6. CASE entries = <<>>
  <2>1. ~contents.spelled /\ contents.toc = C!ByHeadings(topics)
    BY <1>1, <1>6
  <2>2. Len(topics) \in Nat /\ DOMAIN topics = 1..Len(topics)
    BY <1>2
  <2>3. C!IdsOf(contents.toc) = C!IdsOf(topics)
    <3>1. DOMAIN C!ByHeadings(topics) = DOMAIN topics
      BY DEF C!ByHeadings
    <3>2. \A i \in DOMAIN topics : C!ByHeadings(topics)[i].id = topics[i].id
      BY DEF C!ByHeadings, C!Entry
    <3> QED
      BY <2>1, <3>1, <3>2 DEF C!IdsOf
  <2>4. C!IsInjective(C!IdsOf(topics))
    BY <1>2, <2>2 DEF C!IsInjective, C!IdsOf, Distinct
  <2> QED
    BY <1>1, <2>1, <2>3, <2>4 DEF C!TreeFollowsParents
<1> QED
  BY <1>5, <1>6

(* What a book was opened to is what its file says.                        *)
ContentsInv == volume \in Volumes /\ (contents # Unset => contents = C!Opened(volume))

LEMMA ContentsStart == C!Init => ContentsInv
  BY DEF C!Init, ContentsInv

LEMMA ContentsStay ==
  ASSUME ContentsInv, [C!Open]_<<volume, contents>>
  PROVE  ContentsInv'
<1>1. CASE C!Open
  BY <1>1 DEF ContentsInv, C!Open
<1>2. CASE UNCHANGED <<volume, contents>>
  BY <1>2 DEF ContentsInv
<1> QED
  BY <1>1, <1>2

LEMMA ContentsFollowParents == ContentsInv => C!TreeFollowsParents
<1>1. CASE contents = Unset
  BY <1>1 DEF C!TreeFollowsParents
<1>2. CASE contents # Unset
  BY <1>2, OpenedFollowsParents DEF ContentsInv
<1> QED
  BY <1>1, <1>2
-----------------------------------------------------------------------------
(* LogicalRecords *)

(* Where token i of some tokens begins, if they end before a byte, and     *)
(* that they cover the bytes from one to the one before another.           *)
Edge(ts, i, to) == IF i > Len(ts) THEN to ELSE ts[i].begin
Tiles(ts, from, to) ==
  Edge(ts, 1, to) = from /\ \A i \in 1..Len(ts) : D!After(ts[i]) = Edge(ts, i + 1, to)

LEMMA TilesOne ==
  ASSUME NEW t \in D!Tokens
  PROVE  Tiles(<<t>>, t.begin, D!After(t))
  BY DEF Tiles, Edge

LEMMA TilesJoin ==
  ASSUME NEW s \in Seq(D!Tokens), NEW t \in Seq(D!Tokens), NEW a, NEW b, NEW c,
         Tiles(s, a, b), Tiles(t, b, c)
  PROVE  Tiles(s \o t, a, c)
<1> DEFINE st == s \o t
<1>1. /\ st \in Seq(D!Tokens) /\ Len(st) = Len(s) + Len(t)
      /\ \A i \in 1..Len(s) : st[i] = s[i]
      /\ \A i \in 1..Len(t) : st[Len(s) + i] = t[i]
      /\ Len(s) \in Nat /\ Len(t) \in Nat
  OBVIOUS
<1> HIDE DEF st
<1>2. \A i \in 1..Len(s) : Edge(st, i, c) = Edge(s, i, b)
  BY <1>1 DEF Edge
<1>3. \A i \in 1..Len(t) + 1 : Edge(st, Len(s) + i, c) = Edge(t, i, c)
  BY <1>1 DEF Edge
<1>4. Edge(s, Len(s) + 1, b) = b
  BY <1>1 DEF Edge
<1>5. Edge(st, Len(s) + 1, c) = b
  BY <1>1, <1>3 DEF Tiles
<1>6. Edge(st, 1, c) = a
  BY <1>1, <1>2, <1>4, <1>5 DEF Tiles
<1>7. ASSUME NEW i \in 1..Len(st) PROVE D!After(st[i]) = Edge(st, i + 1, c)
  <2>1. CASE i \in 1..Len(s)
    <3>1. D!After(st[i]) = Edge(s, i + 1, b)
      BY <1>1, <2>1 DEF Tiles
    <3>2. CASE i = Len(s)
      BY <1>4, <1>5, <3>1, <3>2
    <3>3. CASE i # Len(s)
      BY <1>1, <1>2, <2>1, <3>1, <3>3
    <3> QED
      BY <3>2, <3>3
  <2>2. CASE i \notin 1..Len(s)
    <3>1. PICK j \in 1..Len(t) : i = Len(s) + j
      <4>1. i - Len(s) \in 1..Len(t) /\ i = Len(s) + (i - Len(s))
        BY <1>1, <2>2
      <4> QED
        BY <4>1
    <3>2. st[i] = t[j] /\ D!After(t[j]) = Edge(t, j + 1, c)
      BY <1>1, <3>1 DEF Tiles
    <3>3. Edge(st, i + 1, c) = Edge(t, j + 1, c)
      <4>1. j + 1 \in 1..Len(t) + 1 /\ i + 1 = Len(s) + (j + 1)
        BY <1>1, <3>1
      <4> QED
        BY <1>3, <4>1
    <3> QED
      BY <3>2, <3>3
  <2> QED
    BY <2>1, <2>2
<1> QED
  BY <1>6, <1>7 DEF Tiles, st

(* Later tokens begin later.                                               *)
LEMMA TilesInOrder ==
  ASSUME NEW ts \in Seq(D!Tokens), NEW a \in Nat, NEW b \in Nat, Tiles(ts, a, b)
  PROVE  /\ \A i \in 1..Len(ts) + 1 : Edge(ts, i, b) \in a..b
         /\ \A i, j \in 1..Len(ts) + 1 : i < j => Edge(ts, i, b) < Edge(ts, j, b)
<1> DEFINE N == Len(ts)
           Held == {n \in 0..N : \A i \in 1..n : Edge(ts, i, b) < Edge(ts, n + 1, b)}
<1>1. N \in Nat /\ \A i \in 1..N : ts[i] \in D!Tokens
  OBVIOUS
<1>2. \A i \in 1..N + 1 : Edge(ts, i, b) \in Nat
  BY <1>1 DEF Edge, D!Tokens
<1>3. ASSUME NEW i \in 1..N PROVE Edge(ts, i, b) < Edge(ts, i + 1, b)
  <2>1. ts[i].begin \in Nat /\ ts[i].width \in {1, 2}
    BY <1>1 DEF D!Tokens
  <2>2. Edge(ts, i, b) = ts[i].begin /\ D!After(ts[i]) = Edge(ts, i + 1, b)
    BY <1>1 DEF Tiles, Edge
  <2> QED
    BY <2>1, <2>2 DEF D!After
<1>4. \A n \in 0..N : n \in Held
  <2>1. 0 \in Held
    BY <1>1
  <2>2. ASSUME NEW n \in 1..N, n - 1 \in Held PROVE n \in Held
    <3>1. \A i \in 1..n - 1 : Edge(ts, i, b) < Edge(ts, n, b)
      BY <1>1, <2>2
    <3>2. Edge(ts, n, b) < Edge(ts, n + 1, b) /\ n + 1 \in 1..N + 1
      BY <1>1, <1>3
    <3>3. ASSUME NEW i \in 1..n PROVE Edge(ts, i, b) < Edge(ts, n + 1, b)
      <4>1. i \in 1..N + 1 /\ n \in 1..N + 1 /\ (i # n => i \in 1..n - 1)
        BY <1>1
      <4>2. Edge(ts, i, b) \in Nat /\ Edge(ts, n, b) \in Nat /\ Edge(ts, n + 1, b) \in Nat
        BY <1>2, <3>2, <4>1
      <4>3. CASE i = n
        BY <3>2, <4>3
      <4>4. CASE i # n
        <5>1. Edge(ts, i, b) < Edge(ts, n, b)
          BY <3>1, <4>1, <4>4
        <5> QED
          BY <3>2, <4>2, <5>1
      <4> QED
        BY <4>3, <4>4
    <3> QED
      BY <1>1, <3>3
  <2> HIDE DEF Held, N
  <2> QED
    BY <1>1, <2>1, <2>2, Upwards
<1>5. ASSUME NEW i \in 1..N + 1, NEW j \in 1..N + 1, i < j PROVE Edge(ts, i, b) < Edge(ts, j, b)
  <2>1. j - 1 \in 0..N /\ i \in 1..j - 1 /\ (j - 1) + 1 = j
    BY <1>1, <1>5
  <2> QED
    BY <1>4, <2>1
<1>6. Edge(ts, 1, b) = a /\ Edge(ts, N + 1, b) = b
  BY <1>1 DEF Tiles, Edge
<1>7. ASSUME NEW i \in 1..N + 1 PROVE Edge(ts, i, b) \in a..b
  <2>1. 1 \in 1..N + 1 /\ N + 1 \in 1..N + 1 /\ (1 < i \/ i = 1) /\ (i < N + 1 \/ i = N + 1)
    BY <1>1
  <2>2. (1 < i => a < Edge(ts, i, b)) /\ (i < N + 1 => Edge(ts, i, b) < b)
    BY <1>5, <1>6, <2>1
  <2>3. Edge(ts, i, b) \in Nat
    BY <1>2
  <2> HIDE DEF N
  <2> QED
    BY <1>6, <2>1, <2>2, <2>3
<1> QED
  BY <1>5, <1>7

(* Token i is the length byte of a line that ends before token j.          *)
Closes(tokens, last, i) ==
  {j \in i + 1..Len(tokens) + 1 :
     Edge(tokens, j, last + 1) = D!After(tokens[i]) + tokens[i].value[1]}
Closing(tokens, last, i) == CHOOSE j \in Closes(tokens, last, i) : TRUE
DisplayTurn(tokens, last, d, i) ==
  IF i > Len(tokens) THEN <<>>
  ELSE IF tokens[i].width # 1 \/ Closes(tokens, last, i) = {} THEN Unset
  ELSE IF d[Closing(tokens, last, i)] = Unset THEN Unset
  ELSE <<[prefix |-> i, last |-> Closing(tokens, last, i) - 1]>> \o d[Closing(tokens, last, i)]

LEMMA DisplayStepwise ==
  ASSUME NEW tokens \in Seq(D!Tokens), NEW last \in Nat
  PROVE  \E d \in [1..Len(tokens) + 1 -> Seq(D!FramingLines) \cup {Unset}] :
           /\ D!DisplayLines(tokens, last) = d[1]
           /\ \A i \in 1..Len(tokens) + 1 : d[i] = DisplayTurn(tokens, last, d, i)
<1> DEFINE N == Len(tokens)
           Framings == Seq(D!FramingLines) \cup {Unset}
           Turn(d, i) == DisplayTurn(tokens, last, d, i)
           made == CHOOSE d : d = [i \in 1..N + 1 |-> Turn(d, i)]
           step == [i \in 1..N + 1 |-> [d \in [1..N + 1 -> Framings] |-> Turn(d, i)]]
<1>1. N \in Nat /\ 1 <= N + 1 /\ N + 1 \in Nat /\ 1 \in 1..N + 1
  OBVIOUS
<1>2. D!DisplayLines(tokens, last) = made[1]
  BY DEF D!DisplayLines, DisplayTurn, Closing, Closes, Edge, D!After
<1>3. ASSUME NEW i \in 1..N + 1, i <= N, Closes(tokens, last, i) # {}
      PROVE  Closing(tokens, last, i) \in i + 1..N + 1
  <2>1. Closing(tokens, last, i) \in Closes(tokens, last, i)
    BY <1>3 DEF Closing
  <2> QED
    BY <2>1 DEF Closes
<1>4. <<>> \in Framings
  OBVIOUS
<1>5. ASSUME NEW d \in [1..N + 1 -> Framings], NEW i \in 1..N + 1 PROVE Turn(d, i) \in Framings
  <2> DEFINE j == Closing(tokens, last, i)
  <2>1. CASE i <= N /\ Closes(tokens, last, i) # {} /\ d[j] # Unset
    <3>1. j \in i + 1..N + 1 /\ j \in 1..N + 1
      BY <1>1, <1>3, <2>1
    <3> HIDE DEF j, N
    <3>2. d[j] \in Seq(D!FramingLines)
      BY <2>1, <3>1
    <3>3. [prefix |-> i, last |-> j - 1] \in D!FramingLines
      BY <1>1, <3>1 DEF D!FramingLines
    <3>4. <<[prefix |-> i, last |-> j - 1]>> \o d[j] \in Seq(D!FramingLines)
      BY <3>2, <3>3
    <3> QED
      BY <1>4, <3>4 DEF DisplayTurn, j
  <2>2. CASE ~(i <= N /\ Closes(tokens, last, i) # {} /\ d[j] # Unset)
    BY <1>1, <1>4, <2>2 DEF DisplayTurn
  <2> QED
    BY <2>1, <2>2
<1>6. ASSUME NEW f \in [1..N + 1 -> Framings], NEW g \in [1..N + 1 -> Framings], NEW i \in 1..N + 1,
             \A y \in i + 1..N + 1 : f[y] = g[y]
      PROVE  Turn(f, i) = Turn(g, i)
  <2>1. CASE i <= N /\ Closes(tokens, last, i) # {}
    <3>1. f[Closing(tokens, last, i)] = g[Closing(tokens, last, i)]
      BY <1>3, <1>6, <2>1
    <3> HIDE DEF N
    <3> QED
      BY <3>1 DEF DisplayTurn
  <2>2. CASE ~(i <= N /\ Closes(tokens, last, i) # {})
    BY <1>1, <2>2 DEF DisplayTurn
  <2> QED
    BY <2>1, <2>2
<1>7. PICK d : RunsDown(d, 1, N + 1, Framings, step)
  <2> HIDE DEF Turn, N, Framings
  <2>1. step \in StepsDown(1, N + 1, Framings)
    BY <1>5, <1>6 DEF StepsDown
  <2> HIDE DEF step
  <2> QED
    BY <1>1, <1>4, <2>1, RecursionDown
<1>8. d = [i \in 1..N + 1 |-> Turn(d, i)]
  <2> HIDE DEF Turn, N, Framings
  <2> QED
    BY <1>7 DEF RunsDown
<1>9. made = [i \in 1..N + 1 |-> Turn(made, i)]
  <2> HIDE DEF Turn, N
  <2> QED
    BY <1>8
<1>10. \A i \in 1..N + 1 : made[i] = Turn(made, i)
  <2> HIDE DEF made, Turn, N
  <2> QED
    BY <1>9
<1>11. \A i \in 1..N + 1 : made[i] = d[i]
  <2> DEFINE Same == {i \in 1..N + 1 : made[i] = d[i]}
  <2>1. ASSUME NEW i \in 1..N + 1, \A y \in i + 1..N + 1 : y \in Same PROVE i \in Same
    <3>1. \A y \in i + 1..N + 1 : made[y] = d[y]
      BY <2>1
    <3>2. made[i] = Turn(made, i) /\ d[i] = Turn(d, i)
      BY <1>8, <1>10
    <3> HIDE DEF made
    <3>3. Turn(made, i) = Turn(d, i)
      <4>1. CASE i <= N /\ Closes(tokens, last, i) # {}
        <5>1. made[Closing(tokens, last, i)] = d[Closing(tokens, last, i)]
          BY <1>3, <3>1, <4>1
        <5> HIDE DEF N
        <5> QED
          BY <5>1 DEF DisplayTurn
      <4>2. CASE ~(i <= N /\ Closes(tokens, last, i) # {})
        BY <1>1, <4>2 DEF DisplayTurn
      <4> QED
        BY <4>1, <4>2
    <3> HIDE DEF Turn
    <3> QED
      BY <3>2, <3>3
  <2> HIDE DEF Same
  <2>2. \A i \in 1..N + 1 : i \in Same
    <3> HIDE DEF N
    <3> QED
      BY <1>1, <2>1, Downwards
  <2> QED
    BY <2>2 DEF Same
<1> QED
  <2> HIDE DEF made, Framings, N
  <2>1. D!DisplayLines(tokens, last) = d[1]
    BY <1>1, <1>2, <1>11
  <2>2. \A i \in 1..N + 1 : d[i] = DisplayTurn(tokens, last, d, i)
    <3> HIDE DEF step, Turn
    <3>1. \A i \in 1..N + 1 : d[i] = Turn(d, i)
      BY <1>8
    <3> QED
      BY <3>1 DEF Turn
  <2>3. d \in [1..N + 1 -> Framings]
    BY <1>7 DEF RunsDown
  <2> QED
    BY <2>1, <2>2, <2>3 DEF N, Framings

(* The tokens from token i on are made of whole lines.                     *)
Framed(tokens, last, i, lines) ==
  /\ lines \in Seq(D!FramingLines)
  /\ \A l \in 1..Len(lines) :
       /\ lines[l].prefix = (IF l = 1 THEN i ELSE lines[l - 1].last + 1)
       /\ lines[l].prefix \in 1..Len(tokens) /\ lines[l].last \in lines[l].prefix..Len(tokens)
       /\ tokens[lines[l].prefix].width = 1
       /\ Edge(tokens, lines[l].last + 1, last + 1) =
            Edge(tokens, lines[l].prefix, last + 1) + 1 + tokens[lines[l].prefix].value[1]
  /\ Len(tokens) = IF lines = <<>> THEN i - 1 ELSE lines[Len(lines)].last

LEMMA FramedOneMore ==
  ASSUME NEW tokens \in Seq(D!Tokens), NEW last \in Nat,
         NEW i \in 1..Len(tokens), NEW j \in Closes(tokens, last, i), tokens[i].width = 1,
         NEW lines, Framed(tokens, last, j, lines)
  PROVE  Framed(tokens, last, i, <<[prefix |-> i, last |-> j - 1]>> \o lines)
<1> DEFINE one == [prefix |-> i, last |-> j - 1]
           longer == <<one>> \o lines
<1>1. Len(tokens) \in Nat /\ j \in i + 1..Len(tokens) + 1 /\ i \in Nat /\ j - 1 \in i..Len(tokens)
  BY DEF Closes
<1>2. one \in D!FramingLines /\ one.prefix = i /\ one.last = j - 1
  BY <1>1 DEF D!FramingLines
<1> HIDE DEF one
<1>3. lines \in Seq(D!FramingLines)
  BY DEF Framed
<1>4. /\ longer \in Seq(D!FramingLines) /\ Len(longer) = Len(lines) + 1 /\ longer[1] = one
      /\ \A l \in 1..Len(lines) : longer[l + 1] = lines[l]
      /\ Len(lines) \in Nat /\ longer # <<>>
  BY <1>2, <1>3
<1> HIDE DEF longer
<1>5. Edge(tokens, j, last + 1) = Edge(tokens, i, last + 1) + 1 + tokens[i].value[1]
  BY <1>1 DEF Closes, Edge, D!After
<1>6. ASSUME NEW l \in 1..Len(longer)
      PROVE  /\ longer[l].prefix = (IF l = 1 THEN i ELSE longer[l - 1].last + 1)
             /\ longer[l].prefix \in 1..Len(tokens) /\ longer[l].last \in longer[l].prefix..Len(tokens)
             /\ tokens[longer[l].prefix].width = 1
             /\ Edge(tokens, longer[l].last + 1, last + 1) =
                  Edge(tokens, longer[l].prefix, last + 1) + 1 + tokens[longer[l].prefix].value[1]
  <2>1. CASE l = 1
    <3>1. (j - 1) + 1 = j
      BY <1>1
    <3> QED
      BY <1>1, <1>2, <1>4, <1>5, <2>1, <3>1
  <2>2. CASE l # 1
    <3>1. PICK k \in 1..Len(lines) : l = k + 1
      <4>1. l - 1 \in 1..Len(lines) /\ l = (l - 1) + 1
        BY <1>4, <2>2
      <4> QED
        BY <4>1
    <3>2. /\ longer[l] = lines[k]
          /\ lines[k].prefix = (IF k = 1 THEN j ELSE lines[k - 1].last + 1)
          /\ lines[k].prefix \in 1..Len(tokens) /\ lines[k].last \in lines[k].prefix..Len(tokens)
          /\ tokens[lines[k].prefix].width = 1
          /\ Edge(tokens, lines[k].last + 1, last + 1) =
               Edge(tokens, lines[k].prefix, last + 1) + 1 + tokens[lines[k].prefix].value[1]
      BY <1>4, <3>1 DEF Framed
    <3>3. longer[l].prefix = longer[l - 1].last + 1
      <4>1. l - 1 = k
        BY <3>1
      <4>2. CASE k = 1
        <5>1. longer[k] = one /\ (j - 1) + 1 = j
          BY <1>1, <1>4, <4>2
        <5> QED
          BY <1>2, <3>2, <4>1, <4>2, <5>1
      <4>3. CASE k # 1
        <5>1. k - 1 \in 1..Len(lines) /\ (k - 1) + 1 = k
          BY <1>4, <3>1, <4>3
        <5>2. longer[k] = lines[k - 1]
          BY <1>4, <5>1
        <5> QED
          BY <3>2, <4>1, <4>3, <5>2
      <4> QED
        BY <4>2, <4>3
    <3> QED
      BY <2>2, <3>2, <3>3
  <2> QED
    BY <2>1, <2>2
<1>7. Len(tokens) = longer[Len(longer)].last
  <2>1. CASE lines = <<>>
    <3>1. Len(longer) = 1 /\ Len(tokens) = j - 1
      BY <1>4, <2>1 DEF Framed
    <3> QED
      BY <1>2, <1>4, <3>1
  <2>2. CASE lines # <<>>
    <3>1. Len(lines) \in 1..Len(lines)
      BY <1>3, <1>4, <2>2
    <3>2. longer[Len(longer)] = lines[Len(lines)] /\ Len(tokens) = lines[Len(lines)].last
      BY <1>4, <2>2, <3>1 DEF Framed
    <3> QED
      BY <3>2
  <2> QED
    BY <2>1, <2>2
<1> QED
  <2>1. Framed(tokens, last, i, longer)
    BY <1>4, <1>6, <1>7 DEF Framed
  <2> QED
    BY <2>1 DEF longer, one

(* token_display_lines() makes lines of all tokens, or none.               *)
LEMMA DisplayIsFramed ==
  ASSUME NEW tokens \in Seq(D!Tokens), NEW last \in Nat
  PROVE  \/ D!DisplayLines(tokens, last) = Unset
         \/ Framed(tokens, last, 1, D!DisplayLines(tokens, last))
<1> DEFINE N == Len(tokens)
<1>1. PICK d \in [1..N + 1 -> Seq(D!FramingLines) \cup {Unset}] :
             /\ D!DisplayLines(tokens, last) = d[1]
             /\ \A i \in 1..N + 1 : d[i] = DisplayTurn(tokens, last, d, i)
  BY DisplayStepwise
<1> DEFINE Held == {i \in 1..N + 1 : d[i] = Unset \/ Framed(tokens, last, i, d[i])}
<1>2. N \in Nat /\ N + 1 \in Nat /\ 1 \in 1..N + 1
  OBVIOUS
<1>3. ASSUME NEW i \in 1..N + 1, \A y \in i + 1..N + 1 : y \in Held PROVE i \in Held
  <2>1. d[i] = DisplayTurn(tokens, last, d, i)
    BY <1>1
  <2>2. CASE i > N
    <3>1. d[i] = <<>> /\ i = N + 1
      BY <1>2, <2>1, <2>2 DEF DisplayTurn
    <3>2. Framed(tokens, last, i, <<>>)
      BY <1>2, <3>1 DEF Framed
    <3> QED
      BY <3>1, <3>2
  <2>3. CASE i <= N /\ d[i] # Unset
    <3> DEFINE j == Closing(tokens, last, i)
    <3>1. /\ tokens[i].width = 1 /\ Closes(tokens, last, i) # {} /\ d[j] # Unset
          /\ d[i] = <<[prefix |-> i, last |-> j - 1]>> \o d[j]
      BY <1>2, <2>1, <2>3 DEF DisplayTurn
    <3>2. j \in Closes(tokens, last, i)
      BY <3>1 DEF Closing
    <3> HIDE DEF j
    <3>3. j \in i + 1..N + 1
      BY <3>2 DEF Closes
    <3>4. Framed(tokens, last, j, d[j])
      BY <1>3, <3>1, <3>3
    <3>5. i \in 1..N
      BY <1>2, <2>3
    <3>6. Framed(tokens, last, i, d[i])
      BY <3>1, <3>2, <3>4, <3>5, FramedOneMore
    <3> QED
      BY <3>6
  <2> QED
    BY <1>2, <2>2, <2>3
<1>4. \A i \in 1..N + 1 : i \in Held
  <2> HIDE DEF Held, N
  <2> QED
    BY <1>2, <1>3, Downwards
<1> QED
  BY <1>1, <1>2, <1>4

LEMMA TokenIs ==
  ASSUME NEW bytes \in Seq(Nat), NEW last \in 1..Len(bytes), NEW at \in 1..last
  PROVE  /\ D!Token(bytes, at, last) \in D!Tokens
         /\ D!Token(bytes, at, last).begin = at
         /\ D!After(D!Token(bytes, at, last)) \in at + 1..last + 1
<1>1. at \in 1..Len(bytes) /\ (at < last => at + 1 \in 1..Len(bytes))
  OBVIOUS
<1>2. CASE bytes[at] >= Threshold /\ at < last
  <2>1. <<bytes[at], bytes[at + 1]>> \in Seq(Nat)
    BY <1>1, <1>2
  <2>2. D!Token(bytes, at, last) = [begin |-> at, width |-> 2, value |-> <<bytes[at], bytes[at + 1]>>]
    BY <1>2 DEF D!Token
  <2> QED
    BY <1>2, <2>1, <2>2 DEF D!Tokens, D!After
<1>3. CASE ~(bytes[at] >= Threshold /\ at < last)
  <2>1. <<bytes[at]>> \in Seq(Nat)
    BY <1>1
  <2>2. D!Token(bytes, at, last) = [begin |-> at, width |-> 1, value |-> <<bytes[at]>>]
    BY <1>3 DEF D!Token
  <2> QED
    BY <2>1, <2>2 DEF D!Tokens, D!After
<1> QED
  BY <1>2, <1>3

(* The tokens that a walk to the end of the payload reads.                 *)
TokensOf(bytes) == {t \in D!Tokens : t = D!Token(bytes, t.begin, Len(bytes))}

PlainTurn(bytes, w, at) ==
  IF at > Len(bytes) THEN <<>>
  ELSE <<D!Token(bytes, at, Len(bytes))>> \o w[D!After(D!Token(bytes, at, Len(bytes)))]

LEMMA PlainTiles ==
  ASSUME NEW bytes \in Seq(Nat)
  PROVE  /\ D!PlainWalk(bytes) \in Seq(TokensOf(bytes))
         /\ Tiles(D!PlainWalk(bytes), 1, Len(bytes) + 1)
<1> DEFINE N == Len(bytes)
           Walks == Seq(TokensOf(bytes))
           T(at) == D!Token(bytes, at, N)
           Turn(w, at) == PlainTurn(bytes, w, at)
           walk == CHOOSE w : w = [at \in 1..N + 1 |-> Turn(w, at)]
           step == [at \in 1..N + 1 |-> [w \in [1..N + 1 -> Walks] |-> Turn(w, at)]]
<1>1. N \in Nat /\ 1 <= N + 1 /\ N + 1 \in Nat /\ 1 \in 1..N + 1 /\ <<>> \in Walks
  OBVIOUS
<1>2. D!PlainWalk(bytes) = walk[1]
  BY DEF D!PlainWalk, PlainTurn
<1>3. ASSUME NEW at \in 1..N + 1, at <= N
      PROVE  T(at) \in TokensOf(bytes) /\ T(at).begin = at /\ D!After(T(at)) \in at + 1..N + 1
  <2>1. N \in 1..Len(bytes) /\ at \in 1..N
    BY <1>1, <1>3
  <2> HIDE DEF N
  <2>2. T(at) \in D!Tokens /\ T(at).begin = at /\ D!After(T(at)) \in at + 1..N + 1
    BY <2>1, TokenIs
  <2> QED
    BY <2>2 DEF TokensOf, N
<1>4. ASSUME NEW w \in [1..N + 1 -> Walks], NEW at \in 1..N + 1 PROVE Turn(w, at) \in Walks
  <2>1. CASE at <= N
    <3>1. T(at) \in TokensOf(bytes) /\ D!After(T(at)) \in 1..N + 1
      BY <1>1, <1>3, <2>1
    <3>2. w[D!After(T(at))] \in Walks
      BY <3>1
    <3> HIDE DEF T
    <3>3. <<T(at)>> \o w[D!After(T(at))] \in Walks
      BY <3>1, <3>2
    <3> QED
      BY <1>1, <2>1, <3>3 DEF PlainTurn, T
  <2>2. CASE at > N
    BY <2>2 DEF PlainTurn
  <2> QED
    BY <1>1, <2>1, <2>2
<1>5. ASSUME NEW f, NEW g, NEW at \in 1..N + 1, \A y \in at + 1..N + 1 : f[y] = g[y]
      PROVE  Turn(f, at) = Turn(g, at)
  <2>1. CASE at <= N
    <3>1. f[D!After(T(at))] = g[D!After(T(at))]
      BY <1>3, <1>5, <2>1
    <3> QED
      BY <1>1, <2>1, <3>1 DEF PlainTurn
  <2>2. CASE at > N
    BY <2>2 DEF PlainTurn
  <2> QED
    BY <1>1, <2>1, <2>2
<1>6. PICK w : RunsDown(w, 1, N + 1, Walks, step)
  <2> HIDE DEF Turn, N, Walks
  <2>1. step \in StepsDown(1, N + 1, Walks)
    BY <1>4, <1>5 DEF StepsDown
  <2> HIDE DEF step
  <2> QED
    BY <1>1, <2>1, RecursionDown
<1>7. w = [at \in 1..N + 1 |-> Turn(w, at)]
  <2> HIDE DEF Turn, N, Walks
  <2> QED
    BY <1>6 DEF RunsDown
<1>8. walk = [at \in 1..N + 1 |-> Turn(walk, at)]
  <2> HIDE DEF Turn, N
  <2> QED
    BY <1>7
<1>9. \A at \in 1..N + 1 : walk[at] = PlainTurn(bytes, walk, at)
  <2> HIDE DEF walk, Turn, N
  <2>1. \A at \in 1..N + 1 : walk[at] = Turn(walk, at)
    BY <1>8
  <2> QED
    BY <2>1 DEF Turn
<1> HIDE DEF walk
<1> DEFINE Held == {at \in 1..N + 1 : walk[at] \in Walks /\ Tiles(walk[at], at, N + 1)}
<1>10. ASSUME NEW at \in 1..N + 1, \A y \in at + 1..N + 1 : y \in Held PROVE at \in Held
  <2>1. CASE at > N
    <3>0. walk[at] = PlainTurn(bytes, walk, at)
      BY <1>9
    <3>1. walk[at] = <<>> /\ at = N + 1
      BY <1>1, <2>1, <3>0 DEF PlainTurn
    <3>2. Tiles(<<>>, N + 1, N + 1)
      BY DEF Tiles, Edge
    <3> QED
      BY <1>1, <3>1, <3>2
  <2>2. CASE at <= N
    <3>1. T(at) \in TokensOf(bytes) /\ T(at).begin = at /\ D!After(T(at)) \in at + 1..N + 1
      BY <1>3, <2>2
    <3>2. walk[D!After(T(at))] \in Walks /\ Tiles(walk[D!After(T(at))], D!After(T(at)), N + 1)
      BY <1>10, <3>1
    <3>0. walk[at] = PlainTurn(bytes, walk, at)
      BY <1>9
    <3>3. walk[at] = <<T(at)>> \o walk[D!After(T(at))]
      BY <1>1, <2>2, <3>0 DEF PlainTurn
    <3>4. T(at) \in D!Tokens /\ walk[D!After(T(at))] \in Seq(D!Tokens) /\ <<T(at)>> \in Seq(D!Tokens)
      BY <3>1, <3>2 DEF TokensOf
    <3> HIDE DEF T
    <3>5. Tiles(<<T(at)>>, at, D!After(T(at)))
      BY <3>1, <3>4, TilesOne
    <3>6. Tiles(walk[at], at, N + 1)
      BY <3>2, <3>3, <3>4, <3>5, TilesJoin
    <3>7. walk[at] \in Walks
      BY <3>1, <3>2, <3>3
    <3> QED
      BY <3>6, <3>7
  <2> QED
    BY <1>1, <2>1, <2>2
<1>11. \A at \in 1..N + 1 : at \in Held
  <2> HIDE DEF Held, N
  <2> QED
    BY <1>1, <1>10, Downwards
<1> QED
  BY <1>1, <1>2, <1>11

LineTurn(bytes, end, c, at) ==
  IF at > end + 1 THEN Unset
  ELSE IF at = end + 1 THEN <<>>
  ELSE IF c[D!After(D!Token(bytes, at, Len(bytes)))] = Unset THEN Unset
  ELSE <<D!Token(bytes, at, Len(bytes))>> \o c[D!After(D!Token(bytes, at, Len(bytes)))]

LEMMA LineStepwise ==
  ASSUME NEW bytes \in Seq(Nat), NEW end \in 0..Len(bytes), NEW first \in 1..end + 1
  PROVE  \E c \in [first..end + 2 -> Seq(TokensOf(bytes)) \cup {Unset}] :
           /\ D!LineTokens(bytes, first, end) = c[first]
           /\ \A at \in first..end + 2 : c[at] = LineTurn(bytes, end, c, at)
<1> DEFINE N == Len(bytes)
           Past == end + 2
           Walks == Seq(TokensOf(bytes)) \cup {Unset}
           T(at) == D!Token(bytes, at, N)
           Turn(c, at) == LineTurn(bytes, end, c, at)
           walk == CHOOSE c : c = [at \in first..Past |-> Turn(c, at)]
           step == [at \in first..Past |-> [c \in [first..Past -> Walks] |-> Turn(c, at)]]
<1>1. /\ N \in Nat /\ first <= Past /\ Past \in Nat /\ first \in Nat /\ first \in first..Past
      /\ end \in Nat /\ end <= N /\ <<>> \in Walks
  OBVIOUS
<1>2. D!LineTokens(bytes, first, end) = walk[first]
  BY DEF D!LineTokens, LineTurn
<1>3. ASSUME NEW at \in first..Past, at <= end
      PROVE  T(at) \in TokensOf(bytes) /\ D!After(T(at)) \in at + 1..Past
  <2>1. N \in 1..Len(bytes) /\ at \in 1..N
    BY <1>1, <1>3
  <2>2. T(at) \in D!Tokens /\ T(at).begin = at /\ D!After(T(at)) \in at + 1..N + 1
    <3> HIDE DEF N
    <3> QED
      BY <2>1, TokenIs
  <2>3. D!After(T(at)) <= at + 2
    <3>1. T(at).width \in {1, 2}
      BY <2>2 DEF D!Tokens
    <3> QED
      BY <1>1, <2>2, <3>1 DEF D!After
  <2> HIDE DEF T
  <2>4. D!After(T(at)) \in at + 1..Past
    BY <1>1, <1>3, <2>2, <2>3
  <2> QED
    BY <2>2, <2>4 DEF TokensOf, T
<1>4. ASSUME NEW c \in [first..Past -> Walks], NEW at \in first..Past PROVE Turn(c, at) \in Walks
  <2>1. CASE at <= end /\ c[D!After(T(at))] # Unset
    <3>1. T(at) \in TokensOf(bytes) /\ D!After(T(at)) \in first..Past
      BY <1>1, <1>3, <2>1
    <3>2. c[D!After(T(at))] \in Seq(TokensOf(bytes))
      BY <2>1, <3>1
    <3> HIDE DEF T
    <3>3. <<T(at)>> \o c[D!After(T(at))] \in Walks
      BY <3>1, <3>2
    <3> QED
      BY <1>1, <2>1, <3>3 DEF LineTurn, T
  <2>2. CASE ~(at <= end /\ c[D!After(T(at))] # Unset)
    BY <1>1, <2>2 DEF LineTurn
  <2> QED
    BY <2>1, <2>2
<1>5. ASSUME NEW f, NEW g, NEW at \in first..Past, \A y \in at + 1..Past : f[y] = g[y]
      PROVE  Turn(f, at) = Turn(g, at)
  <2>1. CASE at <= end
    <3>1. f[D!After(T(at))] = g[D!After(T(at))]
      BY <1>3, <1>5, <2>1
    <3> QED
      BY <1>1, <2>1, <3>1 DEF LineTurn
  <2>2. CASE at > end
    BY <1>1, <2>2 DEF LineTurn
  <2> QED
    BY <1>1, <2>1, <2>2
<1>6. PICK c : RunsDown(c, first, Past, Walks, step)
  <2> HIDE DEF Turn, N, Walks, Past
  <2>1. step \in StepsDown(first, Past, Walks)
    BY <1>4, <1>5 DEF StepsDown
  <2> HIDE DEF step
  <2> QED
    BY <1>1, <2>1, RecursionDown
<1>7. c = [at \in first..Past |-> Turn(c, at)]
  <2> HIDE DEF Turn, N, Walks, Past
  <2> QED
    BY <1>6 DEF RunsDown
<1>8. walk = [at \in first..Past |-> Turn(walk, at)]
  <2> HIDE DEF Turn, Past
  <2> QED
    BY <1>7
<1> HIDE DEF walk
<1> DEFINE Held == {at \in first..Past : walk[at] \in Walks}
<1>9. ASSUME NEW at \in first..Past, \A y \in at + 1..Past : y \in Held PROVE at \in Held
  <2> DEFINE g == [y \in first..Past |-> IF y \in at + 1..Past THEN walk[y] ELSE <<>>]
  <2>1. g \in [first..Past -> Walks]
    <3>1. \A y \in at + 1..Past : walk[y] \in Walks
      BY <1>9
    <3> HIDE DEF Walks, Past
    <3> QED
      BY <1>1, <3>1
  <2>2. Turn(g, at) \in Walks
    <3> HIDE DEF g, Turn, Walks, Past
    <3> QED
      BY <1>4, <2>1
  <2>3. \A y \in at + 1..Past : walk[y] = g[y]
    BY <1>1
  <2>4. Turn(walk, at) = Turn(g, at)
    <3> HIDE DEF g, Turn
    <3> QED
      BY <1>5, <2>3
  <2>5. walk[at] = Turn(walk, at)
    <3> HIDE DEF Turn, Past
    <3> QED
      BY <1>8
  <2> HIDE DEF Turn, Walks, g
  <2> QED
    BY <2>2, <2>4, <2>5
<1>10. \A at \in first..Past : at \in Held
  <2> HIDE DEF Held, Past
  <2> QED
    BY <1>1, <1>9, Downwards
<1>11. walk \in [first..Past -> Walks]
  <2> HIDE DEF Turn, Walks, Past
  <2> QED
    BY <1>8, <1>10
<1>12. \A at \in first..Past : walk[at] = LineTurn(bytes, end, walk, at)
  <2> HIDE DEF Past, Turn
  <2>1. \A at \in first..Past : walk[at] = Turn(walk, at)
    BY <1>8
  <2> QED
    BY <2>1 DEF Turn
<1> QED
  BY <1>2, <1>11, <1>12

(* A line's references cover its bytes.                                    *)
LEMMA LineTiles ==
  ASSUME NEW bytes \in Seq(Nat), NEW end \in 0..Len(bytes), NEW first \in 1..end + 1,
         D!LineTokens(bytes, first, end) # Unset
  PROVE  /\ D!LineTokens(bytes, first, end) \in Seq(TokensOf(bytes))
         /\ Tiles(D!LineTokens(bytes, first, end), first, end + 1)
<1> DEFINE N == Len(bytes)
           Past == end + 2
           T(at) == D!Token(bytes, at, N)
<1>1. N \in Nat /\ first \in Nat /\ end \in Nat /\ end <= N /\ Past \in Nat /\ first \in first..Past
  OBVIOUS
<1>2. PICK c \in [first..Past -> Seq(TokensOf(bytes)) \cup {Unset}] :
             /\ D!LineTokens(bytes, first, end) = c[first]
             /\ \A at \in first..Past : c[at] = LineTurn(bytes, end, c, at)
  BY LineStepwise
<1> DEFINE Held == {at \in first..Past : c[at] = Unset \/ Tiles(c[at], at, end + 1)}
<1>3. ASSUME NEW at \in first..Past, \A y \in at + 1..Past : y \in Held PROVE at \in Held
  <2>0. c[at] = LineTurn(bytes, end, c, at)
    BY <1>2
  <2>1. CASE at = end + 1
    <3>1. c[at] = <<>>
      BY <1>1, <2>0, <2>1 DEF LineTurn
    <3>2. Tiles(<<>>, end + 1, end + 1)
      BY DEF Tiles, Edge
    <3> QED
      BY <2>1, <3>1, <3>2
  <2>2. CASE at > end + 1
    BY <2>0, <2>2 DEF LineTurn
  <2>3. CASE at <= end /\ c[at] # Unset
    <3>1. N \in 1..Len(bytes) /\ at \in 1..N
      BY <1>1, <2>3
    <3>2. T(at) \in D!Tokens /\ T(at).begin = at /\ D!After(T(at)) \in at + 1..N + 1
      <4> HIDE DEF N
      <4> QED
        BY <3>1, TokenIs
    <3>3. D!After(T(at)) <= at + 2
      <4>1. T(at).width \in {1, 2}
        BY <3>2 DEF D!Tokens
      <4> QED
        BY <1>1, <3>2, <4>1 DEF D!After
    <3>4. c[D!After(T(at))] # Unset /\ c[at] = <<T(at)>> \o c[D!After(T(at))]
      <4>1. at # end + 1 /\ ~(at > end + 1)
        BY <1>1, <2>3
      <4> HIDE DEF Past
      <4> QED
        BY <2>0, <2>3, <4>1 DEF LineTurn
    <3> HIDE DEF T
    <3>5. D!After(T(at)) \in at + 1..Past /\ D!After(T(at)) \in first..Past
      BY <1>1, <2>3, <3>2, <3>3
    <3>6. Tiles(c[D!After(T(at))], D!After(T(at)), end + 1)
      BY <1>3, <3>4, <3>5
    <3>7. c[D!After(T(at))] \in Seq(D!Tokens) /\ <<T(at)>> \in Seq(D!Tokens)
      <4>1. c[D!After(T(at))] \in Seq(TokensOf(bytes)) /\ TokensOf(bytes) \subseteq D!Tokens
        <5> HIDE DEF Past
        <5> QED
          BY <3>4, <3>5 DEF TokensOf
      <4> QED
        BY <3>2, <4>1
    <3>8. Tiles(<<T(at)>>, at, D!After(T(at)))
      BY <3>2, TilesOne
    <3>9. Tiles(c[at], at, end + 1)
      BY <3>4, <3>6, <3>7, <3>8, TilesJoin
    <3> QED
      BY <3>9
  <2> QED
    BY <1>1, <2>1, <2>2, <2>3
<1>4. \A at \in first..Past : at \in Held
  <2> HIDE DEF Held, Past
  <2> QED
    BY <1>1, <1>3, Downwards
<1>5. first \in Held /\ c[first] \in Seq(TokensOf(bytes)) \cup {Unset}
  BY <1>1, <1>2, <1>4
<1> QED
  BY <1>2, <1>5

RelinedTurn(bytes, w, at) ==
  IF at > Len(bytes) THEN <<>>
  ELSE IF at + bytes[at] > Len(bytes) THEN Unset
  ELSE IF \/ D!LineTokens(bytes, at + 1, at + bytes[at]) = Unset
          \/ w[at + bytes[at] + 1] = Unset
    THEN Unset
  ELSE <<D!Token(bytes, at, at)>> \o D!LineTokens(bytes, at + 1, at + bytes[at])
         \o w[at + bytes[at] + 1]

LEMMA RelinedStepwise ==
  ASSUME NEW bytes \in Seq(Nat)
  PROVE  \E w \in [1..Len(bytes) + 1 -> Seq(D!Tokens) \cup {Unset}] :
           /\ D!RelinedWalk(bytes) = w[1]
           /\ \A at \in 1..Len(bytes) + 1 : w[at] = RelinedTurn(bytes, w, at)
<1> DEFINE N == Len(bytes)
           Walks == Seq(D!Tokens) \cup {Unset}
           Turn(w, at) == RelinedTurn(bytes, w, at)
           walk == CHOOSE w : w = [at \in 1..N + 1 |-> Turn(w, at)]
           step == [at \in 1..N + 1 |-> [w \in [1..N + 1 -> Walks] |-> Turn(w, at)]]
<1>1. /\ N \in Nat /\ 1 <= N + 1 /\ N + 1 \in Nat /\ 1 \in 1..N + 1 /\ <<>> \in Walks
      /\ \A at \in 1..N : bytes[at] \in Nat
  OBVIOUS
<1>2. D!RelinedWalk(bytes) = walk[1]
  BY DEF D!RelinedWalk, RelinedTurn
<1>3. ASSUME NEW at \in 1..N, at + bytes[at] <= N
      PROVE  /\ at + bytes[at] + 1 \in at + 1..N + 1 /\ D!Token(bytes, at, at) \in D!Tokens
             /\ D!LineTokens(bytes, at + 1, at + bytes[at]) \in Seq(D!Tokens) \cup {Unset}
  <2>1. at \in 1..Len(bytes) /\ at \in 1..at
    BY <1>1
  <2>2. D!Token(bytes, at, at) \in D!Tokens
    BY <2>1, TokenIs
  <2>3. at + bytes[at] \in 0..Len(bytes) /\ at + 1 \in 1..at + bytes[at] + 1
    BY <1>1, <1>3
  <2>4. TokensOf(bytes) \subseteq D!Tokens
    BY DEF TokensOf
  <2>5. D!LineTokens(bytes, at + 1, at + bytes[at]) \in Seq(TokensOf(bytes)) \cup {Unset}
    BY <2>3, LineTiles
  <2>6. at + bytes[at] + 1 \in at + 1..N + 1
    BY <1>1, <1>3
  <2> QED
    BY <2>2, <2>4, <2>5, <2>6
<1>4. ASSUME NEW w \in [1..N + 1 -> Walks], NEW at \in 1..N + 1 PROVE Turn(w, at) \in Walks
  <2> DEFINE content == D!LineTokens(bytes, at + 1, at + bytes[at])
             rest == w[at + bytes[at] + 1]
  <2>1. CASE at <= N /\ at + bytes[at] <= N /\ content # Unset /\ rest # Unset
    <3>1. at \in 1..N
      BY <1>1, <2>1
    <3>2. /\ at + bytes[at] + 1 \in 1..N + 1 /\ D!Token(bytes, at, at) \in D!Tokens
          /\ content \in Seq(D!Tokens)
      BY <1>1, <1>3, <2>1, <3>1
    <3>3. rest \in Seq(D!Tokens)
      <4> HIDE DEF N
      <4> QED
        BY <2>1, <3>2
    <3>4. <<D!Token(bytes, at, at)>> \o content \o rest \in Seq(D!Tokens)
      <4> HIDE DEF content, rest
      <4> QED
        BY <3>2, <3>3
    <3>5. Turn(w, at) = <<D!Token(bytes, at, at)>> \o content \o rest
      <4>1. ~(at > Len(bytes)) /\ ~(at + bytes[at] > Len(bytes))
        BY <1>1, <2>1, <3>1
      <4> HIDE DEF N
      <4> QED
        BY <2>1, <4>1, Zenon DEF RelinedTurn
    <3> HIDE DEF Turn
    <3> QED
      BY <3>4, <3>5
  <2>2. CASE ~(at <= N /\ at + bytes[at] <= N /\ content # Unset /\ rest # Unset)
    <3>1. CASE at > N
      BY <3>1 DEF RelinedTurn
    <3>2. CASE at <= N /\ at + bytes[at] > N
      BY <1>1, <3>2 DEF RelinedTurn
    <3>3. CASE at <= N /\ at + bytes[at] <= N
      <4>1. content = Unset \/ rest = Unset
        BY <2>2, <3>3
      <4>2. at \in 1..N /\ at + bytes[at] \in Nat
        BY <1>1, <3>3
      <4>3. ~(at > Len(bytes)) /\ ~(at + bytes[at] > Len(bytes))
        BY <1>1, <3>3, <4>2
      <4> QED
        BY <4>1, <4>3 DEF RelinedTurn
    <3>4. at \in 1..N => at + bytes[at] \in Nat
      BY <1>1
    <3> QED
      BY <1>1, <3>1, <3>2, <3>3, <3>4
  <2> QED
    BY <2>1, <2>2
<1>5. ASSUME NEW f, NEW g, NEW at \in 1..N + 1, \A y \in at + 1..N + 1 : f[y] = g[y]
      PROVE  Turn(f, at) = Turn(g, at)
  <2>1. CASE at <= N /\ at + bytes[at] <= N
    <3>1. at \in 1..N
      BY <1>1, <2>1
    <3>2. f[at + bytes[at] + 1] = g[at + bytes[at] + 1]
      BY <1>3, <1>5, <2>1, <3>1
    <3> HIDE DEF N
    <3> QED
      BY <3>2 DEF RelinedTurn
  <2>2. CASE ~(at <= N /\ at + bytes[at] <= N)
    <3>1. at > N \/ at + bytes[at] > N
      <4>1. at \in 1..N => at + bytes[at] \in Nat
        BY <1>1
      <4> QED
        BY <1>1, <2>2, <4>1
    <3> QED
      BY <3>1 DEF RelinedTurn
  <2> QED
    BY <2>1, <2>2
<1>6. PICK w : RunsDown(w, 1, N + 1, Walks, step)
  <2> HIDE DEF Turn, N, Walks
  <2>1. step \in StepsDown(1, N + 1, Walks)
    BY <1>4, <1>5 DEF StepsDown
  <2> HIDE DEF step
  <2> QED
    BY <1>1, <2>1, RecursionDown
<1>7. w = [at \in 1..N + 1 |-> Turn(w, at)]
  <2> HIDE DEF Turn, N, Walks
  <2> QED
    BY <1>6 DEF RunsDown
<1>8. walk = [at \in 1..N + 1 |-> Turn(walk, at)]
  <2> HIDE DEF Turn, N
  <2> QED
    BY <1>7
<1> HIDE DEF walk
<1> DEFINE Held == {at \in 1..N + 1 : walk[at] \in Walks}
<1>9. ASSUME NEW at \in 1..N + 1, \A y \in at + 1..N + 1 : y \in Held PROVE at \in Held
  <2> DEFINE g == [y \in 1..N + 1 |-> IF y \in at + 1..N + 1 THEN walk[y] ELSE <<>>]
  <2>1. g \in [1..N + 1 -> Walks]
    <3>1. \A y \in at + 1..N + 1 : walk[y] \in Walks
      BY <1>9
    <3> HIDE DEF Walks, N
    <3> QED
      BY <1>1, <3>1
  <2>2. Turn(g, at) \in Walks
    <3> HIDE DEF g, Turn, Walks, N
    <3> QED
      BY <1>4, <2>1
  <2>3. \A y \in at + 1..N + 1 : walk[y] = g[y]
    BY <1>1
  <2>4. Turn(walk, at) = Turn(g, at)
    <3> HIDE DEF g, Turn
    <3> QED
      BY <1>5, <2>3
  <2>5. walk[at] = Turn(walk, at)
    <3> HIDE DEF Turn, N
    <3> QED
      BY <1>8
  <2> HIDE DEF Turn, Walks, g
  <2> QED
    BY <2>2, <2>4, <2>5
<1>10. \A at \in 1..N + 1 : at \in Held
  <2> HIDE DEF Held, N
  <2> QED
    BY <1>1, <1>9, Downwards
<1>11. walk \in [1..N + 1 -> Walks]
  <2> HIDE DEF Turn, Walks, N
  <2> QED
    BY <1>8, <1>10
<1>12. \A at \in 1..N + 1 : walk[at] = RelinedTurn(bytes, walk, at)
  <2> HIDE DEF N, Turn
  <2>1. \A at \in 1..N + 1 : walk[at] = Turn(walk, at)
    BY <1>8
  <2> QED
    BY <2>1 DEF Turn
<1> QED
  BY <1>2, <1>11, <1>12

LEMMA RelinedTiles ==
  ASSUME NEW bytes \in Seq(Nat), D!RelinedWalk(bytes) # Unset
  PROVE  D!RelinedWalk(bytes) \in Seq(D!Tokens) /\ Tiles(D!RelinedWalk(bytes), 1, Len(bytes) + 1)
<1> DEFINE N == Len(bytes)
<1>1. /\ N \in Nat /\ N + 1 \in Nat /\ 1 \in 1..N + 1
      /\ \A at \in 1..N : bytes[at] \in Nat
  OBVIOUS
<1>2. PICK w \in [1..N + 1 -> Seq(D!Tokens) \cup {Unset}] :
             /\ D!RelinedWalk(bytes) = w[1]
             /\ \A at \in 1..N + 1 : w[at] = RelinedTurn(bytes, w, at)
  BY RelinedStepwise
<1> DEFINE Held == {at \in 1..N + 1 : w[at] = Unset \/ Tiles(w[at], at, N + 1)}
<1>3. ASSUME NEW at \in 1..N + 1, \A y \in at + 1..N + 1 : y \in Held PROVE at \in Held
  <2>1. w[at] = RelinedTurn(bytes, w, at)
    BY <1>2
  <2>2. CASE at > N
    <3>1. w[at] = <<>> /\ at = N + 1
      BY <1>1, <2>1, <2>2 DEF RelinedTurn
    <3>2. Tiles(<<>>, N + 1, N + 1)
      BY DEF Tiles, Edge
    <3> QED
      BY <3>1, <3>2
  <2>3. CASE at <= N /\ w[at] # Unset
    <3> DEFINE one  == D!LineTokens(bytes, at + 1, at + bytes[at])
               rest == w[at + bytes[at] + 1]
               head == D!Token(bytes, at, at)
    <3>1. at \in 1..N /\ at + bytes[at] \in Nat
      BY <1>1, <2>3
    <3>2. /\ at + bytes[at] <= N /\ one # Unset /\ rest # Unset
          /\ w[at] = <<head>> \o one \o rest
      <4>1. ~(at > Len(bytes)) /\ (at + bytes[at] > Len(bytes) \/ at + bytes[at] <= N)
        BY <1>1, <3>1
      <4> HIDE DEF N
      <4> QED
        BY <2>1, <2>3, <4>1, Zenon DEF RelinedTurn
    <3>3. /\ at + bytes[at] \in 0..Len(bytes) /\ at + 1 \in 1..at + bytes[at] + 1
          /\ at + bytes[at] + 1 \in at + 1..N + 1 /\ at + bytes[at] + 1 \in 1..N + 1
      BY <1>1, <3>1, <3>2
    <3>4. one \in Seq(TokensOf(bytes)) /\ Tiles(one, at + 1, at + bytes[at] + 1)
      <4> HIDE DEF N
      <4> QED
        BY <3>2, <3>3, LineTiles
    <3>5. rest \in Seq(D!Tokens) /\ Tiles(rest, at + bytes[at] + 1, N + 1)
      <4> HIDE DEF N
      <4> QED
        BY <1>3, <3>2, <3>3
    <3>6. head \in D!Tokens /\ head.begin = at /\ D!After(head) = at + 1
      <4>1. at \in 1..Len(bytes) /\ at \in 1..at
        BY <1>1, <3>1
      <4>2. head \in D!Tokens /\ head.begin = at /\ D!After(head) \in at + 1..at + 1
        BY <4>1, TokenIs
      <4> QED
        BY <4>1, <4>2
    <3>7. one \in Seq(D!Tokens) /\ <<head>> \in Seq(D!Tokens)
      <4>1. TokensOf(bytes) \subseteq D!Tokens
        BY DEF TokensOf
      <4> QED
        BY <3>4, <3>6, <4>1
    <3>8. Tiles(<<head>>, at, at + 1)
      BY <3>6, TilesOne
    <3> HIDE DEF one, rest, head
    <3>9. <<head>> \o one \in Seq(D!Tokens) /\ Tiles(<<head>> \o one, at, at + bytes[at] + 1)
      <4>1. <<head>> \o one \in Seq(D!Tokens)
        BY <3>7
      <4>2. Tiles(<<head>> \o one, at, at + bytes[at] + 1)
        BY <3>4, <3>7, <3>8, TilesJoin
      <4> QED
        BY <4>1, <4>2
    <3>10. Tiles((<<head>> \o one) \o rest, at, N + 1)
      BY <3>5, <3>9, TilesJoin
    <3> QED
      BY <3>2, <3>10
  <2> QED
    BY <1>1, <2>2, <2>3
<1>4. \A at \in 1..N + 1 : at \in Held
  <2> HIDE DEF Held, N
  <2> QED
    BY <1>1, <1>3, Downwards
<1>5. 1 \in Held /\ w[1] \in Seq(D!Tokens) \cup {Unset}
  BY <1>1, <1>2, <1>4
<1> QED
  BY <1>2, <1>5

(* No payload is refused: its tokens cover it, and its lines them.         *)
LEMMA DecodedIsVerified ==
  ASSUME NEW bytes \in Seq(Nat)
  PROVE  D!Verified(D!DecodePayload(bytes), bytes)
<1> DEFINE made   == D!DecodePayload(bytes)
           tokens == made.tokens
           lines  == made.lines
           N == Len(bytes)
<1>1. N \in Nat /\ N + 1 \in Nat
  OBVIOUS
<1>2. D!PlainWalk(bytes) \in Seq(D!Tokens) /\ Tiles(D!PlainWalk(bytes), 1, N + 1)
  <2>1. TokensOf(bytes) \subseteq D!Tokens
    BY DEF TokensOf
  <2> QED
    BY <2>1, PlainTiles
<1>3. tokens \in Seq(D!Tokens) /\ Tiles(tokens, 1, N + 1) /\ lines = D!DisplayLines(tokens, N)
  BY <1>2, RelinedTiles DEF D!DecodePayload
<1>4. lines = Unset \/ Framed(tokens, N, 1, lines)
  <2> HIDE DEF tokens, lines, N
  <2> QED
    BY <1>1, <1>3, DisplayIsFramed
<1> HIDE DEF made
<1>5. DOMAIN tokens = 1..Len(tokens) /\ Len(tokens) \in Nat
  BY <1>3
<1>6. \A i : Edge(tokens, i, N + 1) = IF i > Len(tokens) THEN Len(bytes) + 1 ELSE tokens[i].begin
  BY DEF Edge
<1>7. Edge(tokens, 1, N + 1) = 1 /\ \A i \in DOMAIN tokens : D!After(tokens[i]) = Edge(tokens, i + 1, N + 1)
  BY <1>3, <1>5 DEF Tiles
<1>8. ASSUME lines # Unset
      PROVE  /\ DOMAIN lines = 1..Len(lines)
             /\ \A l \in DOMAIN lines :
                  /\ lines[l].prefix = (IF l = 1 THEN 1 ELSE lines[l - 1].last + 1)
                  /\ lines[l].prefix <= lines[l].last /\ tokens[lines[l].prefix].width = 1
                  /\ Edge(tokens, lines[l].last + 1, N + 1) =
                       Edge(tokens, lines[l].prefix, N + 1) + 1 + tokens[lines[l].prefix].value[1]
             /\ Len(tokens) = IF lines = <<>> THEN 0 ELSE lines[Len(lines)].last
  <2>1. Framed(tokens, N, 1, lines)
    BY <1>4, <1>8
  <2>2. lines \in Seq(D!FramingLines) /\ DOMAIN lines = 1..Len(lines)
    BY <2>1 DEF Framed
  <2> HIDE DEF lines, tokens, N
  <2>3. \A l \in 1..Len(lines) : lines[l].prefix <= lines[l].last
    BY <2>1 DEF Framed
  <2>4. Len(tokens) = IF lines = <<>> THEN 0 ELSE lines[Len(lines)].last
    BY <2>1 DEF Framed
  <2> QED
    BY <2>1, <2>2, <2>3, <2>4 DEF Framed
<1> DEFINE Begin(i) == IF i > Len(tokens) THEN Len(bytes) + 1 ELSE tokens[i].begin
<1>9. Begin(1) = 1 /\ \A i \in DOMAIN tokens : D!After(tokens[i]) = Begin(i + 1)
  <2> HIDE DEF tokens
  <2> QED
    BY <1>6, <1>7
<1>10. lines # Unset =>
         \A l \in DOMAIN lines : Begin(lines[l].last + 1) =
                                  Begin(lines[l].prefix) + 1 + tokens[lines[l].prefix].value[1]
  <2> HIDE DEF tokens, lines
  <2> QED
    BY <1>6, <1>8
<1> HIDE DEF N
<1> QED
  BY <1>8, <1>9, <1>10, Zenon DEF D!Verified, made

(* Where the references of a line stand in a payload, and where its lines  *)
(* do, each after its length byte.                                         *)
RefsAt(bytes, refs, pos, from, to) ==
  /\ pos \in [0..Len(refs) -> Nat] /\ pos[0] = from /\ pos[Len(refs)] = to
  /\ \A k \in 1..Len(refs) :
       /\ pos[k] = pos[k - 1] + Len(refs[k]) /\ Len(refs[k]) \in {1, 2} /\ pos[k] <= to
       /\ D!Token(bytes, pos[k - 1], Len(bytes)) =
            [begin |-> pos[k - 1], width |-> Len(refs[k]), value |-> refs[k]]
Parted(bytes, ls, head) ==
  /\ head \in [1..Len(ls) + 1 -> Nat] /\ head[1] = 1 /\ head[Len(ls) + 1] = Len(bytes) + 1
  /\ \A l \in 1..Len(ls) :
       /\ bytes[head[l]] \in Nat /\ head[l + 1] = head[l] + bytes[head[l]] + 1
       /\ head[l + 1] <= Len(bytes) + 1
       /\ \E pos : RefsAt(bytes, ls[l], pos, head[l] + 1, head[l + 1])

(* A reference that stands in a payload is read there.                     *)
LEMMA ReferenceRead ==
  ASSUME NEW bytes \in Seq(Nat), NEW ref \in D!References, NEW at \in Nat \ {0},
         at + Len(ref) <= Len(bytes) + 1,
         \A x \in 1..Len(ref) : bytes[at + x - 1] = ref[x]
  PROVE  /\ Len(ref) \in {1, 2}
         /\ D!Token(bytes, at, Len(bytes)) = [begin |-> at, width |-> Len(ref), value |-> ref]
<1>1. ref \in Seq(Nat) /\ Len(ref) \in {1, 2} /\ Len(bytes) \in Nat
  BY DEF D!References
<1> DEFINE first == ref[1]
<1>0. /\ first \in Nat
      /\ Len(ref) = 1 => first < Threshold
      /\ Len(ref) = 2 => first >= Threshold
  <2>1. \/ Len(ref) = 1 /\ first < Threshold
        \/ Len(ref) = 2 /\ first >= Threshold
    BY DEF D!References
  <2>2. first \in Nat
    <3>1. \A size \in {1, 2} : 1 \in 1..size
      OBVIOUS
    <3> QED
      BY <1>1, <3>1, ElementOfSeq
  <2> DEFINE size == Len(ref)
  <2>3. \/ size = 1 /\ first < Threshold
        \/ size = 2 /\ first >= Threshold
    BY <2>1
  <2> HIDE DEF first, size
  <2>4. (size = 1 => first < Threshold) /\ (size = 2 => first >= Threshold)
    BY <2>3
  <2> QED
    BY <2>2, <2>4 DEF size
<1>2. CASE Len(ref) = 1
  <2>1. ref[1] < Threshold /\ ref[1] \in Nat
    BY <1>0, <1>2
  <2>2. bytes[at] = ref[1] /\ ref = <<ref[1]>>
    <3>1. 1 \in 1..Len(ref) /\ at + 1 - 1 = at
      BY <1>2
    <3> QED
      BY <1>1, <1>2, <3>1
  <2>3. ~(bytes[at] >= Threshold)
    BY <2>1, <2>2, LinesAssumption
  <2> QED
    BY <1>2, <2>2, <2>3 DEF D!Token
<1>3. CASE Len(ref) = 2
  <2>1. ref[1] >= Threshold /\ at < Len(bytes)
    <3>1. at + 2 <= Len(bytes) + 1
      BY <1>3
    <3>2. at < Len(bytes)
      BY <1>1, <3>1
    <3> QED
      BY <1>0, <1>3, <3>2
  <2>2. bytes[at] = ref[1] /\ bytes[at + 1] = ref[2] /\ ref = <<ref[1], ref[2]>>
    <3>1. 1 \in 1..Len(ref) /\ 2 \in 1..Len(ref) /\ at + 1 - 1 = at /\ at + 2 - 1 = at + 1
      BY <1>3
    <3> QED
      BY <1>1, <1>3, <3>1
  <2> QED
    BY <1>3, <2>1, <2>2 DEF D!Token
<1> QED
  BY <1>1, <1>2, <1>3

LEMMA EncodedIsParted ==
  ASSUME NEW ls \in Seq(Seq(D!References))
  PROVE  D!Encoded(ls) \in Seq(Nat) /\ \E head : Parted(D!Encoded(ls), ls, head)
<1> DEFINE n == Len(ls)
           bytes == D!Encoded(ls)
           made == [l \in DOMAIN ls |-> D!LineBytes(ls[l])]
<1>1. /\ n \in Nat /\ DOMAIN ls = 1..n
      /\ \A l \in 1..n : ls[l] \in Seq(D!References) /\ ls[l] \in Seq(Seq(Nat))
  <2>1. D!References \subseteq Seq(Nat)
    BY DEF D!References
  <2> QED
    BY <2>1
<1>2. ASSUME NEW l \in 1..n
      PROVE  /\ FlattenSeq(ls[l]) \in Seq(Nat) /\ Len(FlattenSeq(ls[l])) \in Nat
             /\ made[l] \in Seq(Nat) /\ Len(made[l]) = Len(FlattenSeq(ls[l])) + 1
             /\ made[l][1] = Len(FlattenSeq(ls[l]))
             /\ \A x \in 1..Len(FlattenSeq(ls[l])) : made[l][x + 1] = FlattenSeq(ls[l])[x]
  <2> DEFINE content == FlattenSeq(ls[l])
  <2>1. ls[l] \in Seq(Seq(Nat))
    BY <1>1
  <2>2. content \in Seq(Nat)
    BY <2>1, JoinedAt
  <2>3. made[l] = <<Len(content)>> \o content
    BY <1>1 DEF D!LineBytes, D!FlattenSeq, FlattenSeq
  <2> HIDE DEF content, made
  <2> QED
    BY <2>2, <2>3 DEF content
<1>3. made \in Seq(Seq(Nat)) /\ Len(made) = n
  <2>1. made \in [1..n -> Seq(Nat)]
    <3> HIDE DEF n
    <3>1. \A l \in DOMAIN ls : D!LineBytes(ls[l]) \in Seq(Nat)
      BY <1>1, <1>2
    <3> QED
      BY <1>1, <3>1
  <2> HIDE DEF made, n
  <2> QED
    BY <1>1, <2>1, LenProperties
<1>4. bytes = FlattenSeq(made)
  BY DEF D!Encoded, D!FlattenSeq, FlattenSeq
<1> HIDE DEF made, bytes
<1>5. bytes \in Seq(Nat)
  BY <1>3, <1>4, JoinedAt
<1>60. \E cut \in [0..Len(made) -> Nat] :
        /\ cut[0] = 0 /\ cut[Len(made)] = Len(FlattenSeq(made))
        /\ \A l \in 0..Len(made) : cut[l] <= Len(FlattenSeq(made))
        /\ \A l \in 1..Len(made) :
             /\ cut[l] = cut[l - 1] + Len(made[l])
             /\ \A x \in 1..Len(made[l]) : FlattenSeq(made)[cut[l - 1] + x] = made[l][x]
  BY <1>3, JoinedAt
<1>6. PICK cut \in [0..n -> Nat] :
        /\ cut[0] = 0 /\ cut[n] = Len(bytes)
        /\ \A l \in 0..n : cut[l] <= Len(bytes)
        /\ \A l \in 1..n : /\ cut[l] = cut[l - 1] + Len(made[l])
                           /\ \A x \in 1..Len(made[l]) : bytes[cut[l - 1] + x] = made[l][x]
  <2> HIDE DEF n
  <2> QED
    BY <1>3, <1>4, <1>60
<1> DEFINE head == [l \in 1..n + 1 |-> cut[l - 1] + 1]
<1> HIDE DEF n
<1>7. head \in [1..n + 1 -> Nat] /\ head[1] = 1 /\ head[n + 1] = Len(bytes) + 1
  <2>1. \A l \in 1..n + 1 : l - 1 \in 0..n
    BY <1>1
  <2>2. 1 \in 1..n + 1 /\ n + 1 \in 1..n + 1 /\ (n + 1) - 1 = n /\ 1 - 1 = 0
    BY <1>1
  <2>3. head[1] = cut[0] + 1 /\ head[n + 1] = cut[n] + 1
    BY <2>2
  <2>4. \A l \in 1..n + 1 : cut[l - 1] + 1 \in Nat
    BY <1>6, <2>1
  <2> HIDE DEF head
  <2>5. head \in [1..n + 1 -> Nat]
    BY <2>4 DEF head
  <2> QED
    BY <1>6, <2>3, <2>5
<1>8. ASSUME NEW l \in 1..n
      PROVE  /\ bytes[head[l]] \in Nat /\ head[l + 1] = head[l] + bytes[head[l]] + 1
             /\ head[l + 1] <= Len(bytes) + 1
             /\ \E pos : RefsAt(bytes, ls[l], pos, head[l] + 1, head[l + 1])
  <2> DEFINE refs == ls[l]
             content == FlattenSeq(refs)
             C1 == Len(content)
  <2>1. /\ l \in 1..n + 1 /\ l + 1 \in 1..n + 1 /\ (l + 1) - 1 = l /\ l - 1 \in 0..n /\ l \in 0..n
        /\ n \in Nat
    BY <1>1
  <2>2. /\ head[l] = cut[l - 1] + 1 /\ head[l + 1] = cut[l] + 1
        /\ cut[l - 1] \in Nat /\ cut[l] \in Nat /\ cut[l] <= Len(bytes)
        /\ cut[l] = cut[l - 1] + Len(made[l])
    <3>1. head[l] = cut[l - 1] + 1 /\ head[l + 1] = cut[(l + 1) - 1] + 1
      BY <2>1
    <3> HIDE DEF head
    <3> QED
      BY <1>6, <2>1, <3>1
  <2> HIDE DEF head
  <2>3. /\ refs \in Seq(D!References) /\ refs \in Seq(Seq(Nat)) /\ C1 \in Nat
        /\ Len(made[l]) = C1 + 1 /\ made[l][1] = C1
        /\ \A x \in 1..C1 : made[l][x + 1] = content[x]
    BY <1>1, <1>2
  <2>4. PICK c \in [0..Len(refs) -> Nat] :
          /\ c[0] = 0 /\ c[Len(refs)] = C1
          /\ \A k \in 0..Len(refs) : c[k] <= C1
          /\ \A k \in 1..Len(refs) :
               /\ c[k] = c[k - 1] + Len(refs[k])
               /\ \A x \in 1..Len(refs[k]) : content[c[k - 1] + x] = refs[k][x]
    BY <2>3, JoinedAt
  <2> DEFINE K == Len(refs)
  <2>5. K \in Nat /\ \A k \in 1..K : refs[k] \in D!References /\ Len(refs[k]) \in Nat
    <3>1. \A r \in D!References : Len(r) \in Nat
      BY DEF D!References
    <3> QED
      BY <2>3, <3>1
  <2>6. \A x \in 1..C1 : bytes[cut[l - 1] + (x + 1)] = content[x]
    <3>1. \A x \in 1..C1 : x + 1 \in 1..Len(made[l])
      BY <2>3
    <3> QED
      BY <1>6, <2>3, <3>1
  <2> HIDE DEF K, refs, content, C1
  <2>7. bytes[head[l]] = C1 /\ bytes[head[l]] \in Nat
    <3>1. 1 \in 1..Len(made[l])
      BY <2>3
    <3>2. bytes[cut[l - 1] + 1] = made[l][1]
      BY <1>6, <3>1
    <3> QED
      BY <2>2, <2>3, <3>2
  <2>8. head[l] \in Nat /\ head[l] > 0 /\ head[l + 1] = head[l] + C1 + 1 /\ head[l + 1] <= Len(bytes) + 1
    <3> DEFINE lm == Len(made[l])  lb == Len(bytes)  at == cut[l - 1]
    <3>1. lm = C1 + 1 /\ C1 \in Nat /\ at \in Nat
      BY <2>2, <2>3
    <3>2. head[l] = at + 1 /\ head[l + 1] = cut[l] + 1 /\ cut[l] = at + lm /\ cut[l] <= lb
      BY <2>2
    <3>3. lb \in Nat
      BY <1>5
    <3> HIDE DEF lm, lb, at
    <3>4. /\ head[l] \in Nat /\ head[l] > 0 /\ head[l + 1] = head[l] + C1 + 1
          /\ head[l + 1] <= lb + 1
      BY <3>1, <3>2, <3>3
    <3> QED
      BY <3>4 DEF lb
  <2>81. C1 \in Nat
    BY <2>3
  <2> DEFINE pos == [k \in 0..K |-> head[l] + 1 + c[k]]
  <2>9. /\ \A k \in 0..K : pos[k] = head[l] + 1 + c[k]
        /\ pos \in [0..K -> Nat]
    <3>0. \A k \in 0..K : c[k] \in Nat
      BY <2>4 DEF K
    <3>01. head[l] \in Nat
      BY <2>8
    <3>1. \A k \in 0..K : head[l] + 1 + c[k] \in Nat
      BY <3>0, <3>01
    <3> QED
      BY <3>1
  <2> HIDE DEF pos
  <2>10. pos[0] = head[l] + 1 /\ pos[K] = head[l + 1]
    <3>1. 0 \in 0..K /\ K \in 0..K
      BY <2>5
    <3>2. c[K] = C1
      BY <2>4 DEF K
    <3> QED
      BY <2>3, <2>4, <2>8, <2>9, <3>1, <3>2
  <2>11. ASSUME NEW k \in 1..K
         PROVE  /\ pos[k] = pos[k - 1] + Len(refs[k]) /\ Len(refs[k]) \in {1, 2} /\ pos[k] <= head[l + 1]
                /\ D!Token(bytes, pos[k - 1], Len(bytes)) =
                     [begin |-> pos[k - 1], width |-> Len(refs[k]), value |-> refs[k]]
    <3>1. k - 1 \in 0..K /\ k \in 0..K
      BY <2>5
    <3>2. /\ c[k] = c[k - 1] + Len(refs[k]) /\ c[k - 1] \in Nat /\ c[k] \in Nat /\ c[k] <= C1
          /\ \A x \in 1..Len(refs[k]) : content[c[k - 1] + x] = refs[k][x]
      BY <2>4, <3>1 DEF K
    <3>3. pos[k] = head[l] + 1 + c[k] /\ pos[k - 1] = head[l] + 1 + c[k - 1]
      BY <2>9, <3>1
    <3>4. Len(refs[k]) \in Nat /\ refs[k] \in D!References
      BY <2>5
    <3> DEFINE from == c[k - 1]  size == Len(refs[k])  at == pos[k - 1]  h == head[l]  lb == Len(bytes)
    <3>50. /\ c[k] = from + size /\ from \in Nat /\ size \in Nat /\ c[k] <= C1
           /\ pos[k] = h + 1 + c[k] /\ at = h + 1 + from
      BY <3>2, <3>3, <3>4
    <3>51. h \in Nat /\ head[l + 1] = h + C1 + 1 /\ head[l + 1] <= lb + 1 /\ lb \in Nat
      BY <1>5, <2>8
    <3>52. h = cut[l - 1] + 1 /\ cut[l - 1] \in Nat
      BY <2>2
    <3> HIDE DEF from, size, at, h, lb
    <3>53. pos[k] = at + size /\ pos[k] <= head[l + 1] /\ at \in Nat \ {0} /\ at + size <= lb + 1
      BY <2>81, <3>50, <3>51
    <3>54. \A x \in 1..size : from + x \in 1..C1 /\ at + x - 1 = cut[l - 1] + ((from + x) + 1)
      <4> DEFINE base == cut[l - 1]
      <4>1. h = base + 1 /\ base \in Nat
        BY <3>52
      <4>2. from + size <= C1 /\ at = h + 1 + from /\ from \in Nat /\ size \in Nat
        BY <3>50
      <4> HIDE DEF base
      <4>3. \A x \in 1..size : from + x \in 1..C1 /\ at + x - 1 = base + ((from + x) + 1)
        BY <2>81, <4>1, <4>2
      <4> QED
        BY <4>3 DEF base
    <3>6. ASSUME NEW x \in 1..Len(refs[k]) PROVE bytes[pos[k - 1] + x - 1] = refs[k][x]
      <4>1. from + x \in 1..C1 /\ at + x - 1 = cut[l - 1] + ((from + x) + 1)
        BY <3>54 DEF size
      <4>2. content[from + x] = refs[k][x]
        BY <3>2 DEF from
      <4>3. bytes[cut[l - 1] + ((from + x) + 1)] = content[from + x]
        BY <2>6, <4>1
      <4> QED
        BY <4>1, <4>2, <4>3 DEF at
    <3>5. pos[k] = pos[k - 1] + Len(refs[k]) /\ pos[k] <= head[l + 1] /\ pos[k - 1] \in Nat \ {0}
      BY <3>53 DEF at, size
    <3>7. pos[k - 1] + Len(refs[k]) <= Len(bytes) + 1
      BY <3>53 DEF at, size, lb
    <3> QED
      BY <1>5, <3>4, <3>5, <3>6, <3>7, ReferenceRead
  <2>12. RefsAt(bytes, refs, pos, head[l] + 1, head[l + 1])
    BY <2>9, <2>10, <2>11 DEF RefsAt, K
  <2> QED
    BY <2>3, <2>7, <2>8, <2>12 DEF refs
<1>9. Parted(bytes, ls, head)
  <2> HIDE DEF head
  <2> QED
    BY <1>7, <1>8 DEF Parted, n
<1> QED
  BY <1>5, <1>9 DEF bytes

(* Each line stands after the one before it.                               *)
LEMMA HeadsInOrder ==
  ASSUME NEW bytes \in Seq(Nat), NEW ls, Len(ls) \in Nat, NEW head, Parted(bytes, ls, head)
  PROVE  \A l, m \in 1..Len(ls) + 1 : l < m => head[l] < head[m]
<1> DEFINE n == Len(ls)
           Held == {m \in 0..n : \A l \in 1..m : head[l] < head[m + 1]}
<1>1. \A l \in 1..n + 1 : head[l] \in Nat
  BY DEF Parted
<1>2. ASSUME NEW l \in 1..n PROVE head[l] < head[l + 1]
  <2>1. bytes[head[l]] \in Nat /\ head[l + 1] = head[l] + bytes[head[l]] + 1
    BY DEF Parted
  <2>2. head[l] \in Nat
    BY <1>1
  <2> QED
    BY <2>1, <2>2
<1> HIDE DEF n
<1>3. 0 \in Held
  BY DEF n
<1>4. ASSUME NEW m \in 1..n, m - 1 \in Held PROVE m \in Held
  <2>1. n \in Nat /\ m \in 0..n
    BY DEF n
  <2>2. \A l \in 1..m - 1 : head[l] < head[m]
    BY <1>4, <2>1
  <2>3. ASSUME NEW l \in 1..m PROVE head[l] < head[m + 1]
    <3>1. l \in 1..n + 1 /\ m \in 1..n + 1 /\ m + 1 \in 1..n + 1
      BY <2>1
    <3>2. head[l] \in Nat /\ head[m] \in Nat /\ head[m + 1] \in Nat
      BY <1>1, <3>1
    <3>3. head[m] < head[m + 1]
      BY <1>2
    <3>4. CASE l = m
      BY <3>3, <3>4
    <3>5. CASE l # m
      <4>1. head[l] < head[m]
        BY <2>1, <2>2, <3>5
      <4> QED
        BY <3>2, <3>3, <4>1
    <3> QED
      BY <3>4, <3>5
  <2> QED
    BY <2>1, <2>3
<1>5. \A m \in 0..n : m \in Held
  <2> HIDE DEF Held
  <2> QED
    BY <1>3, <1>4, Upwards DEF n
<1>6. ASSUME NEW l \in 1..n + 1, NEW m \in 1..n + 1, l < m PROVE head[l] < head[m]
  <2>1. m - 1 \in 0..n /\ l \in 1..m - 1 /\ (m - 1) + 1 = m
    BY <1>6 DEF n
  <2> QED
    BY <1>5, <2>1
<1> QED
  BY <1>6 DEF n

Heads(ls, head) == {head[l] : l \in 1..Len(ls)}

(* No line begins within another.                                          *)
LEMMA NoHeadWithin ==
  ASSUME NEW bytes \in Seq(Nat), NEW ls, Len(ls) \in Nat, NEW head, Parted(bytes, ls, head),
         NEW l \in 1..Len(ls), NEW b \in Nat, head[l] < b, b < head[l + 1]
  PROVE  b \notin Heads(ls, head)
<1>1. SUFFICES ASSUME NEW m \in 1..Len(ls), b = head[m] PROVE FALSE
  BY DEF Heads
<1>2. \A i \in 1..Len(ls) + 1 : head[i] \in Nat
  BY DEF Parted
<1>3. l \in 1..Len(ls) + 1 /\ m \in 1..Len(ls) + 1 /\ l + 1 \in 1..Len(ls) + 1
  OBVIOUS
<1>4. head[l] \in Nat /\ head[m] \in Nat /\ head[l + 1] \in Nat
  BY <1>2, <1>3
<1>5. (m < l => head[m] < head[l]) /\ (l + 1 < m => head[l + 1] < head[m])
  BY <1>3, HeadsInOrder
<1>6. m < l \/ m = l \/ m = l + 1 \/ l + 1 < m
  OBVIOUS
<1>7. head[l] < head[m] /\ head[m] < head[l + 1]
  BY <1>1
<1>8. m # l /\ m # l + 1
  BY <1>4, <1>7
<1> QED
  BY <1>4, <1>5, <1>6, <1>7, <1>8

(* The references of a line fill it.                                       *)
LEMMA LineRead ==
  ASSUME NEW bytes \in Seq(Nat), NEW end \in 0..Len(bytes), NEW first \in 1..end + 1,
         NEW refs, Len(refs) \in Nat, NEW pos, RefsAt(bytes, refs, pos, first, end + 1)
  PROVE  D!LineTokens(bytes, first, end) # Unset
<1> DEFINE N == Len(bytes)
           K == Len(refs)
<1>1. PICK c \in [first..end + 2 -> Seq(TokensOf(bytes)) \cup {Unset}] :
        /\ D!LineTokens(bytes, first, end) = c[first]
        /\ \A at \in first..end + 2 : c[at] = LineTurn(bytes, end, c, at)
  BY LineStepwise
<1>2. Unset \notin Seq(TokensOf(bytes)) /\ <<>> \in Seq(TokensOf(bytes))
  <2>1. TokensOf(bytes) \subseteq D!Tokens
    BY DEF TokensOf
  <2>2. \A s \in Seq(TokensOf(bytes)) : s \in Seq(D!Tokens)
    BY <2>1
  <2> QED
    BY <2>2, LinesAssumption
<1>3. /\ K \in Nat /\ pos \in [0..K -> Nat] /\ pos[0] = first /\ pos[K] = end + 1
      /\ \A k \in 1..K : /\ pos[k] = pos[k - 1] + Len(refs[k]) /\ Len(refs[k]) \in {1, 2}
                         /\ pos[k] <= end + 1
                         /\ D!Token(bytes, pos[k - 1], N) =
                              [begin |-> pos[k - 1], width |-> Len(refs[k]), value |-> refs[k]]
  BY DEF RefsAt
<1> HIDE DEF K
<1>4. first \in Nat /\ end \in Nat /\ N \in Nat /\ end <= N
  OBVIOUS
<1>5. \A k \in 0..K : pos[k] \in first..end + 1
  <2> DEFINE Held == {k \in 0..K : pos[k] \in first..end + 1}
  <2>1. 0 \in Held
    BY <1>3
  <2>2. ASSUME NEW k \in 1..K, k - 1 \in Held PROVE k \in Held
    <3> DEFINE from == pos[k - 1]  size == Len(refs[k])
    <3>1. from \in first..end + 1 /\ k \in 0..K
      BY <1>3, <2>2
    <3>2. pos[k] = from + size /\ (size = 1 \/ size = 2) /\ pos[k] <= end + 1
      BY <1>3
    <3> HIDE DEF from, size
    <3>3. pos[k] \in first..end + 1
      BY <1>4, <3>1, <3>2
    <3> QED
      BY <3>1, <3>3
  <2> HIDE DEF Held
  <2>3. \A k \in 0..K : k \in Held
    BY <1>3, <2>1, <2>2, Upwards
  <2> QED
    BY <2>3 DEF Held
<1> DEFINE Held == {k \in 0..K : c[pos[k]] # Unset}
<1>6. ASSUME NEW k \in 0..K, \A y \in k + 1..K : y \in Held PROVE k \in Held
  <2>1. pos[k] \in first..end + 1 /\ pos[k] \in first..end + 2
    BY <1>4, <1>5
  <2>2. c[pos[k]] = LineTurn(bytes, end, c, pos[k])
    BY <1>1, <2>1
  <2>3. CASE pos[k] = end + 1
    <3>1. c[pos[k]] = <<>>
      BY <1>4, <2>2, <2>3 DEF LineTurn
    <3> QED
      BY <1>2, <3>1
  <2>4. CASE pos[k] # end + 1
    <3>1. pos[k] <= end /\ ~(pos[k] > end + 1)
      BY <1>4, <2>1, <2>4
    <3>2. k + 1 \in 1..K /\ (k + 1) - 1 = k /\ k + 1 \in k + 1..K
      BY <1>3, <2>4
    <3>3. pos[k + 1] = pos[k] + Len(refs[k + 1]) /\
          D!Token(bytes, pos[k], N) = [begin |-> pos[k], width |-> Len(refs[k + 1]), value |-> refs[k + 1]]
      BY <1>3, <3>2
    <3>4. D!After(D!Token(bytes, pos[k], N)) = pos[k + 1]
      BY <3>3 DEF D!After
    <3>5. c[pos[k + 1]] # Unset
      BY <1>6, <3>2
    <3>6. c[pos[k]] = <<D!Token(bytes, pos[k], N)>> \o c[pos[k + 1]]
      BY <2>2, <2>4, <3>1, <3>4, <3>5, Zenon DEF LineTurn
    <3>7. c[pos[k]] \in Seq(TokensOf(bytes))
      <4>1. k + 1 \in 0..K
        BY <1>3, <3>2
      <4>2. pos[k + 1] \in first..end + 2
        BY <1>4, <1>5, <4>1
      <4>3. c[pos[k + 1]] \in Seq(TokensOf(bytes))
        BY <1>1, <3>5, <4>2
      <4>4. D!Token(bytes, pos[k], N) \in TokensOf(bytes)
        <5>1. N \in 1..Len(bytes) /\ pos[k] \in 1..N
          BY <1>4, <2>1, <3>1
        <5> HIDE DEF N
        <5>2. D!Token(bytes, pos[k], N) \in D!Tokens /\ D!Token(bytes, pos[k], N).begin = pos[k]
          BY <5>1, TokenIs
        <5> QED
          BY <5>2 DEF TokensOf, N
      <4> HIDE DEF N
      <4> QED
        BY <3>6, <4>3, <4>4
    <3> QED
      BY <1>2, <3>7
  <2> QED
    BY <2>3, <2>4
<1>7. \A k \in 0..K : k \in Held
  <2> HIDE DEF Held
  <2> QED
    BY <1>3, <1>6, Downwards
<1>8. c[pos[0]] # Unset
  BY <1>3, <1>7
<1> QED
  BY <1>1, <1>3, <1>8

(* The tokens that either walk reads, of which only a length byte may be   *)
(* cut short; and those of the walk by lines.                              *)
Readings(bytes, heads) ==
  {t \in D!Tokens : /\ t.value[1] = bytes[t.begin]
                    /\ t.begin \notin heads => t \in TokensOf(bytes)}
LineReadings(bytes, heads) == {t \in Readings(bytes, heads) : t.begin \in heads => t.width = 1}

LEMMA ValueRead ==
  ASSUME NEW bytes, NEW at, NEW last
  PROVE  D!Token(bytes, at, last).value[1] = bytes[at]
<1>1. CASE bytes[at] >= Threshold /\ at < last
  <2>1. D!Token(bytes, at, last).value = <<bytes[at], bytes[at + 1]>>
    BY <1>1 DEF D!Token
  <2> QED
    BY <2>1
<1>2. CASE ~(bytes[at] >= Threshold /\ at < last)
  <2>1. D!Token(bytes, at, last).value = <<bytes[at]>>
    BY <1>2 DEF D!Token
  <2> QED
    BY <2>1
<1> QED
  BY <1>1, <1>2

LEMMA TokensAreReadings ==
  ASSUME NEW bytes, NEW heads
  PROVE  TokensOf(bytes) \subseteq Readings(bytes, heads)
<1>1. ASSUME NEW t \in TokensOf(bytes) PROVE t \in Readings(bytes, heads)
  <2>1. t \in D!Tokens /\ t = D!Token(bytes, t.begin, Len(bytes))
    BY DEF TokensOf
  <2>2. D!Token(bytes, t.begin, Len(bytes)).value[1] = bytes[t.begin]
    BY ValueRead
  <2>3. t.value[1] = bytes[t.begin]
    BY <2>1, <2>2
  <2> QED
    BY <2>1, <2>3 DEF Readings
<1> QED
  BY <1>1

(* The walk by lines goes through what was encoded and stops at each line. *)
LEMMA RelinedReads ==
  ASSUME NEW bytes \in Seq(Nat), NEW ls, Len(ls) \in Nat, NEW head, Parted(bytes, ls, head),
         \A l \in 1..Len(ls) : Len(ls[l]) \in Nat
  PROVE  /\ D!RelinedWalk(bytes) \in Seq(LineReadings(bytes, Heads(ls, head)))
         /\ \A l \in 1..Len(ls) :
              \E i \in 1..Len(D!RelinedWalk(bytes)) : D!RelinedWalk(bytes)[i].begin = head[l]
<1> DEFINE N == Len(bytes)
           n == Len(ls)
           heads == Heads(ls, head)
           Good == LineReadings(bytes, heads)
<1>1. PICK w \in [1..N + 1 -> Seq(D!Tokens) \cup {Unset}] :
             /\ D!RelinedWalk(bytes) = w[1]
             /\ \A at \in 1..N + 1 : w[at] = RelinedTurn(bytes, w, at)
  BY RelinedStepwise
<1>2. /\ n \in Nat /\ N \in Nat
      /\ head \in [1..n + 1 -> Nat] /\ head[1] = 1 /\ head[n + 1] = N + 1
      /\ \A l \in 1..n : /\ bytes[head[l]] \in Nat /\ head[l + 1] = head[l] + bytes[head[l]] + 1
                         /\ head[l + 1] <= N + 1
                         /\ \E pos : RefsAt(bytes, ls[l], pos, head[l] + 1, head[l + 1])
  BY DEF Parted
<1>3. Good \subseteq D!Tokens
  BY DEF LineReadings, Readings
<1>4. \A s \in Seq(Good) : s # Unset
  <2>1. \A s \in Seq(Good) : s \in Seq(D!Tokens)
    BY <1>3
  <2> QED
    BY <2>1, LinesAssumption
<1> HIDE DEF n
<1> DEFINE Stops(l) == \A m \in l..n : \E i \in 1..Len(w[head[l]]) : w[head[l]][i].begin = head[m]
           Held == {l \in 1..n + 1 : w[head[l]] \in Seq(Good) /\ Stops(l)}
<1>5. ASSUME NEW l \in 1..n + 1, \A y \in l + 1..n + 1 : y \in Held PROVE l \in Held
  <2>1. CASE l = n + 1
    <3>1. w[head[l]] = RelinedTurn(bytes, w, N + 1)
      BY <1>1, <1>2, <2>1
    <3>2. w[head[l]] = <<>>
      BY <1>2, <3>1 DEF RelinedTurn
    <3>3. \A m \in l..n : FALSE
      BY <1>2, <2>1
    <3>4. w[head[l]] \in Seq(Good)
      BY <3>2
    <3>5. Stops(l)
      BY <3>3
    <3> HIDE DEF Stops, Good
    <3> QED
      BY <3>4, <3>5
  <2>2. CASE l # n + 1
    <3> DEFINE at   == head[l]
               after == head[l + 1]
               end  == at + bytes[at]
               one  == D!LineTokens(bytes, at + 1, end)
               rest == w[end + 1]
               first == D!Token(bytes, at, at)
    <3>1. l \in 1..n /\ l + 1 \in 1..n + 1 /\ l + 1 \in l + 1..n + 1
      BY <1>2, <2>2
    <3>2. /\ at \in Nat /\ at > 0 /\ after \in Nat /\ bytes[at] \in Nat
          /\ after = at + bytes[at] + 1 /\ after <= N + 1
      <4>1. 1 \in 1..Len(ls) + 1 /\ l \in 1..Len(ls) + 1
        BY <1>2, <3>1 DEF n
      <4>2. 1 < l => head[1] < head[l]
        BY <4>1, HeadsInOrder
      <4>3. l = 1 \/ 1 < l
        BY <3>1
      <4>4. at \in Nat /\ after \in Nat
        BY <1>2, <3>1
      <4>5. at > 0
        BY <1>2, <4>2, <4>3, <4>4
      <4> QED
        BY <1>2, <3>1, <4>4, <4>5
    <3>3. PICK pos : RefsAt(bytes, ls[l], pos, at + 1, after)
      BY <1>2, <3>1
    <3>4. /\ end \in 0..N /\ at + 1 \in 1..end + 1 /\ end + 1 = after /\ at \in 1..N /\ end \in Nat
          /\ at \in 1..N + 1
      <4> DEFINE a == at  b == bytes[at]  x == after
      <4>1. a \in Nat /\ a > 0 /\ b \in Nat /\ x = a + b + 1 /\ x <= N + 1 /\ end = a + b
        BY <3>2
      <4> HIDE DEF at, a, b, after, x, end, N
      <4>2. end \in 0..N /\ a + 1 \in 1..end + 1 /\ end + 1 = x /\ a \in 1..N /\ end \in Nat /\ a \in 1..N + 1
        BY <1>2, <4>1
      <4> QED
        BY <4>2 DEF a, x
    <3>5. one # Unset
      <4>1. RefsAt(bytes, ls[l], pos, at + 1, end + 1) /\ Len(ls[l]) \in Nat
        BY <3>1, <3>3, <3>4 DEF n
      <4> HIDE DEF at, end
      <4> QED
        BY <3>4, <4>1, LineRead
    <3>6. one \in Seq(TokensOf(bytes)) /\ Tiles(one, at + 1, end + 1)
      <4> HIDE DEF at, end
      <4> QED
        BY <3>4, <3>5, LineTiles
    <3>7. one \in Seq(Good)
      <4>1. ASSUME NEW i \in 1..Len(one) PROVE one[i] \in Good
        <5>1. one[i] \in TokensOf(bytes)
          BY <3>6
        <5>2. one[i] \in Readings(bytes, heads)
          BY <5>1, TokensAreReadings
        <5>3. one[i].begin \in at + 1..end + 1 /\ one[i].begin < end + 1
          <6>1. one \in Seq(D!Tokens)
            <7>1. TokensOf(bytes) \subseteq D!Tokens
              BY DEF TokensOf
            <7> QED
              BY <3>6, <7>1
          <6>2. at + 1 \in Nat /\ end + 1 \in Nat
            BY <3>2, <3>4
          <6>3. Len(one) \in Nat /\ i \in 1..Len(one) + 1 /\ Len(one) + 1 \in 1..Len(one) + 1 /\ i < Len(one) + 1
            BY <6>1
          <6> HIDE DEF at, end, one
          <6>4. /\ Edge(one, i, end + 1) \in at + 1..end + 1
                /\ Edge(one, i, end + 1) < Edge(one, Len(one) + 1, end + 1)
            BY <3>6, <6>1, <6>2, <6>3, TilesInOrder
          <6>5. Edge(one, i, end + 1) = one[i].begin /\ Edge(one, Len(one) + 1, end + 1) = end + 1
            BY <6>3 DEF Edge
          <6> QED
            BY <6>4, <6>5
        <5>4. one[i].begin \notin heads
          <6>1. l \in 1..Len(ls) /\ one[i].begin \in Nat /\ head[l] < one[i].begin /\ one[i].begin < head[l + 1]
            <7> DEFINE b == one[i].begin
            <7>1. b \in at + 1..end + 1 /\ b < end + 1
              BY <5>3
            <7>2. at \in Nat /\ end \in Nat /\ end + 1 = after
              BY <3>2, <3>4
            <7> HIDE DEF b, end, one, at, after
            <7>3. b \in Nat /\ at < b /\ b < after
              BY <7>1, <7>2
            <7> QED
              BY <3>1, <7>3 DEF b, n, at, after
          <6> HIDE DEF one
          <6> QED
            BY <6>1, NoHeadWithin
        <5> QED
          BY <5>2, <5>4 DEF LineReadings
      <4>2. one \in Seq(TokensOf(bytes))
        BY <3>6
      <4> HIDE DEF one, Good
      <4> QED
        BY <4>1, <4>2
    <3>8. first \in Good /\ first.begin = at
      <4>1. at \in 1..Len(bytes) /\ at \in 1..at
        BY <3>2, <3>4
      <4>2. first \in D!Tokens /\ first.begin = at
        BY <4>1, TokenIs
      <4>3. first.value[1] = bytes[first.begin]
        BY <4>2, ValueRead
      <4>4. first.width = 1
        <5>1. ~(at < at)
          BY <3>2
        <5> QED
          BY <5>1 DEF D!Token
      <4>5. at \in heads
        BY <3>1 DEF Heads, n
      <4> HIDE DEF first, at, heads
      <4> QED
        BY <4>2, <4>3, <4>4, <4>5 DEF LineReadings, Readings
    <3>9. rest = w[head[l + 1]] /\ rest \in Seq(Good) /\ Stops(l + 1)
      <4>1. l + 1 \in Held
        BY <1>5, <3>1
      <4> HIDE DEF Good
      <4> QED
        BY <3>4, <4>1
    <3>10. w[head[l]] = <<first>> \o one \o rest
      <4>1. w[at] = RelinedTurn(bytes, w, at)
        BY <1>1, <3>4
      <4>2. ~(at > Len(bytes)) /\ ~(at + bytes[at] > Len(bytes))
        <5>1. at \in 1..N /\ end \in 0..N
          BY <3>4
        <5> HIDE DEF at
        <5> QED
          BY <1>2, <5>1
      <4>3. rest # Unset
        <5> HIDE DEF rest, Good
        <5> QED
          BY <1>4, <3>9
      <4> QED
        BY <3>5, <4>1, <4>2, <4>3, Zenon DEF RelinedTurn
    <3> HIDE DEF first, one, rest, Good
    <3>11. w[head[l]] \in Seq(Good)
      BY <3>7, <3>8, <3>9, <3>10
    <3>12. Stops(l)
      <4> DEFINE longer == <<first>> \o one \o rest
      <4>1. /\ longer[1] = first /\ Len(one) \in Nat /\ Len(rest) \in Nat
            /\ Len(longer) = 1 + Len(one) + Len(rest)
            /\ \A i \in 1..Len(rest) : longer[(1 + Len(one)) + i] = rest[i]
        <5> DEFINE begun == <<first>> \o one
        <5>1. /\ begun \in Seq(Good) /\ Len(begun) = 1 + Len(one) /\ begun[1] = first /\ Len(one) \in Nat
              /\ 1 \in 1..Len(begun)
          BY <3>7, <3>8
        <5> HIDE DEF begun
        <5>2. /\ \A i \in 1..Len(begun) : (begun \o rest)[i] = begun[i]
              /\ Len(begun \o rest) = Len(begun) + Len(rest) /\ Len(rest) \in Nat
              /\ \A i \in 1..Len(rest) : (begun \o rest)[Len(begun) + i] = rest[i]
          <6>1. begun \in Seq(Good) /\ rest \in Seq(Good)
            BY <3>9, <5>1
          <6> QED
            BY <6>1
        <5> QED
          BY <5>1, <5>2 DEF begun
      <4> HIDE DEF longer
      <4>2. ASSUME NEW m \in l..n PROVE \E i \in 1..Len(longer) : longer[i].begin = head[m]
        <5>1. CASE m = l
          <6>1. 1 \in 1..Len(longer)
            BY <4>1
          <6> QED
            BY <3>8, <4>1, <5>1, <6>1
        <5>2. CASE m # l
          <6>1. m \in l + 1..n
            BY <1>2, <5>2
          <6>2. PICK i \in 1..Len(rest) : rest[i].begin = head[m]
            BY <3>9, <6>1
          <6>3. (1 + Len(one)) + i \in 1..Len(longer)
            BY <4>1
          <6> QED
            BY <4>1, <6>2, <6>3
        <5> QED
          BY <5>1, <5>2
      <4> QED
        BY <3>10, <4>2 DEF longer
    <3> QED
      BY <3>11, <3>12
  <2> QED
    BY <2>1, <2>2
<1>6. \A l \in 1..n + 1 : l \in Held
  <2> HIDE DEF Held
  <2>1. n + 1 \in Nat
    BY <1>2
  <2> QED
    BY <1>5, <2>1, Downwards
<1>7. w[head[1]] \in Seq(Good) /\ Stops(1)
  <2>1. 1 \in 1..n + 1
    BY <1>2
  <2> QED
    BY <1>6, <2>1
<1> QED
  BY <1>1, <1>2, <1>7 DEF n

(* Tokens that stop at each line have lines.                               *)
LEMMA LinesDecided ==
  ASSUME NEW bytes \in Seq(Nat), NEW ls, Len(ls) \in Nat, NEW head, Parted(bytes, ls, head),
         NEW tokens \in Seq(LineReadings(bytes, Heads(ls, head))), Tiles(tokens, 1, Len(bytes) + 1),
         \A l \in 1..Len(ls) : \E i \in 1..Len(tokens) : tokens[i].begin = head[l]
  PROVE  D!DisplayLines(tokens, Len(bytes)) # Unset
<1> DEFINE N == Len(bytes)
           n == Len(ls)
           M1 == Len(tokens)
           E(i) == Edge(tokens, i, N + 1)
<1>1. tokens \in Seq(D!Tokens) /\ M1 \in Nat /\ N \in Nat
  <2>1. LineReadings(bytes, Heads(ls, head)) \subseteq D!Tokens
    BY DEF LineReadings, Readings
  <2> QED
    BY <2>1
<1>2. PICK d \in [1..M1 + 1 -> Seq(D!FramingLines) \cup {Unset}] :
             /\ D!DisplayLines(tokens, N) = d[1]
             /\ \A i \in 1..M1 + 1 : d[i] = DisplayTurn(tokens, N, d, i)
  BY <1>1, DisplayStepwise
<1>3. /\ \A i \in 1..M1 + 1 : E(i) \in 1..N + 1
      /\ \A i, j \in 1..M1 + 1 : i < j => E(i) < E(j)
      /\ E(1) = 1 /\ E(M1 + 1) = N + 1
  <2>1. 1 \in Nat /\ N + 1 \in Nat
    BY <1>1
  <2>2. E(1) = 1
    BY DEF Tiles
  <2>3. E(M1 + 1) = N + 1
    BY <1>1 DEF Edge
  <2> QED
    BY <1>1, <2>1, <2>2, <2>3, TilesInOrder
<1>4. /\ n \in Nat /\ head \in [1..n + 1 -> Nat] /\ head[1] = 1 /\ head[n + 1] = N + 1
      /\ \A l \in 1..n : bytes[head[l]] \in Nat /\ head[l + 1] = head[l] + bytes[head[l]] + 1
  BY DEF Parted
<1> HIDE DEF n, E, M1, N
<1>5. ASSUME NEW l \in 1..n + 1 PROVE \E i \in 1..M1 + 1 : E(i) = head[l]
  <2>1. CASE l = n + 1
    <3>1. M1 + 1 \in 1..M1 + 1
      BY <1>1
    <3> QED
      BY <1>3, <1>4, <2>1, <3>1
  <2>2. CASE l # n + 1
    <3>1. l \in 1..Len(ls)
      BY <1>4, <2>2 DEF n
    <3>2. PICK i \in 1..M1 : tokens[i].begin = head[l]
      BY <3>1 DEF M1
    <3>3. E(i) = tokens[i].begin /\ i \in 1..M1 + 1
      BY <1>1 DEF E, Edge, M1
    <3> QED
      BY <3>2, <3>3
  <2> QED
    BY <2>1, <2>2
<1> DEFINE Held == {i \in 1..M1 + 1 : (\E l \in 1..n + 1 : E(i) = head[l]) => d[i] # Unset}
<1>6. <<>> # Unset /\ \A s : s \in Seq(D!FramingLines) => s # Unset
  <2>1. <<>> \in Seq(D!FramingLines)
    OBVIOUS
  <2> QED
    BY <2>1, LinesAssumption
<1>7. ASSUME NEW i \in 1..M1 + 1, \A y \in i + 1..M1 + 1 : y \in Held PROVE i \in Held
  <2> SUFFICES ASSUME NEW l \in 1..n + 1, E(i) = head[l] PROVE d[i] # Unset
    OBVIOUS
  <2>1. d[i] = DisplayTurn(tokens, N, d, i)
    BY <1>2
  <2>2. CASE i = M1 + 1
    <3>1. i > Len(tokens)
      BY <1>1, <2>2 DEF M1
    <3>2. d[i] = <<>>
      BY <2>1, <3>1 DEF DisplayTurn
    <3> QED
      BY <1>6, <3>2
  <2>3. CASE i # M1 + 1
    <3>1. i \in 1..Len(tokens) /\ ~(i > Len(tokens)) /\ i < M1 + 1 /\ M1 + 1 \in 1..M1 + 1
      BY <1>1, <2>3 DEF M1
    <3>2. l \in 1..n /\ l + 1 \in 1..n + 1
      <4>1. E(i) < N + 1
        BY <1>3, <3>1
      <4>2. l # n + 1
        <5>1. E(i) \in 1..N + 1
          BY <1>3
        <5> QED
          BY <1>1, <1>4, <4>1, <5>1
      <4> QED
        BY <1>4, <4>2
    <3>3. /\ tokens[i] \in LineReadings(bytes, Heads(ls, head)) /\ tokens[i].begin = head[l]
          /\ head[l] \in Heads(ls, head)
      <4>1. E(i) = tokens[i].begin
        BY <3>1 DEF E, Edge
      <4>2. tokens[i] \in LineReadings(bytes, Heads(ls, head))
        BY <3>1
      <4>3. head[l] \in Heads(ls, head)
        BY <3>2 DEF Heads, n
      <4> QED
        BY <4>1, <4>2, <4>3
    <3>4. tokens[i].width = 1 /\ tokens[i].value[1] = bytes[head[l]]
      BY <3>3 DEF LineReadings, Readings
    <3>5. D!After(tokens[i]) + tokens[i].value[1] = head[l + 1]
      <4>1. head[l] \in Nat /\ bytes[head[l]] \in Nat /\ head[l + 1] = head[l] + bytes[head[l]] + 1
        BY <1>4, <3>2
      <4> QED
        BY <3>3, <3>4, <4>1 DEF D!After
    <3>6. PICK j \in 1..M1 + 1 : E(j) = head[l + 1]
      BY <1>5, <3>2
    <3>7. j \in i + 1..M1 + 1
      <4>1. head[l] < head[l + 1]
        <5>1. l \in 1..Len(ls) + 1 /\ l + 1 \in 1..Len(ls) + 1 /\ l < l + 1
          BY <1>4, <3>2 DEF n
        <5> QED
          BY <5>1, HeadsInOrder
      <4>2. E(i) < E(j) /\ E(i) \in Nat /\ E(j) \in Nat
        <5>1. E(i) \in 1..N + 1 /\ E(j) \in 1..N + 1
          BY <1>3
        <5> QED
          BY <1>1, <3>6, <4>1, <5>1
      <4>3. ~(j < i) /\ j # i
        <5>1. j < i => E(j) < E(i)
          BY <1>3
        <5> QED
          BY <4>2, <5>1
      <4> QED
        BY <1>1, <4>3
    <3>8. j \in Closes(tokens, N, i)
      BY <3>5, <3>6, <3>7 DEF Closes, E, M1
    <3> DEFINE c == Closing(tokens, N, i)
    <3>9. c \in Closes(tokens, N, i)
      BY <3>8 DEF Closing
    <3>10. c \in i + 1..M1 + 1 /\ E(c) = head[l + 1]
      BY <3>5, <3>9 DEF Closes, E, M1
    <3> HIDE DEF c
    <3>11. d[c] # Unset
      BY <1>7, <3>2, <3>10
    <3>12. c \in 1..M1 + 1
      BY <1>1, <3>10
    <3>13. d[i] = <<[prefix |-> i, last |-> c - 1]>> \o d[c]
      <4>1. Closes(tokens, N, i) # {}
        BY <3>8
      <4> QED
        BY <2>1, <3>1, <3>4, <3>11, <4>1, Zenon DEF DisplayTurn, c
    <3>14. d[i] \in Seq(D!FramingLines)
      <4>1. d[c] \in Seq(D!FramingLines)
        BY <1>2, <3>11, <3>12
      <4>2. [prefix |-> i, last |-> c - 1] \in D!FramingLines
        BY <1>1, <3>10 DEF D!FramingLines
      <4> QED
        BY <3>13, <4>1, <4>2
    <3> QED
      BY <1>6, <3>14
  <2> QED
    BY <2>2, <2>3
<1>8. \A i \in 1..M1 + 1 : i \in Held
  <2> HIDE DEF Held
  <2>1. M1 + 1 \in Nat
    BY <1>1
  <2> QED
    BY <1>7, <2>1, Downwards
<1>9. 1 \in 1..M1 + 1 /\ 1 \in 1..n + 1 /\ E(1) = head[1]
  BY <1>1, <1>3, <1>4
<1>10. d[1] # Unset
  BY <1>8, <1>9
<1> QED
  BY <1>2, <1>10 DEF N

(* Whatever tokens have lines, the lines are those that were encoded.      *)
LEMMA LinesUnique ==
  ASSUME NEW bytes \in Seq(Nat), NEW ls, Len(ls) \in Nat, NEW head, Parted(bytes, ls, head),
         NEW tokens \in Seq(Readings(bytes, Heads(ls, head))), Tiles(tokens, 1, Len(bytes) + 1),
         NEW lines, Framed(tokens, Len(bytes), 1, lines)
  PROVE  /\ Len(lines) = Len(ls)
         /\ \A l \in 1..Len(ls) :
              /\ lines[l].prefix \in 1..Len(tokens) /\ lines[l].last \in lines[l].prefix..Len(tokens)
              /\ tokens[lines[l].prefix].width = 1
              /\ Edge(tokens, lines[l].prefix, Len(bytes) + 1) = head[l]
              /\ Edge(tokens, lines[l].last + 1, Len(bytes) + 1) = head[l + 1]
<1> DEFINE N == Len(bytes)
           n == Len(ls)
           L1 == Len(lines)
           M1 == Len(tokens)
           E(i) == Edge(tokens, i, N + 1)
<1>1. tokens \in Seq(D!Tokens) /\ M1 \in Nat /\ N \in Nat
  <2>1. Readings(bytes, Heads(ls, head)) \subseteq D!Tokens
    BY DEF Readings
  <2> QED
    BY <2>1
<1>2. /\ \A i \in 1..M1 + 1 : E(i) \in 1..N + 1
      /\ \A i, j \in 1..M1 + 1 : i < j => E(i) < E(j)
      /\ E(1) = 1 /\ E(M1 + 1) = N + 1
  <2>1. 1 \in Nat /\ N + 1 \in Nat
    BY <1>1
  <2>2. E(1) = 1
    BY DEF Tiles
  <2>3. E(M1 + 1) = N + 1
    BY <1>1 DEF Edge
  <2> QED
    BY <1>1, <2>1, <2>2, <2>3, TilesInOrder
<1>3. /\ n \in Nat /\ head \in [1..n + 1 -> Nat] /\ head[1] = 1 /\ head[n + 1] = N + 1
      /\ \A l \in 1..n : bytes[head[l]] \in Nat /\ head[l + 1] = head[l] + bytes[head[l]] + 1
  BY DEF Parted
<1>4. /\ L1 \in Nat /\ lines \in Seq(D!FramingLines)
      /\ \A l \in 1..L1 :
           /\ lines[l].prefix = (IF l = 1 THEN 1 ELSE lines[l - 1].last + 1)
           /\ lines[l].prefix \in 1..M1 /\ lines[l].last \in lines[l].prefix..M1
           /\ tokens[lines[l].prefix].width = 1
           /\ E(lines[l].last + 1) = E(lines[l].prefix) + 1 + tokens[lines[l].prefix].value[1]
      /\ M1 = IF lines = <<>> THEN 0 ELSE lines[L1].last
  <2>1. lines \in Seq(D!FramingLines)
    BY DEF Framed
  <2>2. L1 \in Nat
    BY <2>1
  <2>3. ASSUME NEW l \in 1..L1
        PROVE  /\ lines[l].prefix = (IF l = 1 THEN 1 ELSE lines[l - 1].last + 1)
               /\ lines[l].prefix \in 1..M1 /\ lines[l].last \in lines[l].prefix..M1
               /\ tokens[lines[l].prefix].width = 1
               /\ E(lines[l].last + 1) = E(lines[l].prefix) + 1 + tokens[lines[l].prefix].value[1]
    BY Zenon DEF Framed
  <2>4. M1 = IF lines = <<>> THEN 0 ELSE lines[L1].last
    <3>1. M1 = IF lines = <<>> THEN 1 - 1 ELSE lines[L1].last
      BY Zenon DEF Framed
    <3> QED
      BY <3>1
  <2> HIDE DEF E, L1, M1, N
  <2> QED
    BY <2>1, <2>2, <2>3, <2>4
<1> HIDE DEF n, E, M1, N, L1
<1> DEFINE Meets(l) == l \in 1..n /\ E(lines[l].prefix) = head[l] /\ E(lines[l].last + 1) = head[l + 1]
           Held == {l \in 0..L1 : l = 0 \/ Meets(l)}
<1>5. 0 \in Held
  BY <1>4
<1>6. ASSUME NEW l \in 1..L1, l - 1 \in Held PROVE l \in Held
  <2> DEFINE p == lines[l].prefix
             q == lines[l].last
  <2>1. /\ p = (IF l = 1 THEN 1 ELSE lines[l - 1].last + 1) /\ p \in 1..M1 /\ q \in p..M1
        /\ E(q + 1) = E(p) + 1 + tokens[p].value[1]
    BY <1>4
  <2>2. l \in 1..n + 1 /\ E(p) = head[l]
    <3>1. CASE l = 1
      BY <1>2, <1>3, <2>1, <3>1
    <3>2. CASE l # 1
      <4>1. Meets(l - 1) /\ (l - 1) + 1 = l
        BY <1>4, <1>6, <3>2
      <4> HIDE DEF p
      <4>2. p = lines[l - 1].last + 1
        BY <2>1, <3>2
      <4>3. E(p) = head[l]
        BY <4>1, <4>2
      <4>4. l \in 1..n + 1
        BY <1>3, <4>1
      <4> QED
        BY <4>3, <4>4
    <3> QED
      BY <3>1, <3>2
  <2> HIDE DEF p, q
  <2>3. E(p) < N + 1 /\ E(p) \in 1..N + 1
    <3>1. p \in 1..M1 + 1 /\ M1 + 1 \in 1..M1 + 1 /\ p < M1 + 1
      BY <1>1, <2>1
    <3> QED
      BY <1>2, <3>1
  <2>4. l \in 1..n
    <3>1. ASSUME l = n + 1 PROVE FALSE
      <4>1. E(p) = N + 1
        BY <1>3, <2>2, <3>1
      <4> QED
        BY <1>1, <2>3, <4>1
    <3> QED
      BY <1>3, <2>2, <3>1
  <2>5. tokens[p].value[1] = bytes[head[l]]
    <3>1. p \in 1..Len(tokens)
      BY <2>1 DEF M1
    <3>2. tokens[p] \in Readings(bytes, Heads(ls, head))
      BY <3>1
    <3>3. E(p) = tokens[p].begin
      BY <1>1, <3>1 DEF E, Edge, M1
    <3> QED
      BY <2>2, <3>2, <3>3 DEF Readings
  <2>6. E(q + 1) = head[l + 1]
    <3>1. head[l] \in Nat /\ bytes[head[l]] \in Nat /\ head[l + 1] = head[l] + bytes[head[l]] + 1
      BY <1>3, <2>4
    <3>2. E(q + 1) = head[l] + 1 + bytes[head[l]]
      BY <2>1, <2>2, <2>5
    <3> DEFINE a == head[l]  b == bytes[head[l]]  x == head[l + 1]  y == E(q + 1)
    <3>3. a \in Nat /\ b \in Nat /\ x = a + b + 1 /\ y = a + 1 + b
      BY <3>1, <3>2
    <3> HIDE DEF a, b, x, y
    <3>4. y = x
      BY <3>3
    <3> QED
      BY <3>4 DEF x, y
  <2>7. Meets(l)
    BY <2>2, <2>4, <2>6 DEF p, q
  <2>8. l \in 0..L1
    BY <1>4
  <2> HIDE DEF Meets
  <2> QED
    BY <2>7, <2>8
<1>7. \A l \in 1..L1 : Meets(l)
  <2> HIDE DEF Held
  <2>1. \A l \in 0..L1 : l \in Held
    BY <1>4, <1>5, <1>6, Upwards
  <2>2. \A l \in 1..L1 : l \in 0..L1 /\ l # 0
    BY <1>4
  <2> HIDE DEF Meets
  <2> QED
    BY <2>1, <2>2 DEF Held
<1>8. head[L1 + 1] = N + 1 /\ L1 \in 0..n
  <2>1. CASE lines = <<>>
    <3>1. L1 = 0 /\ M1 = 0
      BY <1>4, <2>1 DEF L1
    <3>2. E(1) = N + 1
      BY <1>2, <3>1
    <3> QED
      BY <1>2, <1>3, <3>1, <3>2
  <2>2. CASE lines # <<>>
    <3>1. L1 \in 1..L1
      BY <1>4, <2>2 DEF L1
    <3>2. M1 = lines[L1].last
      BY <1>4, <2>2
    <3>3. Meets(L1)
      BY <1>7, <3>1
    <3>4. E(M1 + 1) = head[L1 + 1] /\ L1 \in 1..n
      BY <3>2, <3>3
    <3> QED
      BY <1>2, <1>3, <3>4
  <2> QED
    BY <2>1, <2>2
<1>9. L1 = n
  <2>1. SUFFICES ASSUME L1 # n PROVE FALSE
    OBVIOUS
  <2>2. L1 + 1 \in 1..n + 1 /\ n + 1 \in 1..n + 1 /\ L1 + 1 < n + 1
    BY <1>3, <1>4, <1>8, <2>1
  <2>3. head[L1 + 1] < head[n + 1]
    BY <2>2, HeadsInOrder DEF n
  <2> QED
    BY <1>1, <1>3, <1>8, <2>3
<1> QED
  BY <1>4, <1>7, <1>9 DEF n, L1, M1, E, N

(* The tokens of a line are its references.                                *)
LEMMA LineValues ==
  ASSUME NEW bytes \in Seq(Nat), NEW ls, Len(ls) \in Nat, NEW head, Parted(bytes, ls, head),
         NEW tokens \in Seq(Readings(bytes, Heads(ls, head))), Tiles(tokens, 1, Len(bytes) + 1),
         NEW l \in 1..Len(ls), ls[l] \in Seq(D!References),
         NEW p \in 1..Len(tokens), NEW q \in p..Len(tokens), tokens[p].width = 1,
         Edge(tokens, p, Len(bytes) + 1) = head[l], Edge(tokens, q + 1, Len(bytes) + 1) = head[l + 1]
  PROVE  q - p = Len(ls[l]) /\ \A k \in 1..Len(ls[l]) : tokens[p + k].value = ls[l][k]
<1> DEFINE N == Len(bytes)
           M1 == Len(tokens)
           refs == ls[l]
           K == Len(refs)
           E(i) == Edge(tokens, i, N + 1)
<1>1. tokens \in Seq(D!Tokens) /\ M1 \in Nat /\ N \in Nat /\ K \in Nat
  <2>1. Readings(bytes, Heads(ls, head)) \subseteq D!Tokens
    BY DEF Readings
  <2>2. tokens \in Seq(D!Tokens)
    BY <2>1
  <2> QED
    BY <2>2
<1>2. /\ \A i \in 1..M1 + 1 : E(i) \in 1..N + 1
      /\ \A i, j \in 1..M1 + 1 : i < j => E(i) < E(j)
  <2>1. 1 \in Nat /\ N + 1 \in Nat
    BY <1>1
  <2> QED
    BY <1>1, <2>1, TilesInOrder
<1>3. PICK pos : RefsAt(bytes, refs, pos, head[l] + 1, head[l + 1])
  BY DEF Parted
<1>4. head[l] \in Nat /\ head[l + 1] \in Nat /\ head[l] > 0 /\ head[l + 1] <= N + 1
  <2>1. head[l] = E(p) /\ head[l + 1] = E(q + 1)
    OBVIOUS
  <2>2. p \in 1..M1 + 1 /\ q + 1 \in 1..M1 + 1
    BY <1>1
  <2>3. E(p) \in 1..N + 1 /\ E(q + 1) \in 1..N + 1
    BY <1>2, <2>2
  <2> QED
    BY <1>1, <2>1, <2>3
<1>5. /\ pos \in [0..K -> Nat] /\ pos[0] = head[l] + 1 /\ pos[K] = head[l + 1]
      /\ \A k \in 1..K :
           /\ pos[k] = pos[k - 1] + Len(refs[k]) /\ Len(refs[k]) \in {1, 2} /\ pos[k] <= head[l + 1]
           /\ D!Token(bytes, pos[k - 1], N) =
                [begin |-> pos[k - 1], width |-> Len(refs[k]), value |-> refs[k]]
  BY <1>3 DEF RefsAt
<1>6. E(p) = head[l] /\ E(q + 1) = head[l + 1] /\ p \in Nat /\ q \in Nat /\ p <= q /\ q <= M1
  BY <1>1
<1>7. \A i \in 1..M1 : /\ E(i) = tokens[i].begin /\ E(i + 1) = D!After(tokens[i])
                       /\ tokens[i] \in Readings(bytes, Heads(ls, head))
  <2>1. \A i \in 1..M1 : ~(i > M1)
    BY <1>1
  <2>2. \A i \in 1..M1 : E(i) = tokens[i].begin
    BY <2>1 DEF Edge
  <2>3. \A i \in 1..M1 : E(i + 1) = D!After(tokens[i])
    BY DEF Tiles
  <2> QED
    BY <2>2, <2>3
<1>8. tokens[p].width = 1
  OBVIOUS
<1> HIDE DEF N, M1, refs, K, E
<1> DEFINE Read(k) == /\ p + k <= q /\ E(p + k + 1) = pos[k] /\ (k # 0 => tokens[p + k].value = refs[k])
           Held == {k \in 0..K : Read(k)}
<1>9. 0 \in Held
  <2>1. p \in 1..M1 /\ p + 0 = p /\ p + 0 + 1 = p + 1
    BY <1>1, <1>6 DEF M1
  <2>2. E(p + 1) = head[l] + 1
    BY <1>6, <1>7, <1>8, <2>1 DEF D!After
  <2> QED
    BY <1>1, <1>5, <1>6, <2>1, <2>2
<1>10. ASSUME NEW k \in 1..K, k - 1 \in Held PROVE k \in Held
  <2> DEFINE at == pos[k - 1]  size == Len(refs[k])  i == p + k
  <2>1. /\ k \in 0..K /\ k - 1 \in 0..K /\ k \in Nat /\ k # 0
        /\ p + (k - 1) + 1 = i /\ p + k + 1 = i + 1 /\ i \in Nat /\ i > 0
    BY <1>1, <1>6
  <2>2. p + (k - 1) <= q /\ E(i) = at
    BY <1>10, <2>1
  <2>3. /\ pos[k] = at + size /\ (size = 1 \/ size = 2) /\ pos[k] <= head[l + 1] /\ at \in Nat
        /\ D!Token(bytes, at, N) = [begin |-> at, width |-> size, value |-> refs[k]]
    BY <1>5, <2>1
  <2> HIDE DEF at, size
  <2>4. at < head[l + 1]
    BY <1>4, <2>3
  <2>5. i <= q
    <3>1. i <= q + 1
      BY <1>6, <2>1, <2>2
    <3>2. ASSUME i = q + 1 PROVE FALSE
      <4>1. at = head[l + 1]
        BY <1>6, <2>2, <3>2
      <4> QED
        BY <1>4, <2>4, <4>1
    <3>3. i \in Nat /\ q \in Nat
      BY <1>6, <2>1
    <3> HIDE DEF i
    <3> QED
      BY <3>1, <3>2, <3>3
  <2>6. i \in 1..M1
    <3>1. i \in Nat /\ i > 0 /\ q \in Nat /\ q <= M1 /\ M1 \in Nat
      BY <1>1, <1>6, <2>1
    <3> HIDE DEF i
    <3> QED
      BY <2>5, <3>1
  <2>7. head[l] < at
    <3>1. p < i /\ p \in 1..M1 + 1 /\ i \in 1..M1 + 1
      BY <1>1, <1>6, <2>1, <2>6
    <3>2. E(p) < E(i)
      BY <1>2, <3>1
    <3> QED
      BY <1>6, <2>2, <3>2
  <2>8. tokens[i] = [begin |-> at, width |-> size, value |-> refs[k]]
    <3>1. at \notin Heads(ls, head)
      BY <2>3, <2>4, <2>7, NoHeadWithin
    <3>2. tokens[i].begin = at /\ tokens[i] \in Readings(bytes, Heads(ls, head))
      BY <1>7, <2>2, <2>6
    <3>3. tokens[i] \in TokensOf(bytes)
      BY <3>1, <3>2 DEF Readings
    <3>4. tokens[i] = D!Token(bytes, tokens[i].begin, N)
      BY <3>3 DEF TokensOf, N
    <3> QED
      BY <2>3, <3>2, <3>4
  <2>9. E(i + 1) = pos[k] /\ tokens[i].value = refs[k]
    <3>1. E(i + 1) = D!After(tokens[i])
      BY <1>7, <2>6
    <3> QED
      BY <2>3, <2>8, <3>1 DEF D!After
  <2> QED
    BY <2>1, <2>5, <2>9
<1>11. \A k \in 0..K : Read(k)
  <2> HIDE DEF Held
  <2>1. \A k \in 0..K : k \in Held
    BY <1>1, <1>9, <1>10, Upwards
  <2> HIDE DEF Read
  <2> QED
    BY <2>1 DEF Held
<1>12. p + K = q
  <2>1. K \in 0..K
    BY <1>1
  <2>2. p + K <= q /\ E(p + K + 1) = E(q + 1)
    BY <1>5, <1>6, <1>11, <2>1
  <2>3. p + K + 1 \in 1..M1 + 1 /\ q + 1 \in 1..M1 + 1
    <3>1. p \in Nat /\ p > 0 /\ K \in Nat /\ q \in Nat /\ q <= M1 /\ M1 \in Nat /\ p + K <= q
      BY <1>1, <1>6, <2>2
    <3> QED
      BY <3>1
  <2>4. ~(p + K + 1 < q + 1)
    <3>1. p + K + 1 < q + 1 => E(p + K + 1) < E(q + 1)
      BY <1>2, <2>3
    <3>2. E(q + 1) \in 1..N + 1
      BY <1>2, <2>3
    <3> QED
      BY <1>1, <2>2, <3>1, <3>2
  <2> QED
    BY <1>1, <1>6, <2>2, <2>4
<1>13. q - p = K /\ \A k \in 1..K : tokens[p + k].value = refs[k]
  <2>1. \A k \in 1..K : k \in 0..K /\ k # 0
    BY <1>1
  <2>2. q - p = K
    BY <1>1, <1>6, <1>12
  <2> QED
    BY <1>11, <2>1, <2>2
<1> QED
  BY <1>13 DEF refs, K

(* What is written as lines is read back as these lines.                   *)
LEMMA RoundTrip ==
  ASSUME NEW ls \in Seq(Seq(D!References)), NEW made, made = D!DecodePayload(D!Encoded(ls))
  PROVE  /\ made.lines # Unset
         /\ [l \in DOMAIN made.lines |->
               [k \in 1..made.lines[l].last - made.lines[l].prefix |->
                  made.tokens[made.lines[l].prefix + k].value]] = ls
<1> DEFINE bytes == D!Encoded(ls)
           N == Len(bytes)
           plain == D!PlainWalk(bytes)
           again == D!RelinedWalk(bytes)
           tokens == made.tokens
           lines == made.lines
<1>1. bytes \in Seq(Nat) /\ N \in Nat
  BY EncodedIsParted
<1>2. PICK head : Parted(bytes, ls, head)
  BY EncodedIsParted
<1>3. Len(ls) \in Nat /\ DOMAIN ls = 1..Len(ls) /\ \A l \in 1..Len(ls) : ls[l] \in Seq(D!References) /\ Len(ls[l]) \in Nat
  OBVIOUS
<1> HIDE DEF bytes
<1> DEFINE heads == Heads(ls, head)
<1>4. plain \in Seq(Readings(bytes, heads)) /\ Tiles(plain, 1, N + 1)
  <2>1. plain \in Seq(TokensOf(bytes)) /\ Tiles(plain, 1, N + 1)
    BY <1>1, PlainTiles
  <2>2. TokensOf(bytes) \subseteq Readings(bytes, heads)
    BY TokensAreReadings
  <2> HIDE DEF plain, heads
  <2> QED
    BY <2>1, <2>2
<1>5. /\ again \in Seq(LineReadings(bytes, heads))
      /\ \A l \in 1..Len(ls) : \E i \in 1..Len(again) : again[i].begin = head[l]
  BY <1>1, <1>2, <1>3, RelinedReads
<1>6. again # Unset /\ again \in Seq(Readings(bytes, heads))
  <2>1. LineReadings(bytes, heads) \subseteq Readings(bytes, heads) /\ Readings(bytes, heads) \subseteq D!Tokens
    BY DEF LineReadings, Readings
  <2>2. \A S1, T1 : S1 \subseteq T1 => \A s \in Seq(S1) : s \in Seq(T1)
    OBVIOUS
  <2>3. again \in Seq(Readings(bytes, heads))
    <3> HIDE DEF again, heads
    <3> QED
      BY <1>5, <2>1, <2>2
  <2>4. again \in Seq(D!Tokens)
    <3> HIDE DEF again, heads
    <3> QED
      BY <2>1, <2>2, <2>3
  <2> QED
    BY <2>3, <2>4, LinesAssumption
<1>7. Tiles(again, 1, N + 1)
  BY <1>1, <1>6, RelinedTiles
<1>8. D!DisplayLines(again, N) # Unset
  <2> HIDE DEF again
  <2> QED
    BY <1>1, <1>2, <1>3, <1>5, <1>7, LinesDecided
<1>9. (tokens = plain \/ tokens = again) /\ lines = D!DisplayLines(tokens, N) /\ lines # Unset
  <2>1. made = D!DecodePayload(bytes)
    BY DEF bytes
  <2> HIDE DEF plain, again, N
  <2>2. /\ tokens = IF D!DisplayLines(plain, N) = Unset /\ again # Unset
                      THEN IF D!DisplayLines(again, N) = Unset THEN plain ELSE again
                      ELSE plain
        /\ lines = D!DisplayLines(tokens, N)
    BY <2>1 DEF D!DecodePayload, plain, again, N
  <2> HIDE DEF tokens, lines
  <2> QED
    BY <1>6, <1>8, <2>2
<1> HIDE DEF plain, again
<1>10. tokens \in Seq(Readings(bytes, heads)) /\ Tiles(tokens, 1, N + 1)
  <2> HIDE DEF tokens, heads, N
  <2> QED
    BY <1>4, <1>6, <1>7, <1>9
<1>11. Framed(tokens, N, 1, lines)
  <2>1. Readings(bytes, heads) \subseteq D!Tokens
    BY DEF Readings
  <2> HIDE DEF tokens, lines, heads
  <2>2. tokens \in Seq(D!Tokens)
    BY <1>10, <2>1
  <2> QED
    BY <1>1, <1>9, <2>2, DisplayIsFramed
<1> HIDE DEF tokens, lines
<1>12. /\ Len(lines) = Len(ls)
       /\ \A l \in 1..Len(ls) :
            /\ lines[l].prefix \in 1..Len(tokens) /\ lines[l].last \in lines[l].prefix..Len(tokens)
            /\ tokens[lines[l].prefix].width = 1
            /\ Edge(tokens, lines[l].prefix, N + 1) = head[l]
            /\ Edge(tokens, lines[l].last + 1, N + 1) = head[l + 1]
  BY <1>1, <1>2, <1>3, <1>10, <1>11, LinesUnique
<1>13. \A l \in 1..Len(ls) :
         [k \in 1..lines[l].last - lines[l].prefix |-> tokens[lines[l].prefix + k].value] = ls[l]
  <2>1. ASSUME NEW l \in 1..Len(ls)
        PROVE  [k \in 1..lines[l].last - lines[l].prefix |-> tokens[lines[l].prefix + k].value] = ls[l]
    <3> DEFINE p == lines[l].prefix  q == lines[l].last
    <3>1. /\ p \in 1..Len(tokens) /\ q \in p..Len(tokens) /\ tokens[p].width = 1
          /\ Edge(tokens, p, N + 1) = head[l] /\ Edge(tokens, q + 1, N + 1) = head[l + 1]
      BY <1>12
    <3>2. Len(ls) \in Nat /\ ls[l] \in Seq(D!References)
      BY <1>3
    <3> HIDE DEF p, q
    <3>3. q - p = Len(ls[l]) /\ \A k \in 1..Len(ls[l]) : tokens[p + k].value = ls[l][k]
      BY <1>1, <1>2, <1>10, <3>1, <3>2, LineValues
    <3>4. ls[l] = [k \in 1..Len(ls[l]) |-> ls[l][k]]
      BY <3>2
    <3>5. [k \in 1..q - p |-> tokens[p + k].value] = ls[l]
      BY <3>3, <3>4
    <3> QED
      BY <3>5 DEF p, q
  <2> QED
    BY <2>1
<1>14. DOMAIN lines = 1..Len(ls)
  <2>1. lines \in Seq(D!FramingLines)
    BY <1>11 DEF Framed
  <2> QED
    BY <1>12, <2>1
<1>15. [l \in DOMAIN lines |->
          [k \in 1..lines[l].last - lines[l].prefix |-> tokens[lines[l].prefix + k].value]] =
       [l \in 1..Len(ls) |-> ls[l]]
  BY <1>13, <1>14
<1>16. ls = [l \in 1..Len(ls) |-> ls[l]]
  OBVIOUS
<1> QED
  BY <1>9, <1>15, <1>16 DEF lines, tokens
-----------------------------------------------------------------------------
(* A record is what its payload is decoded to.                             *)
LinesInv ==
  /\ \/ written \in Books /\ payload = D!Encoded(written)
     \/ written = Unset /\ payload \in Payloads
  /\ record # Unset => record = D!DecodePayload(payload)

LEMMA LinesStart == D!Init => LinesInv
  BY DEF D!Init, LinesInv

LEMMA LinesStay == ASSUME LinesInv, [D!Decode]_line PROVE LinesInv'
<1>1. CASE D!Decode
  BY <1>1 DEF D!Decode, LinesInv
<1>2. CASE UNCHANGED line
  BY <1>2 DEF line, LinesInv
<1> QED
  BY <1>1, <1>2

LEMMA LinesAreBack == LinesInv => D!LinesReadBack
<1> SUFFICES ASSUME LinesInv, record # Unset PROVE
       /\ D!Verified(record, payload)
       /\ written # Unset =>
            /\ record.lines # Unset
            /\ [l \in DOMAIN record.lines |-> D!Values(record.lines[l])] = written
  BY DEF D!LinesReadBack
<1>1. record = D!DecodePayload(payload)
  BY DEF LinesInv
<1>2. written \in Books => written \in Seq(Seq(D!References))
  BY LinesAssumption
<1>3. payload \in Seq(Nat)
  <2>1. CASE written \in Books /\ payload = D!Encoded(written)
    BY <1>2, <2>1, EncodedIsParted
  <2>2. CASE payload \in Payloads
    BY <2>2, LinesAssumption
  <2> QED
    BY <2>1, <2>2 DEF LinesInv
<1>4. D!Verified(record, payload)
  BY <1>1, <1>3, DecodedIsVerified
<1>5. ASSUME written # Unset
      PROVE  /\ record.lines # Unset
             /\ [l \in DOMAIN record.lines |-> D!Values(record.lines[l])] = written
  <2>1. written \in Seq(Seq(D!References)) /\ record = D!DecodePayload(D!Encoded(written))
    BY <1>1, <1>2, <1>5 DEF LinesInv
  <2>2. /\ record.lines # Unset
        /\ [l \in DOMAIN record.lines |->
              [k \in 1..record.lines[l].last - record.lines[l].prefix |->
                 record.tokens[record.lines[l].prefix + k].value]] = written
    BY <2>1, RoundTrip
  <2>3. \A l : D!Values(record.lines[l]) =
               [k \in 1..record.lines[l].last - record.lines[l].prefix |->
                  record.tokens[record.lines[l].prefix + k].value]
    BY DEF D!Values, D!Content
  <2> QED
    BY <2>2, <2>3
<1> QED
  BY <1>4, <1>5
-----------------------------------------------------------------------------
(* The text of a line *)

(* What one token makes of an assembled line: as much of it as is kept,    *)
(* then the token's words, then a space unless the token closes itself.    *)
Cell(W)          == [word : W, token : Nat, index : Nat]
Leading(words)     == IF D!HasControl(words) THEN Head(words) ELSE 3
WordIndex(words, j)     == IF D!HasControl(words) THEN j + 1 ELSE j
Leaves(entries, words) ==
  IF D!Attaches(words) /\ D!EndsInSpace(entries) THEN Len(entries) - 1 ELSE Len(entries)
EndsItself(entries, words) ==
  \/ D!Body(words) # <<>> /\ D!Body(words)[Len(D!Body(words))] = D!Space
  \/ D!Attaches(words) /\ entries # <<>> /\ (Leading(words) = 0 \/ D!Body(words) = <<>>)
  \/ Leading(words) = 2
Widens(entries, words) == IF EndsItself(entries, words) THEN 0 ELSE 1
Follows(after, entries, t, words) ==
  LET kept == Leaves(entries, words)  n == Len(D!Body(words))
  IN  /\ Len(after) = kept + n + Widens(entries, words)
      /\ \A i \in 1..kept : after[i] = entries[i]
      /\ \A j \in 1..n : after[kept + j] = [word |-> D!Body(words)[j], token |-> t, index |-> WordIndex(words, j)]
      /\ ~EndsItself(entries, words) => after[kept + n + 1] = [word |-> D!Space, token |-> t, index |-> 0]

LEMMA BodyIsWords ==
  ASSUME NEW W, NEW words \in Seq(W)
  PROVE  D!Body(words) \in Seq(W)
<1>1. CASE D!HasControl(words)
  <2>1. words # <<>>
    BY <1>1 DEF D!HasControl
  <2>2. Tail(words) \in Seq(W)
    BY <2>1
  <2> QED
    BY <1>1, <2>2 DEF D!Body
<1>2. CASE ~D!HasControl(words)
  BY <1>2 DEF D!Body
<1> QED
  BY <1>1, <1>2

LEMMA OwnEntries ==
  ASSUME NEW W, NEW t \in Nat, NEW words \in Seq(W)
  PROVE  /\ D!Entries(t, words) \in Seq(Cell(W))
         /\ Len(D!Entries(t, words)) = Len(D!Body(words))
         /\ \A j \in 1..Len(D!Body(words)) :
              D!Entries(t, words)[j] = [word |-> D!Body(words)[j], token |-> t, index |-> WordIndex(words, j)]
<1> DEFINE body == D!Body(words)
           own == D!Entries(t, words)
<1>1. body \in Seq(W)
  BY BodyIsWords
<1> HIDE DEF body
<1>2. Len(body) \in Nat /\ DOMAIN body = 1..Len(body) /\ \A i \in 1..Len(body) : body[i] \in W
  BY <1>1
<1>3. own = [i \in 1..Len(body) |-> [word |-> body[i], token |-> t, index |-> WordIndex(words, i)]]
  BY <1>2 DEF D!Entries, body, WordIndex
<1> HIDE DEF own
<1>4. \A i \in 1..Len(body) : WordIndex(words, i) \in Nat
  BY <1>2 DEF WordIndex
<1>5. \A i \in 1..Len(body) : [word |-> body[i], token |-> t, index |-> WordIndex(words, i)] \in Cell(W)
  BY <1>2, <1>4 DEF Cell
<1>6. own \in [1..Len(body) -> Cell(W)]
  BY <1>3, <1>5
<1>7. own \in Seq(Cell(W)) /\ Len(own) = Len(body)
  BY <1>2, <1>6
<1> QED
  BY <1>3, <1>7 DEF own, body

LEMMA FrontOfCells ==
  ASSUME NEW V, NEW entries \in Seq(V), entries # <<>>
  PROVE  /\ D!Front(entries) \in Seq(V) /\ Len(D!Front(entries)) = Len(entries) - 1
         /\ \A i \in 1..Len(entries) - 1 : D!Front(entries)[i] = entries[i]
<1> DEFINE n == Len(entries) - 1
<1>1. Len(entries) \in Nat /\ Len(entries) # 0
  OBVIOUS
<1>2. n \in Nat /\ 1 \in Int /\ n \in Int /\ \A i \in 1..n : entries[i] \in V
  BY <1>1
<1>3. \A i \in 1..n : i \in 1..n - 1 + 1 /\ 1 + i - 1 = i
  BY <1>2
<1>4. D!Front(entries) = SubSeq(entries, 1, n)
  BY DEF D!Front
<1> HIDE DEF n
<1>5. (IF 1 <= n THEN n - 1 + 1 ELSE 0) = n
  BY <1>2
<1>6. /\ SubSeq(entries, 1, n) \in Seq(V) /\ Len(SubSeq(entries, 1, n)) = n
      /\ \A i \in 1..n : SubSeq(entries, 1, n)[i] = entries[i]
  BY <1>2, <1>3, <1>5, SubSeqProperties
<1> QED
  BY <1>4, <1>6 DEF n

LEMMA TokenFollows ==
  ASSUME NEW W, D!Space \in W, NEW t \in Nat, NEW words \in Seq(W),
         NEW state, state.entries \in Seq(Cell(W))
  PROVE  /\ D!AssembleToken(state, t, words).entries \in Seq(Cell(W))
         /\ Follows(D!AssembleToken(state, t, words).entries, state.entries, t, words)
         /\ D!AssembleToken(state, t, words).wide # 2 => ~EndsItself(state.entries, words)
         /\ D!AssembleToken(state, t, words).spans =
              Append(IF D!Attaches(words) THEN D!Shortened(state.spans, state.entries) ELSE state.spans,
                     [begin |-> Leaves(state.entries, words) + 1,
                      end   |-> Len(D!AssembleToken(state, t, words).entries) + 1])
<1> DEFINE E == state.entries
           own == D!Entries(t, words)
           body == D!Body(words)
           control == IF D!HasControl(words) THEN Head(words) ELSE 3
           attach == control \in {0, 1} /\ E # <<>>
           kept == IF attach THEN D!Dropped(E) ELSE E
           spans == IF attach THEN D!Shortened(state.spans, E) ELSE state.spans
           added == kept \o own
           closed == D!EndsInSpace(own) \/ (attach /\ (control = 0 \/ body = <<>>))
           wide == IF closed THEN 2 ELSE control
           blank == [word |-> D!Space, token |-> t, index |-> 0]
           ended == IF wide = 2 THEN added ELSE Append(added, blank)
           made == D!AssembleToken(state, t, words)
<1>1. made = [entries |-> ended, wide |-> wide,
              spans |-> Append(spans, [begin |-> Len(kept) + 1, end |-> Len(ended) + 1])]
  BY DEF D!AssembleToken
<1>2. control = Leading(words)
  BY DEF Leading
<1>3. D!Attaches(words) <=> control \in {0, 1}
  BY DEF D!Attaches
<1>4. ~D!EndsInSpace(<<>>)
  BY DEF D!EndsInSpace
<1> HIDE DEF E
<1>5. E \in Seq(Cell(W)) /\ Len(E) \in Nat
  BY DEF E
<1>6. /\ own \in Seq(Cell(W)) /\ Len(own) = Len(body)
      /\ \A j \in 1..Len(body) : own[j] = [word |-> body[j], token |-> t, index |-> WordIndex(words, j)]
  BY OwnEntries
<1>7. body \in Seq(W) /\ Len(body) \in Nat
  BY BodyIsWords
<1> HIDE DEF own, body
<1>8. D!EndsInSpace(own) <=> body # <<>> /\ body[Len(body)] = D!Space
  <2>1. own = <<>> <=> Len(own) = 0
    BY <1>6
  <2>2. body = <<>> <=> Len(body) = 0
    BY <1>7
  <2>3. CASE Len(body) = 0
    BY <1>6, <2>1, <2>2, <2>3 DEF D!EndsInSpace
  <2>4. CASE Len(body) # 0
    <3>1. Len(body) \in 1..Len(body)
      BY <1>7, <2>4
    <3>2. own[Len(own)].word = body[Len(body)]
      <4>1. own[Len(body)] = [word |-> body[Len(body)], token |-> t, index |-> WordIndex(words, Len(body))]
        BY <1>6, <3>1
      <4>2. own[Len(body)].word = body[Len(body)]
        BY <4>1
      <4> QED
        BY <1>6, <4>2
    <3> QED
      BY <1>6, <2>1, <2>2, <2>4, <3>2 DEF D!EndsInSpace
  <2> QED
    BY <2>3, <2>4
<1>9. (wide = 2) <=> EndsItself(E, words)
  <2> HIDE DEF control
  <2> QED
    BY <1>2, <1>3, <1>8 DEF EndsItself, body
<1>10. /\ kept \in Seq(Cell(W)) /\ Len(kept) = Leaves(E, words)
       /\ \A i \in 1..Leaves(E, words) : kept[i] = E[i]
  <2>1. CASE attach /\ D!EndsInSpace(E)
    <3>1. kept = D!Front(E) /\ Leaves(E, words) = Len(E) - 1
      BY <1>3, <2>1 DEF D!Dropped, Leaves
    <3> HIDE DEF kept
    <3> QED
      BY <1>5, <2>1, <3>1, FrontOfCells
  <2>2. CASE ~(attach /\ D!EndsInSpace(E))
    <3>1. kept = E
      BY <2>2 DEF D!Dropped
    <3>2. Leaves(E, words) = Len(E)
      BY <1>3, <1>4, <2>2 DEF Leaves
    <3> HIDE DEF kept
    <3> QED
      BY <1>5, <3>1, <3>2
  <2> QED
    BY <2>1, <2>2
<1>11. spans = IF D!Attaches(words) THEN D!Shortened(state.spans, E) ELSE state.spans
  BY <1>3, <1>4 DEF D!Shortened
<1> DEFINE b == Leaves(E, words)
           n == Len(body)
<1>12. b \in Nat /\ n \in Nat
  BY <1>7, <1>10
<1> HIDE DEF kept, b
<1>13. /\ added \in Seq(Cell(W)) /\ Len(added) = b + n
       /\ \A i \in 1..b + n : added[i] = IF i <= b THEN kept[i] ELSE own[i - b]
  <2>1. kept \in Seq(Cell(W)) /\ own \in Seq(Cell(W)) /\ Len(kept) = b /\ Len(own) = n
    BY <1>6, <1>10 DEF b
  <2> HIDE DEF n
  <2> QED
    BY <2>1, ConcatProperties
<1> HIDE DEF added
<1>14. \A i \in 1..b : added[i] = E[i]
  BY <1>10, <1>12, <1>13 DEF b
<1>15. \A j \in 1..n : added[b + j] = own[j]
  BY <1>12, <1>13
<1>16. blank \in Cell(W)
  BY DEF Cell
<1> HIDE DEF blank
<1>17. CASE EndsItself(E, words)
  <2>1. ended = added
    BY <1>9, <1>17
  <2>2. Widens(E, words) = 0
    BY <1>17 DEF Widens
  <2> HIDE DEF ended, wide
  <2>3. Len(ended) = b + n + 0
    BY <1>12, <1>13, <2>1
  <2>4. Follows(ended, E, t, words)
    BY <1>6, <1>14, <1>15, <1>17, <2>1, <2>2, <2>3 DEF Follows, b, body
  <2>5. made.entries = ended /\ made.wide = wide
        /\ made.spans = Append(spans, [begin |-> Len(kept) + 1, end |-> Len(ended) + 1])
    <3> HIDE DEF made, spans
    <3> QED
      BY <1>1
  <2> HIDE DEF made
  <2> QED
    BY <1>9, <1>10, <1>11, <1>13, <1>17, <2>1, <2>4, <2>5 DEF E, made
<1>18. CASE ~EndsItself(E, words)
  <2>1. ended = Append(added, blank)
    BY <1>9, <1>18
  <2>2. Widens(E, words) = 1
    BY <1>18 DEF Widens
  <2> HIDE DEF ended, wide
  <2>3. /\ ended \in Seq(Cell(W)) /\ Len(ended) = b + n + 1
        /\ \A i \in 1..b + n : ended[i] = added[i]
        /\ ended[b + n + 1] = blank
    BY <1>13, <1>16, <2>1, AppendProperties
  <2>4. (\A i \in 1..b : ended[i] = E[i]) /\ (\A j \in 1..n : ended[b + j] = own[j])
    <3>1. \A i \in 1..b : i \in 1..b + n
      BY <1>12
    <3>2. \A j \in 1..n : b + j \in 1..b + n
      BY <1>12
    <3> QED
      BY <1>14, <1>15, <2>3, <3>1, <3>2
  <2>5. Follows(ended, E, t, words)
    BY <1>6, <2>2, <2>3, <2>4 DEF Follows, b, body, blank
  <2>6. made.entries = ended /\ made.wide = wide
        /\ made.spans = Append(spans, [begin |-> Len(kept) + 1, end |-> Len(ended) + 1])
    <3> HIDE DEF made, spans
    <3> QED
      BY <1>1
  <2> HIDE DEF made
  <2> QED
    BY <1>9, <1>10, <1>11, <1>18, <2>3, <2>5, <2>6 DEF E, made
<1> QED
  BY <1>17, <1>18

(* A record's line, token by token.                                        *)
Assembling(tokens, made) ==
  /\ made[0] = [entries |-> <<>>, wide |-> 2, spans |-> <<>>]
  /\ \A m \in 1..Len(tokens) : made[m] = D!AssembleToken(made[m - 1], m, tokens[m])
Closed(N, last) ==
  IF Len(last.entries) > 1 /\ last.wide # 2
  THEN [entries |-> D!Front(last.entries), spans |-> [last.spans EXCEPT ![N].end = Len(last.entries)]]
  ELSE [entries |-> last.entries, spans |-> last.spans]

LEMMA AssembledStepwise ==
  ASSUME NEW tokens, Len(tokens) \in Nat
  PROVE  \E made : Assembling(tokens, made) /\ D!Assemble(tokens) = Closed(Len(tokens), made[Len(tokens)])
<1> DEFINE N == Len(tokens)
           Turn(f, t) == IF t = 0 THEN [entries |-> <<>>, wide |-> 2, spans |-> <<>>]
                         ELSE D!AssembleToken(f[t - 1], t, tokens[t])
           Upto(m) == \E f : f = [t \in 0..m |-> Turn(f, t)]
           made == CHOOSE f : f = [t \in 0..N |-> Turn(f, t)]
<1>1. N \in Nat
  OBVIOUS
<1> HIDE DEF N
<1>2. Upto(N)
  <2> DEFINE T == {m \in 0..N : Upto(m)}
  <2>1. 0 \in T
    <3> DEFINE f == [t \in 0..0 |-> [entries |-> <<>>, wide |-> 2, spans |-> <<>>]]
    <3>1. f = [t \in 0..0 |-> Turn(f, t)]
      OBVIOUS
    <3>2. Upto(0)
      BY <3>1
    <3> HIDE DEF Upto
    <3> QED
      BY <1>1, <3>2
  <2>2. ASSUME NEW m \in 1..N, m - 1 \in T PROVE m \in T
    <3>1. PICK f : f = [t \in 0..m - 1 |-> Turn(f, t)]
      BY <2>2
    <3> DEFINE g == [t \in 0..m |-> IF t = m THEN D!AssembleToken(f[m - 1], m, tokens[m]) ELSE f[t]]
    <3>2. ASSUME NEW t \in 0..m PROVE g[t] = Turn(g, t)
      <4>1. CASE t = m
        <5>1. g[t] = D!AssembleToken(f[m - 1], m, tokens[m]) /\ t # 0
          BY <4>1
        <5>2. m - 1 \in 0..m /\ m - 1 # m
          BY <1>1
        <5>3. g[t - 1] = f[m - 1]
          BY <4>1, <5>2
        <5> HIDE DEF g
        <5> QED
          BY <4>1, <5>1, <5>3
      <4>2. CASE t # m
        <5>1. t \in 0..m - 1 /\ g[t] = f[t]
          BY <4>2
        <5>2. t # 0 => t - 1 \in 0..m /\ t - 1 # m
          BY <4>2
        <5>3. t # 0 => g[t - 1] = f[t - 1]
          BY <5>2
        <5>4. f[t] = Turn(f, t)
          <6> HIDE DEF Turn
          <6> QED
            BY <3>1, <5>1
        <5> HIDE DEF g
        <5> QED
          BY <5>1, <5>3, <5>4
      <4> QED
        BY <4>1, <4>2
    <3>3. g = [t \in 0..m |-> Turn(g, t)]
      <4> HIDE DEF Turn
      <4> QED
        BY <3>2
    <3>4. Upto(m)
      <4> HIDE DEF g, Turn
      <4> QED
        BY <3>3
    <3> HIDE DEF Upto
    <3> QED
      BY <1>1, <3>4
  <2>3. \A n \in 0..N : n \in T
    <3> HIDE DEF T
    <3> QED
      BY <1>1, <2>1, <2>2, Upwards
  <2> HIDE DEF Upto
  <2> QED
    BY <1>1, <2>3
<1>3. made = [t \in 0..N |-> Turn(made, t)]
  <2> HIDE DEF Turn
  <2> QED
    BY <1>2
<1>4. \A t \in 0..N : made[t] = Turn(made, t)
  <2> HIDE DEF made, Turn
  <2> QED
    BY <1>3
<1>5. D!Assemble(tokens) = Closed(N, made[N])
  BY DEF D!Assemble, Closed, N
<1>6. Assembling(tokens, made)
  <2> HIDE DEF made
  <2>1. 0 \in 0..N /\ \A t \in 1..N : t \in 0..N /\ t # 0
    BY <1>1
  <2>2. made[0] = [entries |-> <<>>, wide |-> 2, spans |-> <<>>]
    BY <1>4, <2>1
  <2>3. \A t \in 1..N : made[t] = D!AssembleToken(made[t - 1], t, tokens[t])
    BY <1>4, <2>1
  <2> QED
    BY <2>2, <2>3 DEF Assembling, N
<1> QED
  BY <1>5, <1>6 DEF N

(* Every entry comes from one of the tokens and lies in the span of it.    *)
Spans      == Seq([begin : Nat, end : Nat])
Within(entries, spans) ==
  \A i \in 1..Len(entries) : LET t == entries[i].token
                             IN  t \in 1..Len(spans) /\ spans[t].begin <= i /\ i < spans[t].end
Spanned(state, W, m) ==
  /\ state.entries \in Seq(Cell(W)) /\ state.spans \in Spans /\ Len(state.spans) = m
  /\ Within(state.entries, state.spans)

(* The last entry is taken from the span it lies in, whosever it is.       *)
LEMMA SpanShortened ==
  ASSUME NEW W, NEW entries \in Seq(Cell(W)), entries # <<>>, NEW spans \in Spans, Within(entries, spans),
         NEW t \in 1..Len(spans), entries[Len(entries)].token = t
  PROVE  LET less == [spans EXCEPT ![t].end = Len(entries)]
         IN  less \in Spans /\ Len(less) = Len(spans) /\ Within(D!Front(entries), less)
<1> DEFINE n == Len(entries)
           less == [spans EXCEPT ![t].end = n]
           front == D!Front(entries)
           one == [spans[t] EXCEPT !.end = n]
<1>1. n \in Nat /\ n # 0
  OBVIOUS
<1>2. Len(front) = n - 1 /\ \A i \in 1..n - 1 : front[i] = entries[i]
  BY FrontOfCells
<1> HIDE DEF front
<1>3. spans[t] \in [begin : Nat, end : Nat]
  BY ElementOfSeq DEF Spans
<1> HIDE DEF n
<1>4. one \in [begin : Nat, end : Nat] /\ one.begin = spans[t].begin /\ one.end = n
  BY <1>1, <1>3
<1>5. less = [spans EXCEPT ![t] = one]
  OBVIOUS
<1> HIDE DEF one, less
<1>6. less \in Spans /\ Len(less) = Len(spans) /\ \A u \in 1..Len(spans) : less[u] = IF u = t THEN one ELSE spans[u]
  <2>1. Len(spans) \in Nat /\ spans \in [1..Len(spans) -> [begin : Nat, end : Nat]]
    BY LenProperties DEF Spans
  <2> QED
    BY <1>4, <1>5, <2>1, ExceptSeq DEF Spans
<1>7. ASSUME NEW i \in 1..n - 1
      PROVE  LET u == front[i].token IN u \in 1..Len(less) /\ less[u].begin <= i /\ i < less[u].end
  <2>1. front[i] = entries[i] /\ i \in 1..n /\ i < n
    BY <1>1, <1>2
  <2> DEFINE u == entries[i].token
  <2>2. u \in 1..Len(spans) /\ spans[u].begin <= i /\ i < spans[u].end
    BY <2>1 DEF Within, n
  <2> HIDE DEF u
  <2>3. less[u].begin <= i /\ i < less[u].end
    <3>1. CASE u = t
      BY <1>4, <1>6, <2>1, <2>2, <3>1
    <3>2. CASE u # t
      BY <1>6, <2>2, <3>2
    <3> QED
      BY <3>1, <3>2
  <2> QED
    BY <1>6, <2>1, <2>2, <2>3 DEF u
<1>8. Within(front, less)
  BY <1>2, <1>7 DEF Within
<1> QED
  BY <1>6, <1>8 DEF front, less, n

LEMMA TokenSpanned ==
  ASSUME NEW W, D!Space \in W, NEW m \in Nat, NEW words \in Seq(W), NEW state, Spanned(state, W, m)
  PROVE  Spanned(D!AssembleToken(state, m + 1, words), W, m + 1)
<1> DEFINE E == state.entries
           F == D!AssembleToken(state, m + 1, words).entries
           G == D!AssembleToken(state, m + 1, words).spans
           b == Leaves(E, words)
           n == Len(D!Body(words))
           x == Widens(E, words)
           before == IF D!Attaches(words) THEN D!Shortened(state.spans, E) ELSE state.spans
           own == [begin |-> b + 1, end |-> Len(F) + 1]
<1>1. E \in Seq(Cell(W)) /\ Len(E) \in Nat /\ state.spans \in Spans /\ Len(state.spans) = m /\ Within(E, state.spans)
  BY DEF Spanned
<1>2. F \in Seq(Cell(W)) /\ Follows(F, E, m + 1, words) /\ G = Append(before, own)
  BY <1>1, TokenFollows
<1>3. /\ before \in Spans /\ Len(before) = m /\ b \in 0..Len(E)
      /\ \A i \in 1..b : LET t == E[i].token IN t \in 1..m /\ before[t].begin <= i /\ i < before[t].end
  <2>1. CASE D!Attaches(words) /\ D!EndsInSpace(E)
    <3>1. E # <<>> /\ b = Len(E) - 1 /\ Len(E) # 0
      BY <1>1, <2>1 DEF D!EndsInSpace, Leaves
    <3> DEFINE t == E[Len(E)].token
               less == [state.spans EXCEPT ![t].end = Len(E)]
    <3>2. before = less
      BY <2>1 DEF D!Shortened
    <3>3. t \in 1..Len(state.spans)
      <4>1. Len(E) \in 1..Len(E)
        BY <1>1, <3>1
      <4> QED
        BY <1>1, <4>1 DEF Within
    <3> HIDE DEF E, t, before, b
    <3>4. less \in Spans /\ Len(less) = Len(state.spans) /\ Within(D!Front(E), less)
      BY <1>1, <3>1, <3>3, SpanShortened DEF t
    <3> HIDE DEF less
    <3>5. Len(D!Front(E)) = Len(E) - 1 /\ \A i \in 1..Len(E) - 1 : D!Front(E)[i] = E[i]
      BY <1>1, <3>1, FrontOfCells
    <3>6. \A i \in 1..b : LET u == E[i].token IN u \in 1..m /\ less[u].begin <= i /\ i < less[u].end
      BY <1>1, <3>1, <3>4, <3>5 DEF Within
    <3>7. b \in 0..Len(E)
      BY <1>1, <3>1
    <3> QED
      BY <1>1, <3>2, <3>4, <3>6, <3>7
  <2>2. CASE ~(D!Attaches(words) /\ D!EndsInSpace(E))
    <3>1. before = state.spans /\ b = Len(E)
      BY <2>2 DEF D!Shortened, Leaves
    <3> HIDE DEF E, before, b
    <3>2. b \in 0..Len(E)
      BY <1>1, <3>1
    <3> QED
      BY <1>1, <3>1, <3>2 DEF Within
  <2> QED
    BY <2>1, <2>2
<1> HIDE DEF before, b, n, x
<1>4. n \in Nat /\ x \in {0, 1} /\ b \in Nat
  <2>1. D!Body(words) \in Seq(W)
    BY BodyIsWords
  <2> QED
    BY <1>1, <1>3, <2>1 DEF n, x, Widens
<1> HIDE DEF E, F, G
<1>5. /\ Len(F) = b + n + x /\ \A i \in 1..b : F[i] = E[i]
      /\ \A j \in 1..n : F[b + j].token = m + 1
      /\ x = 1 => F[b + n + 1].token = m + 1
  <2>1. \A j \in 1..n : F[b + j] = [word |-> D!Body(words)[j], token |-> m + 1, index |-> WordIndex(words, j)]
    BY <1>2 DEF Follows, b, n
  <2>2. Len(F) = b + n + x /\ \A i \in 1..b : F[i] = E[i]
    BY <1>2 DEF Follows, b, n, x
  <2>3. x = 1 => F[b + n + 1] = [word |-> D!Space, token |-> m + 1, index |-> 0]
    BY <1>2 DEF Follows, b, n, x, Widens
  <2>4. ASSUME NEW j \in 1..n PROVE F[b + j].token = m + 1
    <3>1. F[b + j] = [word |-> D!Body(words)[j], token |-> m + 1, index |-> WordIndex(words, j)]
      BY <2>1
    <3> QED
      BY <3>1
  <2>5. x = 1 => F[b + n + 1].token = m + 1
    BY <2>3
  <2> QED
    BY <2>2, <2>4, <2>5
<1>6. own \in [begin : Nat, end : Nat]
  BY <1>4, <1>5
<1>7. /\ G \in Spans /\ Len(G) = m + 1
      /\ \A t \in 1..m : G[t] = before[t]
      /\ G[m + 1].begin = b + 1 /\ G[m + 1].end = b + n + x + 1
  <2>1. own.begin = b + 1 /\ own.end = b + n + x + 1
    BY <1>5
  <2> HIDE DEF own
  <2>2. before \in Seq([begin : Nat, end : Nat]) /\ Len(before) = m
    BY <1>3 DEF Spans
  <2>3. /\ Append(before, own) \in Seq([begin : Nat, end : Nat]) /\ Len(Append(before, own)) = Len(before) + 1
        /\ \A t \in 1..Len(before) : Append(before, own)[t] = before[t]
        /\ Append(before, own)[Len(before) + 1] = own
    BY <1>6, <2>2, AppendProperties
  <2> QED
    BY <1>2, <2>1, <2>2, <2>3 DEF Spans
<1>8. ASSUME NEW i \in 1..b + n + x
      PROVE  F[i].token \in 1..m + 1 /\ G[F[i].token].begin <= i /\ i < G[F[i].token].end
  <2>1. CASE i <= b
    <3>1. i \in 1..b
      BY <1>4, <2>1
    <3> DEFINE t == E[i].token
    <3>2. F[i].token = t /\ t \in 1..m /\ before[t].begin <= i /\ i < before[t].end
      BY <1>3, <1>5, <3>1
    <3> HIDE DEF t
    <3> QED
      BY <1>7, <3>2
  <2>2. CASE b < i /\ i <= b + n
    <3>1. i - b \in 1..n /\ b + (i - b) = i
      BY <1>4, <2>2
    <3>2. F[i].token = m + 1
      BY <1>5, <3>1
    <3> QED
      BY <1>4, <1>7, <2>2, <3>2
  <2>3. CASE b + n < i
    <3>1. x = 1 /\ i = b + n + 1
      BY <1>4, <2>3
    <3> QED
      BY <1>4, <1>5, <1>7, <3>1
  <2> QED
    BY <1>4, <2>1, <2>2, <2>3
<1>9. Within(F, G)
  BY <1>5, <1>7, <1>8 DEF Within
<1> QED
  BY <1>2, <1>7, <1>9 DEF Spanned, F, G

(* A text, entry by entry.                                                 *)
NoText == [text |-> <<>>, pending |-> FALSE]
Reading(T, entries, seen) ==
  /\ seen[0] = NoText
  /\ \A n \in 1..Len(entries) : seen[n] = D!Visit(T, seen[n - 1], entries[n])

LEMMA TextStepwise ==
  ASSUME NEW T, NEW entries, Len(entries) \in Nat
  PROVE  \E seen : Reading(T, entries, seen) /\ D!TextOf(T, entries) = seen[Len(entries)].text
<1> DEFINE N == Len(entries)
           Turn(f, t) == IF t = 0 THEN [text |-> <<>>, pending |-> FALSE]
                         ELSE D!Visit(T, f[t - 1], entries[t])
           Upto(m) == \E f : f = [t \in 0..m |-> Turn(f, t)]
           seen == CHOOSE f : f = [t \in 0..N |-> Turn(f, t)]
<1>1. N \in Nat
  OBVIOUS
<1> HIDE DEF N
<1>2. Upto(N)
  <2> DEFINE U == {m \in 0..N : Upto(m)}
  <2>1. 0 \in U
    <3> DEFINE f == [t \in 0..0 |-> [text |-> <<>>, pending |-> FALSE]]
    <3>1. f = [t \in 0..0 |-> Turn(f, t)]
      OBVIOUS
    <3>2. Upto(0)
      BY <3>1
    <3> HIDE DEF Upto
    <3> QED
      BY <1>1, <3>2
  <2>2. ASSUME NEW m \in 1..N, m - 1 \in U PROVE m \in U
    <3>1. PICK f : f = [t \in 0..m - 1 |-> Turn(f, t)]
      BY <2>2
    <3> DEFINE g == [t \in 0..m |-> IF t = m THEN D!Visit(T, f[m - 1], entries[m]) ELSE f[t]]
    <3>2. ASSUME NEW t \in 0..m PROVE g[t] = Turn(g, t)
      <4>1. CASE t = m
        <5>1. g[t] = D!Visit(T, f[m - 1], entries[m]) /\ t # 0
          BY <4>1
        <5>2. m - 1 \in 0..m /\ m - 1 # m
          BY <1>1
        <5>3. g[t - 1] = f[m - 1]
          BY <4>1, <5>2
        <5> HIDE DEF g
        <5> QED
          BY <4>1, <5>1, <5>3
      <4>2. CASE t # m
        <5>1. t \in 0..m - 1 /\ g[t] = f[t]
          BY <4>2
        <5>2. t # 0 => t - 1 \in 0..m /\ t - 1 # m
          BY <4>2
        <5>3. t # 0 => g[t - 1] = f[t - 1]
          BY <5>2
        <5>4. f[t] = Turn(f, t)
          <6> HIDE DEF Turn
          <6> QED
            BY <3>1, <5>1
        <5> HIDE DEF g
        <5> QED
          BY <5>1, <5>3, <5>4
      <4> QED
        BY <4>1, <4>2
    <3>3. g = [t \in 0..m |-> Turn(g, t)]
      <4> HIDE DEF Turn
      <4> QED
        BY <3>2
    <3>4. Upto(m)
      <4> HIDE DEF g, Turn
      <4> QED
        BY <3>3
    <3> HIDE DEF Upto
    <3> QED
      BY <1>1, <3>4
  <2>3. \A n \in 0..N : n \in U
    <3> HIDE DEF U
    <3> QED
      BY <1>1, <2>1, <2>2, Upwards
  <2> HIDE DEF Upto
  <2> QED
    BY <1>1, <2>3
<1>3. seen = [t \in 0..N |-> Turn(seen, t)]
  <2> HIDE DEF Turn
  <2> QED
    BY <1>2
<1>4. \A t \in 0..N : seen[t] = Turn(seen, t)
  <2> HIDE DEF seen, Turn
  <2> QED
    BY <1>3
<1>5. D!TextOf(T, entries) = seen[N].text
  BY DEF D!TextOf, N
<1>6. Reading(T, entries, seen)
  <2> HIDE DEF seen
  <2>1. 0 \in 0..N /\ \A t \in 1..N : t \in 0..N /\ t # 0
    BY <1>1
  <2>2. seen[0] = NoText
    BY <1>4, <2>1 DEF NoText
  <2>3. \A t \in 1..N : seen[t] = D!Visit(T, seen[t - 1], entries[t])
    BY <1>4, <2>1
  <2> QED
    BY <2>2, <2>3 DEF Reading, N
<1> QED
  BY <1>5, <1>6 DEF N

(* A space at the end of a text is trimmed away.                           *)
LEMMA TrimmedSpace ==
  ASSUME NEW W, D!Space \in W, NEW text \in Seq(W)
  PROVE  D!Trimmed(Append(text, D!Space)) = D!Trimmed(text)
<1> DEFINE Ink(s) == {i \in DOMAIN s : s[i] # D!Space}
           Tip(s) == CHOOSE i \in Ink(s) : \A j \in Ink(s) : j <= i
           longer == Append(text, D!Space)
           n == Len(text)
<1>1. \A s : D!Trimmed(s) = IF Ink(s) = {} THEN <<>> ELSE SubSeq(s, 1, Tip(s))
  BY DEF D!Trimmed
<1>2. n \in Nat /\ DOMAIN text = 1..n
  OBVIOUS
<1>3. /\ longer \in Seq(W) /\ Len(longer) = n + 1
      /\ \A i \in 1..n : longer[i] = text[i]
      /\ longer[n + 1] = D!Space
  BY AppendProperties
<1> HIDE DEF longer, n
<1>4. DOMAIN longer = 1..n + 1
  BY <1>3
<1>5. Ink(longer) = Ink(text)
  <2>1. \A i \in 1..n + 1 : i \in 1..n \/ i = n + 1
    BY <1>2
  <2>2. \A i \in 1..n : i \in 1..n + 1
    BY <1>2
  <2> QED
    BY <1>2, <1>3, <1>4, <2>1, <2>2
<1>6. ASSUME Ink(text) # {}
      PROVE  SubSeq(longer, 1, Tip(longer)) = SubSeq(text, 1, Tip(text))
  <2>1. Ink(text) \subseteq 1..n
    BY <1>2
  <2>2. PICK x \in Ink(text) : \A y \in Ink(text) : y <= x
    <3> HIDE DEF Ink
    <3> QED
      BY <1>2, <1>6, <2>1, GreatestExists
  <2> DEFINE m == Tip(text)
  <2>3. m = Tip(longer)
    <3> HIDE DEF Ink
    <3> QED
      BY <1>5
  <2>4. m \in 1..n
    <3>1. m \in Ink(text)
      <4> HIDE DEF Ink
      <4> QED
        BY <2>2
    <3> QED
      BY <2>1, <3>1
  <2> HIDE DEF m, Tip, Ink
  <2>5. \A i \in 1..m : i \in 1..n /\ text[i] \in W /\ longer[i] = text[i] /\ longer[i] \in W
    <3>1. \A i \in 1..m : i \in 1..n
      BY <1>2, <2>4
    <3> QED
      BY <1>2, <1>3, <3>1
  <2>6. \A i \in 1..m : i \in 1..m - 1 + 1 /\ 1 + i - 1 = i
    BY <1>2, <2>4
  <2>7. /\ SubSeq(text, 1, m) \in Seq(W) /\ Len(SubSeq(text, 1, m)) = m
        /\ \A i \in 1..m : SubSeq(text, 1, m)[i] = text[i]
    BY <1>2, <2>4, <2>5, <2>6, SubSeqProperties
  <2>8. /\ SubSeq(longer, 1, m) \in Seq(W) /\ Len(SubSeq(longer, 1, m)) = m
        /\ \A i \in 1..m : SubSeq(longer, 1, m)[i] = longer[i]
    BY <1>2, <2>4, <2>5, <2>6, SubSeqProperties
  <2>9. SubSeq(longer, 1, m) = SubSeq(text, 1, m)
    BY <2>5, <2>7, <2>8, SeqEqual
  <2> QED
    BY <2>3, <2>9 DEF m
<1> QED
  <2> HIDE DEF Ink, Tip
  <2> QED
    BY <1>1, <1>5, <1>6 DEF longer

(* What one entry gives to a text.                                         *)
LEMMA VisitIs ==
  ASSUME NEW W, D!Space \in W, NEW T, NEW state, state.text \in Seq(W), NEW e \in Cell(W)
  PROVE  LET after == D!Visit(T, state, e)
         IN  /\ after.text \in Seq(W)
             /\ e.index = 0 => after.text = state.text
             /\ e.token \notin T => after.text = state.text
             /\ e.word = D!Space => D!Trimmed(after.text) = D!Trimmed(state.text)
<1> DEFINE after == D!Visit(T, state, e)
           gap == IF state.pending THEN <<D!Space>> ELSE <<>>
           spaced == state.text \o gap
<1>0. e.word \in W
  BY DEF Cell
<1>1. CASE e.index = 0
  <2>1. after.text = state.text
    BY <1>1 DEF D!Visit
  <2> QED
    BY <2>1
<1>2. CASE e.index # 0 /\ e.token \notin T
  <2>1. after.text = state.text
    BY <1>2 DEF D!Visit
  <2> QED
    BY <2>1
<1>3. CASE e.index # 0 /\ e.token \in T
  <2>1. after.text = spaced \o <<e.word>>
    BY <1>3 DEF D!Visit
  <2>2. spaced \in Seq(W) /\ D!Trimmed(spaced) = D!Trimmed(state.text)
    <3>1. CASE state.pending
      <4>1. spaced = Append(state.text, D!Space)
        BY <3>1, AppendIsConcat
      <4>2. Append(state.text, D!Space) \in Seq(W)
        OBVIOUS
      <4> QED
        BY <4>1, <4>2, TrimmedSpace
    <3>2. CASE ~state.pending
      <4>1. spaced = state.text
        BY <3>2, ConcatEmptySeq
      <4> QED
        BY <4>1
    <3> QED
      BY <3>1, <3>2
  <2> HIDE DEF spaced, after
  <2>3. after.text = Append(spaced, e.word)
    BY <1>0, <2>1, <2>2, AppendIsConcat
  <2>4. Append(spaced, e.word) \in Seq(W)
    BY <1>0, <2>2
  <2>5. e.word = D!Space => D!Trimmed(after.text) = D!Trimmed(state.text)
    BY <2>2, <2>3, TrimmedSpace
  <2> QED
    BY <1>3, <2>3, <2>4, <2>5 DEF after
<1> QED
  BY <1>1, <1>2, <1>3

LEMMA ReadingIsText ==
  ASSUME NEW W, D!Space \in W, NEW T, NEW entries \in Seq(Cell(W)), NEW seen, Reading(T, entries, seen)
  PROVE  \A n \in 0..Len(entries) : seen[n].text \in Seq(W)
<1> DEFINE N == Len(entries)
           Held == {n \in 0..N : seen[n].text \in Seq(W)}
<1>1. N \in Nat /\ seen[0].text = <<>>
  BY DEF Reading, NoText
<1>2. 0 \in Held
  <2>1. <<>> \in Seq(W) /\ 0 \in 0..N
    BY <1>1
  <2> HIDE DEF N
  <2> QED
    BY <1>1, <2>1
<1>3. ASSUME NEW n \in 1..N, n - 1 \in Held PROVE n \in Held
  <2>1. seen[n] = D!Visit(T, seen[n - 1], entries[n]) /\ entries[n] \in Cell(W)
    BY DEF Reading
  <2>2. seen[n].text \in Seq(W)
    BY <1>3, <2>1, VisitIs
  <2> QED
    BY <1>1, <2>2
<1>4. \A n \in 0..N : n \in Held
  <2> HIDE DEF Held, N
  <2> QED
    BY <1>1, <1>2, <1>3, Upwards
<1> QED
  BY <1>4

(* Two lines that begin alike, of which one goes on with spaces and the    *)
(* other with what is none of the line's.                                  *)
LEMMA TextTrimmed ==
  ASSUME NEW W, D!Space \in W, NEW T, NEW entries \in Seq(Cell(W)), NEW after \in Seq(Cell(W)),
         NEW b \in 0..Len(entries), b <= Len(after),
         \A i \in 1..b : after[i] = entries[i],
         \A i \in b + 1..Len(entries) : entries[i].word = D!Space,
         \A i \in b + 1..Len(after) : after[i].index = 0 \/ after[i].token \notin T
  PROVE  D!Trimmed(D!TextOf(T, after)) = D!Trimmed(D!TextOf(T, entries))
<1> DEFINE N == Len(entries)
           M == Len(after)
<1>1. N \in Nat /\ M \in Nat /\ b \in Nat /\ b <= N /\ b <= M
  OBVIOUS
<1>2. PICK seen : Reading(T, entries, seen) /\ D!TextOf(T, entries) = seen[N].text
  BY TextStepwise
<1>3. PICK told : Reading(T, after, told) /\ D!TextOf(T, after) = told[M].text
  BY TextStepwise
<1>4. /\ \A n \in 0..N : seen[n].text \in Seq(W)
      /\ \A n \in 0..M : told[n].text \in Seq(W)
  BY <1>2, <1>3, ReadingIsText
<1>5. /\ \A n \in 1..N : entries[n] \in Cell(W)
      /\ \A n \in 1..M : after[n] \in Cell(W)
  OBVIOUS
<1> HIDE DEF N, M
<1>6. seen[b] = told[b]
  <2> DEFINE Held == {n \in 0..b : seen[n] = told[n]}
  <2>1. 0 \in Held
    BY <1>1, <1>2, <1>3 DEF Reading
  <2>2. ASSUME NEW n \in 1..b, n - 1 \in Held PROVE n \in Held
    <3>1. n \in 1..N /\ n \in 1..M /\ n \in 0..b
      BY <1>1
    <3>2. /\ seen[n] = D!Visit(T, seen[n - 1], entries[n])
          /\ told[n] = D!Visit(T, told[n - 1], after[n])
      BY <1>2, <1>3, <3>1 DEF Reading, N, M
    <3> QED
      BY <2>2, <3>1, <3>2
  <2>3. \A n \in 0..b : n \in Held
    <3> HIDE DEF Held
    <3> QED
      BY <1>1, <2>1, <2>2, Upwards
  <2> QED
    BY <1>1, <2>3
<1>7. D!Trimmed(seen[N].text) = D!Trimmed(seen[b].text)
  <2> DEFINE Held == {d \in 0..N - b : D!Trimmed(seen[b + d].text) = D!Trimmed(seen[b].text)}
  <2>1. 0 \in Held /\ N - b \in Nat
    BY <1>1
  <2>2. ASSUME NEW d \in 1..N - b, d - 1 \in Held PROVE d \in Held
    <3>1. b + d \in 1..N /\ b + d \in b + 1..N /\ b + (d - 1) = (b + d) - 1 /\ (b + d) - 1 \in 0..N /\ d \in 0..N - b
      BY <1>1
    <3> DEFINE n == b + d
    <3>2. seen[n] = D!Visit(T, seen[n - 1], entries[n]) /\ entries[n].word = D!Space
      BY <1>2, <3>1 DEF Reading, N
    <3>3. D!Trimmed(seen[n].text) = D!Trimmed(seen[n - 1].text)
      BY <1>4, <1>5, <3>1, <3>2, VisitIs
    <3> QED
      BY <2>2, <3>1, <3>3
  <2>3. \A d \in 0..N - b : d \in Held
    <3> HIDE DEF Held
    <3> QED
      BY <2>1, <2>2, Upwards
  <2>4. N - b \in Held /\ b + (N - b) = N
    BY <1>1, <2>3
  <2> QED
    BY <2>4
<1>8. told[M].text = told[b].text
  <2> DEFINE Held == {d \in 0..M - b : told[b + d].text = told[b].text}
  <2>1. 0 \in Held /\ M - b \in Nat
    BY <1>1
  <2>2. ASSUME NEW d \in 1..M - b, d - 1 \in Held PROVE d \in Held
    <3>1. b + d \in 1..M /\ b + d \in b + 1..M /\ b + (d - 1) = (b + d) - 1 /\ (b + d) - 1 \in 0..M /\ d \in 0..M - b
      BY <1>1
    <3> DEFINE n == b + d
    <3>2. told[n] = D!Visit(T, told[n - 1], after[n]) /\ (after[n].index = 0 \/ after[n].token \notin T)
      BY <1>3, <3>1 DEF Reading, M
    <3>3. told[n].text = told[n - 1].text
      BY <1>4, <1>5, <3>1, <3>2, VisitIs
    <3> QED
      BY <2>2, <3>1, <3>3
  <2>3. \A d \in 0..M - b : d \in Held
    <3> HIDE DEF Held
    <3> QED
      BY <2>1, <2>2, Upwards
  <2>4. M - b \in Held /\ b + (M - b) = M
    BY <1>1, <2>3
  <2> QED
    BY <2>4
<1> QED
  BY <1>2, <1>3, <1>6, <1>7, <1>8

(* Two lines that agree word for word after what is none of either's.      *)
Alike(entries, T, p, others, S, q) ==
  /\ p \in 0..Len(entries) /\ q \in 0..Len(others) /\ Len(entries) - p = Len(others) - q
  /\ \A i \in 1..p : entries[i].token \notin T
  /\ \A i \in 1..q : others[i].token \notin S
  /\ \A i \in 1..Len(entries) - p :
       /\ entries[p + i].word = others[q + i].word /\ entries[p + i].index = others[q + i].index
       /\ entries[p + i].token \in T /\ others[q + i].token \in S

LEMMA NothingBefore ==
  ASSUME NEW T, NEW entries, NEW p \in 0..Len(entries), Len(entries) \in Nat,
         \A i \in 1..p : entries[i].token \notin T,
         NEW seen, Reading(T, entries, seen)
  PROVE  seen[p] = NoText
<1> DEFINE Held == {n \in 0..p : seen[n] = NoText}
<1>1. 0 \in Held /\ p \in Nat
  BY DEF Reading
<1>2. ASSUME NEW n \in 1..p, n - 1 \in Held PROVE n \in Held
  <2>1. seen[n] = D!Visit(T, NoText, entries[n]) /\ entries[n].token \notin T /\ n \in 0..p
    BY <1>1, <1>2 DEF Reading
  <2>2. D!Visit(T, NoText, entries[n]) = NoText
    BY <2>1 DEF D!Visit, NoText
  <2> QED
    BY <2>1, <2>2
<1>3. \A n \in 0..p : n \in Held
  <2> HIDE DEF Held
  <2> QED
    BY <1>1, <1>2, Upwards
<1> QED
  BY <1>1, <1>3

LEMMA TextAlike ==
  ASSUME NEW T, NEW S, NEW entries, NEW others, Len(entries) \in Nat, Len(others) \in Nat,
         NEW p, NEW q, Alike(entries, T, p, others, S, q)
  PROVE  D!TextOf(T, entries) = D!TextOf(S, others)
<1> DEFINE N == Len(entries)
           M == Len(others)
<1>1. N \in Nat /\ M \in Nat /\ p \in 0..N /\ q \in 0..M /\ N - p = M - q
  BY DEF Alike
<1>2. PICK seen : Reading(T, entries, seen) /\ D!TextOf(T, entries) = seen[N].text
  BY TextStepwise
<1>3. PICK told : Reading(S, others, told) /\ D!TextOf(S, others) = told[M].text
  BY TextStepwise
<1>4. seen[p] = NoText /\ told[q] = NoText
  <2>1. \A i \in 1..p : entries[i].token \notin T
    BY DEF Alike
  <2>2. \A i \in 1..q : others[i].token \notin S
    BY DEF Alike
  <2>3. seen[p] = NoText
    BY <1>1, <1>2, <2>1, NothingBefore
  <2>4. told[q] = NoText
    BY <1>1, <1>3, <2>2, NothingBefore
  <2> QED
    BY <2>3, <2>4
<1> HIDE DEF N, M
<1> DEFINE Held == {n \in 0..N - p : seen[p + n] = told[q + n]}
<1>5. 0 \in Held /\ N - p \in Nat
  BY <1>1, <1>4
<1>6. ASSUME NEW n \in 1..N - p, n - 1 \in Held PROVE n \in Held
  <2>1. p + n \in 1..N /\ q + n \in 1..M /\ p + (n - 1) = (p + n) - 1 /\ q + (n - 1) = (q + n) - 1 /\ n \in 0..N - p
    BY <1>1
  <2> DEFINE e == entries[p + n]
             f == others[q + n]
             state == seen[p + n - 1]
  <2>2. seen[p + n] = D!Visit(T, seen[p + n - 1], e) /\ told[q + n] = D!Visit(S, told[q + n - 1], f)
    BY <1>2, <1>3, <2>1 DEF Reading, N, M
  <2>3. e.word = f.word /\ e.index = f.index /\ e.token \in T /\ f.token \in S
    BY DEF Alike, N
  <2>4. told[q + n - 1] = state
    BY <1>6, <2>1
  <2> HIDE DEF e, f, state
  <2>5. D!Visit(T, state, e) = D!Visit(S, state, f)
    BY <2>3 DEF D!Visit
  <2> QED
    BY <2>1, <2>2, <2>4, <2>5 DEF state
<1>7. \A n \in 0..N - p : n \in Held
  <2> HIDE DEF Held
  <2> QED
    BY <1>5, <1>6, Upwards
<1>8. N - p \in Held /\ p + (N - p) = N /\ q + (N - p) = M
  BY <1>1, <1>7
<1> QED
  BY <1>2, <1>3, <1>8

(* A line with its neighbours, and alone.                                  *)
LEMMA LeavesMost ==
  ASSUME NEW W, NEW entries \in Seq(Cell(W)), NEW words \in Seq(W)
  PROVE  /\ Leaves(entries, words) \in Nat /\ Len(D!Body(words)) \in Nat
         /\ Widens(entries, words) \in {0, 1}
         /\ \/ Leaves(entries, words) = Len(entries)
            \/ /\ Leaves(entries, words) = Len(entries) - 1 /\ entries # <<>> /\ D!Attaches(words)
               /\ entries[Len(entries)].word = D!Space
<1>1. Len(entries) \in Nat /\ (entries # <<>> => Len(entries) # 0)
  OBVIOUS
<1>2. D!Body(words) \in Seq(W)
  BY BodyIsWords
<1>3. CASE D!Attaches(words) /\ D!EndsInSpace(entries)
  BY <1>1, <1>2, <1>3 DEF Leaves, Widens, D!EndsInSpace
<1>4. CASE ~(D!Attaches(words) /\ D!EndsInSpace(entries))
  BY <1>1, <1>2, <1>4 DEF Leaves, Widens
<1> QED
  BY <1>3, <1>4

LEMMA AlikeGoesOn ==
  ASSUME NEW W, NEW words \in Seq(W), NEW T, NEW S, NEW t \in T, NEW u \in S,
         NEW E \in Seq(Cell(W)), NEW F \in Seq(Cell(W)), Follows(F, E, t, words),
         NEW A \in Seq(Cell(W)), NEW B \in Seq(Cell(W)), Follows(B, A, u, words),
         NEW p, NEW q, Alike(E, T, p, A, S, q),
         A # <<>>, A[1].word # D!Space, D!Attaches(words) => E # <<>>
  PROVE  /\ \E x, y : Alike(F, T, x, B, S, y)
         /\ B # <<>> /\ B[1].word # D!Space
<1> DEFINE e == Leaves(E, words)
           a == Leaves(A, words)
           n == Len(D!Body(words))
           w == Widens(E, words)
           LE == Len(E)
           LA == Len(A)
           LF == Len(F)
           LB == Len(B)
           cut == D!Attaches(words)
<1>1. LE \in Nat /\ LA \in Nat /\ LF \in Nat /\ LB \in Nat /\ LA # 0 /\ (cut => LE # 0)
  OBVIOUS
<1>2. /\ e \in Nat /\ a \in Nat /\ n \in Nat /\ w \in {0, 1}
      /\ e = LE \/ (e = LE - 1 /\ cut /\ LE # 0 /\ E[LE].word = D!Space)
      /\ a = LA \/ (a = LA - 1 /\ cut /\ A[LA].word = D!Space)
  <2>1. /\ e \in Nat /\ n \in Nat /\ w \in {0, 1}
        /\ e = LE \/ (e = LE - 1 /\ cut /\ E # <<>> /\ E[LE].word = D!Space)
    BY LeavesMost
  <2>2. a \in Nat /\ (a = LA \/ (a = LA - 1 /\ cut /\ A[LA].word = D!Space))
    BY LeavesMost
  <2>3. E # <<>> => LE # 0
    OBVIOUS
  <2> HIDE DEF e, a, n, w, LE, LA, cut
  <2> QED
    BY <2>1, <2>2, <2>3
<1>3. Widens(A, words) = w
  <2>1. cut => (E # <<>> <=> A # <<>>)
    OBVIOUS
  <2>2. EndsItself(E, words) <=> EndsItself(A, words)
    BY <2>1 DEF EndsItself
  <2> QED
    BY <2>2 DEF Widens
<1>4. /\ cut /\ LE # 0 /\ E[LE].word = D!Space => e = LE - 1
      /\ cut /\ A[LA].word = D!Space => a = LA - 1
  <2>1. E = <<>> => LE = 0
    OBVIOUS
  <2> QED
    BY <2>1 DEF Leaves, D!EndsInSpace
<1>5. /\ p \in 0..LE /\ q \in 0..LA /\ LE - p = LA - q
      /\ \A i \in 1..p : E[i].token \notin T
      /\ \A i \in 1..q : A[i].token \notin S
      /\ \A i \in 1..LE - p :
           /\ E[p + i].word = A[q + i].word /\ E[p + i].index = A[q + i].index
           /\ E[p + i].token \in T /\ A[q + i].token \in S
  BY DEF Alike
<1>6. /\ LF = e + n + w /\ \A i \in 1..e : F[i] = E[i]
      /\ \A j \in 1..n : F[e + j] = [word |-> D!Body(words)[j], token |-> t, index |-> WordIndex(words, j)]
      /\ w = 1 => F[e + n + 1] = [word |-> D!Space, token |-> t, index |-> 0]
  BY DEF Follows, Widens
<1>7. /\ LB = a + n + w /\ \A i \in 1..a : B[i] = A[i]
      /\ \A j \in 1..n : B[a + j] = [word |-> D!Body(words)[j], token |-> u, index |-> WordIndex(words, j)]
      /\ w = 1 => B[a + n + 1] = [word |-> D!Space, token |-> u, index |-> 0]
  BY <1>3 DEF Follows, Widens
<1> HIDE DEF e, a, n, w, LE, LA, LF, LB, cut
<1>8. a >= 1 /\ LB >= 1 /\ B[1] = A[1]
  <2>1. LA = 1 => a = LA
    BY <1>2
  <2>2. a >= 1
    BY <1>1, <1>2, <2>1
  <2>3. 1 \in 1..a /\ LB >= 1
    BY <1>2, <1>7, <2>2
  <2> QED
    BY <1>7, <2>2, <2>3
<1>9. B # <<>> /\ B[1].word # D!Space
  BY <1>8 DEF LB
<1> DEFINE x == IF p <= e THEN p ELSE e
           y == IF q <= a THEN q ELSE a
<1>10. x \in Nat /\ y \in Nat /\ x <= p /\ y <= q /\ x <= e /\ y <= a /\ e - x = a - y /\ (e # x => x = p /\ y = q)
  <2>1. CASE LE = p
    <3>1. LA = q
      BY <1>1, <1>5, <2>1
    <3>2. x = e /\ y = a
      BY <1>1, <1>2, <2>1, <3>1
    <3> QED
      BY <1>1, <1>2, <2>1, <3>1, <3>2
  <2>2. CASE LE # p
    <3>1. LE - p \in 1..LE - p /\ p + (LE - p) = LE /\ q + (LE - p) = LA /\ LE - p \in Nat /\ LE > p /\ LA > q
      BY <1>1, <1>5, <2>2
    <3>2. E[LE].word = A[LA].word
      BY <1>5, <3>1
    <3>3. (e = LE /\ a = LA) \/ (e = LE - 1 /\ a = LA - 1)
      BY <1>1, <1>2, <1>4, <3>2
    <3>4. p <= e /\ q <= a /\ p \in Nat /\ q \in Nat
      BY <1>1, <1>5, <3>1, <3>3
    <3>5. e - p = a - q
      BY <1>1, <1>5, <3>3
    <3> QED
      BY <3>4, <3>5
  <2> QED
    BY <2>1, <2>2
<1> HIDE DEF x, y
<1>11. x \in 0..LF /\ y \in 0..LB /\ LF - x = LB - y
  BY <1>2, <1>6, <1>7, <1>10
<1>12. \A i \in 1..x : F[i].token \notin T
  <2>1. \A i \in 1..x : i \in 1..e /\ i \in 1..p
    BY <1>2, <1>5, <1>10
  <2> QED
    BY <1>5, <1>6, <2>1
<1>13. \A i \in 1..y : B[i].token \notin S
  <2>1. \A i \in 1..y : i \in 1..a /\ i \in 1..q
    BY <1>2, <1>5, <1>10
  <2> QED
    BY <1>5, <1>7, <2>1
<1>14. ASSUME NEW i \in 1..LF - x
       PROVE  /\ F[x + i].word = B[y + i].word /\ F[x + i].index = B[y + i].index
              /\ F[x + i].token \in T /\ B[y + i].token \in S
  <2>0. i \in Nat /\ i >= 1 /\ i <= LF - x
    BY <1>1, <1>10
  <2>1. CASE x + i <= e
    <3>1. x = p /\ y = q /\ x + i \in 1..e /\ y + i \in 1..a /\ i \in 1..LE - p
      BY <1>1, <1>2, <1>5, <1>10, <2>0, <2>1
    <3>2. F[x + i] = E[p + i] /\ B[y + i] = A[q + i]
      BY <1>6, <1>7, <3>1
    <3> QED
      BY <1>5, <3>1, <3>2
  <2>2. CASE e < x + i /\ x + i <= e + n
    <3> DEFINE j == x + i - e
    <3>1. j \in 1..n /\ e + j = x + i /\ a + j = y + i
      BY <1>2, <1>10, <2>0, <2>2
    <3> HIDE DEF j
    <3>2. /\ F[x + i] = [word |-> D!Body(words)[j], token |-> t, index |-> WordIndex(words, j)]
          /\ B[y + i] = [word |-> D!Body(words)[j], token |-> u, index |-> WordIndex(words, j)]
      BY <1>6, <1>7, <3>1
    <3> QED
      BY <3>2
  <2>3. CASE e + n < x + i
    <3>1. w = 1 /\ x + i = e + n + 1 /\ y + i = a + n + 1
      BY <1>2, <1>6, <1>10, <2>0, <2>3
    <3>2. /\ F[x + i] = [word |-> D!Space, token |-> t, index |-> 0]
          /\ B[y + i] = [word |-> D!Space, token |-> u, index |-> 0]
      BY <1>6, <1>7, <3>1
    <3> QED
      BY <3>2
  <2> QED
    BY <1>2, <1>10, <2>0, <2>1, <2>2, <2>3
<1>15. Alike(F, T, x, B, S, y)
  BY <1>11, <1>12, <1>13, <1>14 DEF Alike, LF, LB
<1> QED
  BY <1>9, <1>15

(* Ink is never taken back.                                                *)
HasInk(entries) == \E i \in 1..Len(entries) : entries[i].word # D!Space

LEMMA InkStays ==
  ASSUME NEW W, NEW words \in Seq(W), NEW t, NEW E \in Seq(Cell(W)), NEW F \in Seq(Cell(W)),
         Follows(F, E, t, words), HasInk(E) \/ D!Inked(words)
  PROVE  HasInk(F)
<1> DEFINE b == Leaves(E, words)
           n == Len(D!Body(words))
<1>1. /\ b \in Nat /\ n \in Nat /\ Widens(E, words) \in {0, 1}
      /\ b = Len(E) \/ (b = Len(E) - 1 /\ E[Len(E)].word = D!Space)
  BY LeavesMost
<1>2. /\ Len(F) = b + n + Widens(E, words)
      /\ \A i \in 1..b : F[i] = E[i]
      /\ \A j \in 1..n : F[b + j] = [word |-> D!Body(words)[j], token |-> t, index |-> WordIndex(words, j)]
  BY DEF Follows
<1>3. D!Body(words) \in Seq(W) /\ Len(E) \in Nat
  BY BodyIsWords
<1>4. DOMAIN D!Body(words) = 1..n
  BY <1>3
<1> HIDE DEF b, n
<1>5. CASE HasInk(E)
  <2>1. PICK i \in 1..Len(E) : E[i].word # D!Space
    BY <1>5 DEF HasInk
  <2>2. i \in 1..b /\ i \in 1..Len(F)
    BY <1>1, <1>2, <1>3, <2>1
  <2> QED
    BY <1>2, <2>1, <2>2 DEF HasInk
<1>6. CASE D!Inked(words)
  <2>1. PICK j \in 1..n : D!Body(words)[j] # D!Space
    BY <1>4, <1>6 DEF D!Inked
  <2>2. F[b + j].word = D!Body(words)[j]
    <3>1. F[b + j] = [word |-> D!Body(words)[j], token |-> t, index |-> WordIndex(words, j)]
      BY <1>2
    <3> QED
      BY <3>1
  <2>3. b + j \in 1..Len(F)
    BY <1>1, <1>2
  <2> QED
    BY <2>1, <2>2, <2>3 DEF HasInk
<1> QED
  BY <1>5, <1>6

(* What follows a line leaves its text alone.                              *)
LEMMA TextPassed ==
  ASSUME NEW W, D!Space \in W, NEW words \in Seq(W), NEW T, NEW t, t \notin T,
         NEW E \in Seq(Cell(W)), NEW F \in Seq(Cell(W)), Follows(F, E, t, words)
  PROVE  D!Trimmed(D!TextOf(T, F)) = D!Trimmed(D!TextOf(T, E))
<1> DEFINE b == Leaves(E, words)
           n == Len(D!Body(words))
           x == Widens(E, words)
<1>1. /\ b \in Nat /\ n \in Nat /\ x \in {0, 1}
      /\ b = Len(E) \/ (b = Len(E) - 1 /\ E[Len(E)].word = D!Space)
  BY LeavesMost
<1>2. /\ Len(F) = b + n + x
      /\ \A i \in 1..b : F[i] = E[i]
      /\ \A j \in 1..n : F[b + j] = [word |-> D!Body(words)[j], token |-> t, index |-> WordIndex(words, j)]
      /\ x = 1 => F[b + n + 1] = [word |-> D!Space, token |-> t, index |-> 0]
  BY DEF Follows, Widens
<1>3. Len(E) \in Nat /\ Len(F) \in Nat
  OBVIOUS
<1> HIDE DEF b, n, x
<1>4. b \in 0..Len(E) /\ b <= Len(F)
  BY <1>1, <1>2, <1>3
<1>5. \A i \in b + 1..Len(E) : E[i].word = D!Space
  <2>1. \A i \in b + 1..Len(E) : b = Len(E) - 1 /\ i = Len(E)
    BY <1>1, <1>3
  <2> QED
    BY <1>1, <1>3, <2>1
<1>6. ASSUME NEW i \in b + 1..Len(F) PROVE F[i].index = 0 \/ F[i].token \notin T
  <2>1. CASE i <= b + n
    <3> DEFINE j == i - b
    <3>1. j \in 1..n /\ b + j = i
      BY <1>1, <1>3, <2>1
    <3> HIDE DEF j
    <3>2. F[i] = [word |-> D!Body(words)[j], token |-> t, index |-> WordIndex(words, j)]
      BY <1>2, <3>1
    <3> QED
      BY <3>2
  <2>2. CASE ~(i <= b + n)
    <3>1. x = 1 /\ i = b + n + 1
      BY <1>1, <1>2, <1>3, <2>2
    <3> QED
      BY <1>2, <3>1
  <2> QED
    BY <2>1, <2>2
<1> QED
  BY <1>2, <1>4, <1>5, <1>6, TextTrimmed

LEMMA AssemblingSpanned ==
  ASSUME NEW W, D!Space \in W, NEW tokens \in Seq(Seq(W)), NEW made, Assembling(tokens, made)
  PROVE  \A m \in 0..Len(tokens) : Spanned(made[m], W, m)
<1> DEFINE N == Len(tokens)
           Held == {m \in 0..N : Spanned(made[m], W, m)}
<1>1. N \in Nat /\ \A m \in 1..N : tokens[m] \in Seq(W)
  OBVIOUS
<1>2. 0 \in Held
  <2>1. made[0] = [entries |-> <<>>, wide |-> 2, spans |-> <<>>]
    BY DEF Assembling
  <2>2. <<>> \in Seq(Cell(W)) /\ <<>> \in Spans /\ Len(<<>>) = 0
    BY DEF Spans
  <2>3. Spanned(made[0], W, 0)
    BY <2>1, <2>2 DEF Spanned, Within
  <2>4. 0 \in 0..N
    BY <1>1
  <2> HIDE DEF N
  <2> QED
    BY <2>3, <2>4
<1>3. ASSUME NEW m \in 1..N, m - 1 \in Held PROVE m \in Held
  <2>1. made[m] = D!AssembleToken(made[m - 1], m, tokens[m])
    BY DEF Assembling
  <2>2. m - 1 \in Nat /\ (m - 1) + 1 = m /\ m \in 0..N
    BY <1>1
  <2> DEFINE k == m - 1
  <2>3. k \in Nat /\ k + 1 = m /\ Spanned(made[k], W, k)
    BY <1>3, <2>2
  <2> HIDE DEF k
  <2>4. Spanned(D!AssembleToken(made[k], k + 1, tokens[m]), W, k + 1)
    BY <1>1, <2>3, TokenSpanned
  <2>5. made[m] = D!AssembleToken(made[k], k + 1, tokens[m])
    BY <2>1, <2>3 DEF k
  <2> QED
    BY <2>2, <2>3, <2>4, <2>5
<1>4. \A m \in 0..N : m \in Held
  <2> HIDE DEF Held, N
  <2> QED
    BY <1>1, <1>2, <1>3, Upwards
<1> QED
  BY <1>4

(* A step of the assembly, in terms of its entries.                        *)
LEMMA AssemblingFollows ==
  ASSUME NEW W, D!Space \in W, NEW tokens \in Seq(Seq(W)), NEW made, Assembling(tokens, made),
         NEW m \in 1..Len(tokens)
  PROVE  /\ made[m - 1].entries \in Seq(Cell(W)) /\ made[m].entries \in Seq(Cell(W))
         /\ Follows(made[m].entries, made[m - 1].entries, m, tokens[m])
         /\ made[m].wide # 2 => ~EndsItself(made[m - 1].entries, tokens[m])
<1>1. m - 1 \in 0..Len(tokens) /\ m \in 0..Len(tokens) /\ m \in Nat /\ tokens[m] \in Seq(W)
  OBVIOUS
<1>2. made[m - 1].entries \in Seq(Cell(W)) /\ made[m].entries \in Seq(Cell(W))
  BY <1>1, AssemblingSpanned DEF Spanned
<1>3. made[m] = D!AssembleToken(made[m - 1], m, tokens[m])
  BY DEF Assembling
<1> QED
  BY <1>1, <1>2, <1>3, TokenFollows

(* The space after the last token.                                         *)
LEMMA TextClosed ==
  ASSUME NEW W, D!Space \in W, NEW tokens \in Seq(Seq(W)), tokens # <<>>, NEW made, Assembling(tokens, made), NEW T
  PROVE  D!Trimmed(D!TextOf(T, Closed(Len(tokens), made[Len(tokens)]).entries)) =
         D!Trimmed(D!TextOf(T, made[Len(tokens)].entries))
<1> DEFINE N == Len(tokens)
           F == made[N].entries
           E == made[N - 1].entries
           b == Leaves(E, tokens[N])
           n == Len(D!Body(tokens[N]))
<1>1. N \in 1..Len(tokens) /\ tokens[N] \in Seq(W)
  <2>1. N \in Nat /\ N # 0
    OBVIOUS
  <2> QED
    BY <2>1
<1>2. /\ E \in Seq(Cell(W)) /\ F \in Seq(Cell(W)) /\ Follows(F, E, N, tokens[N])
      /\ made[N].wide # 2 => ~EndsItself(E, tokens[N])
  <2> HIDE DEF N
  <2> QED
    BY <1>1, AssemblingFollows
<1>3. CASE Len(F) > 1 /\ made[N].wide # 2
  <2>1. Closed(N, made[N]).entries = D!Front(F)
    BY <1>3 DEF Closed
  <2> HIDE DEF F, E
  <2>2. F # <<>> /\ Len(F) \in Nat
    BY <1>2, <1>3
  <2>3. /\ D!Front(F) \in Seq(Cell(W)) /\ Len(D!Front(F)) = Len(F) - 1
        /\ \A i \in 1..Len(F) - 1 : D!Front(F)[i] = F[i]
    BY <1>2, <2>2, FrontOfCells
  <2>4. F[Len(F)].word = D!Space
    <3>1. Len(F) = b + n + 1 /\ F[b + n + 1] = [word |-> D!Space, token |-> N, index |-> 0]
      BY <1>2, <1>3 DEF Follows, Widens
    <3> QED
      BY <3>1
  <2> DEFINE k == Len(F) - 1
  <2>5. k \in 0..Len(F) /\ Len(D!Front(F)) = k /\ \A i \in 1..k : D!Front(F)[i] = F[i]
    BY <1>3, <2>2, <2>3
  <2>6. \A i \in k + 1..Len(F) : F[i].word = D!Space
    <3>1. \A i \in k + 1..Len(F) : i = Len(F)
      BY <2>2
    <3> QED
      BY <2>4, <3>1
  <2>7. k <= k /\ \A i \in k + 1..k : FALSE
    BY <2>2
  <2> HIDE DEF k
  <2>8. D!Trimmed(D!TextOf(T, D!Front(F))) = D!Trimmed(D!TextOf(T, F))
    BY <1>2, <2>3, <2>5, <2>6, <2>7, TextTrimmed
  <2> QED
    BY <2>1, <2>8 DEF F
<1>4. CASE ~(Len(F) > 1 /\ made[N].wide # 2)
  <2>1. Closed(N, made[N]).entries = F
    BY <1>4 DEF Closed
  <2> QED
    BY <2>1
<1> QED
  BY <1>3, <1>4

(* A line of c tokens, and the same tokens after a word with ink.          *)
Same(W, tokens, prefix, c, others) ==
  /\ tokens \in Seq(Seq(W)) /\ prefix \in 1..Len(tokens) /\ c \in Nat /\ prefix + c <= Len(tokens)
  /\ others \in Seq(Seq(W)) /\ Len(others) = 1 + c
  /\ \E bang : bang \notin 0..3 /\ bang # D!Space /\ others[1] = <<bang>>
  /\ \A j \in 1..c : others[1 + j] = tokens[prefix + j]
  /\ \A j \in 1..c : D!Attaches(tokens[prefix + j]) => \E k \in 1..prefix + j - 1 : D!Inked(tokens[k])

LEMMA LineAlone ==
  ASSUME NEW W, D!Space \in W, NEW tokens, NEW prefix, NEW c, NEW others, Same(W, tokens, prefix, c, others)
  PROVE  D!Trimmed(D!TextOf(prefix + 1..prefix + c, D!Assemble(tokens).entries)) =
         D!Trimmed(D!TextOf(2..1 + c, D!Assemble(others).entries))
<1> DEFINE N == Len(tokens)
           T == prefix + 1..prefix + c
           S == 2..1 + c
<1>0. /\ tokens \in Seq(Seq(W)) /\ others \in Seq(Seq(W)) /\ c \in Nat /\ prefix \in 1..Len(tokens)
      /\ prefix + c <= Len(tokens) /\ Len(others) = 1 + c
      /\ \A j \in 1..c : others[1 + j] = tokens[prefix + j]
      /\ \A j \in 1..c : D!Attaches(tokens[prefix + j]) => \E k \in 1..prefix + j - 1 : D!Inked(tokens[k])
  BY DEF Same
<1>0a. PICK bang : bang \notin 0..3 /\ bang # D!Space /\ others[1] = <<bang>>
  BY DEF Same
<1> USE <1>0, <1>0a
<1>1. N \in Nat /\ prefix \in Nat /\ prefix >= 1 /\ prefix <= N /\ prefix + c <= N
  OBVIOUS
<1>2. PICK made : Assembling(tokens, made) /\ D!Assemble(tokens) = Closed(N, made[N])
  <2>1. Len(tokens) \in Nat
    OBVIOUS
  <2> QED
    BY <2>1, AssembledStepwise
<1>3. PICK alone : Assembling(others, alone) /\ D!Assemble(others) = Closed(1 + c, alone[1 + c])
  <2>1. Len(others) \in Nat
    OBVIOUS
  <2> QED
    BY <2>1, AssembledStepwise
<1>4. \A m \in 1..N :
        /\ made[m - 1].entries \in Seq(Cell(W)) /\ made[m].entries \in Seq(Cell(W))
        /\ Follows(made[m].entries, made[m - 1].entries, m, tokens[m])
        /\ tokens[m] \in Seq(W)
  <2> TAKE m \in 1..N
  <2>1. tokens[m] \in Seq(W)
    OBVIOUS
  <2> QED
    BY <1>2, <2>1, AssemblingFollows
<1>5. \A m \in 1..1 + c :
        /\ alone[m - 1].entries \in Seq(Cell(W)) /\ alone[m].entries \in Seq(Cell(W))
        /\ Follows(alone[m].entries, alone[m - 1].entries, m, others[m])
        /\ others[m] \in Seq(W)
  <2> TAKE m \in 1..1 + c
  <2>1. m \in 1..Len(others)
    OBVIOUS
  <2>2. others[m] \in Seq(W)
    BY <2>1
  <2> QED
    BY <1>3, <2>1, <2>2, AssemblingFollows
<1>6. made[0].entries = <<>> /\ alone[0].entries = <<>>
  BY <1>2, <1>3 DEF Assembling
<1>7. tokens # <<>> /\ others # <<>>
  BY <1>1
<1>8. D!Trimmed(D!TextOf(T, D!Assemble(tokens).entries)) = D!Trimmed(D!TextOf(T, made[N].entries))
  BY <1>2, <1>7, TextClosed
<1>9. D!Trimmed(D!TextOf(S, D!Assemble(others).entries)) = D!Trimmed(D!TextOf(S, alone[1 + c].entries))
  <2>1. D!Trimmed(D!TextOf(S, Closed(Len(others), alone[Len(others)]).entries)) =
        D!Trimmed(D!TextOf(S, alone[Len(others)].entries))
    BY <1>3, <1>7, TextClosed
  <2> QED
    BY <1>3, <2>1
<1> HIDE DEF N
<1>10. D!Trimmed(D!TextOf(T, made[N].entries)) = D!Trimmed(D!TextOf(T, made[prefix + c].entries))
  <2> DEFINE d == N - (prefix + c)
             Here == prefix + c
             Held == {m \in 0..d : D!Trimmed(D!TextOf(T, made[Here + m].entries)) =
                                   D!Trimmed(D!TextOf(T, made[Here].entries))}
  <2>1. d \in Nat /\ Here \in Nat /\ Here + d = N /\ Here + 0 = Here
    BY <1>1
  <2>2. 0 \in Held
    BY <2>1
  <2>3. ASSUME NEW m \in 1..d, m - 1 \in Held PROVE m \in Held
    <3> DEFINE k == Here + m
    <3>1. k \in 1..N /\ Here + (m - 1) = k - 1 /\ m \in 0..d /\ k \notin T
      BY <1>1
    <3> HIDE DEF k, T, Here, d
    <3> DEFINE E == made[k - 1].entries
               F == made[k].entries
    <3>3. E \in Seq(Cell(W)) /\ F \in Seq(Cell(W)) /\ Follows(F, E, k, tokens[k]) /\ tokens[k] \in Seq(W)
      BY <1>4, <3>1
    <3> DEFINE words == tokens[k]
    <3>5. k \notin T /\ Follows(F, E, k, words) /\ words \in Seq(W)
      BY <3>1, <3>3
    <3> HIDE DEF E, F, words
    <3>4. D!Trimmed(D!TextOf(T, F)) = D!Trimmed(D!TextOf(T, E))
      BY ONLY D!Space \in W, <3>3, <3>5, TextPassed
    <3>2. D!Trimmed(D!TextOf(T, made[k].entries)) = D!Trimmed(D!TextOf(T, made[k - 1].entries))
      BY <3>4 DEF E, F
    <3> QED
      BY <2>3, <3>1, <3>2 DEF k
  <2>4. \A m \in 0..d : m \in Held
    <3> HIDE DEF Held, d
    <3> QED
      BY <2>1, <2>2, <2>3, Upwards
  <2>5. d \in Held
    <3> HIDE DEF Held, d
    <3> QED
      BY <2>1, <2>4
  <2> HIDE DEF d
  <2> QED
    BY <2>1, <2>5
<1>11. \A m \in 0..N : (\E k \in 1..m : D!Inked(tokens[k])) => HasInk(made[m].entries)
  <2> DEFINE Held == {m \in 0..N : (\E k \in 1..m : D!Inked(tokens[k])) => HasInk(made[m].entries)}
  <2>1. 0 \in Held
    BY <1>1
  <2>2. ASSUME NEW m \in 1..N, m - 1 \in Held PROVE m \in Held
    <3>1. m \in 0..N
      BY <1>1
    <3>2. ASSUME NEW k \in 1..m, D!Inked(tokens[k]) PROVE HasInk(made[m - 1].entries) \/ D!Inked(tokens[m])
      <4>1. CASE k = m
        BY <3>2, <4>1
      <4>2. CASE k # m
        <5>1. k \in 1..m - 1
          BY <4>2
        <5> QED
          BY <2>2, <3>2, <5>1
      <4> QED
        BY <4>1, <4>2
    <3>3. HasInk(made[m - 1].entries) \/ D!Inked(tokens[m]) => HasInk(made[m].entries)
      <4> DEFINE E == made[m - 1].entries
                 F == made[m].entries
      <4>1. E \in Seq(Cell(W)) /\ F \in Seq(Cell(W)) /\ Follows(F, E, m, tokens[m]) /\ tokens[m] \in Seq(W)
        BY <1>4
      <4> HIDE DEF E, F
      <4>2. HasInk(E) \/ D!Inked(tokens[m]) => HasInk(F)
        BY <4>1, InkStays
      <4> QED
        BY <4>2 DEF E, F
    <3> QED
      BY <3>1, <3>2, <3>3
  <2>3. \A m \in 0..N : m \in Held
    <3> HIDE DEF Held
    <3> QED
      BY <1>1, <2>1, <2>2, Upwards
  <2> QED
    BY <2>3
<1>12. \E p, q : Alike(made[prefix + c].entries, T, p, alone[1 + c].entries, S, q)
  <2> DEFINE E(j) == made[prefix + j].entries
             A(j) == alone[1 + j].entries
             Near(j) == /\ \E p, q : Alike(E(j), T, p, A(j), S, q)
                        /\ A(j) # <<>> /\ A(j)[1].word # D!Space
             Held == {j \in 0..c : Near(j)}
  <2>1. Near(0)
    <3> DEFINE P == E(0)
               Q == A(0)
               bare == <<bang>>
    <3>1. 1 \in 1..1 + c /\ 1 - 1 = 0 /\ prefix + 0 = prefix /\ 1 + 0 = 1
      BY <1>1
    <3>2. P \in Seq(Cell(W)) /\ Q \in Seq(Cell(W)) /\ Follows(Q, <<>>, 1, bare)
      <4>1. /\ alone[1 - 1].entries \in Seq(Cell(W)) /\ alone[1].entries \in Seq(Cell(W))
            /\ Follows(alone[1].entries, alone[1 - 1].entries, 1, others[1])
        BY <1>5, <3>1
      <4>2. Q \in Seq(Cell(W)) /\ Follows(Q, <<>>, 1, bare)
        BY <1>6, <3>1, <4>1
      <4>3. prefix \in 1..N
        BY <1>1
      <4>4. made[prefix].entries \in Seq(Cell(W))
        BY <1>4, <4>3
      <4> QED
        BY <3>1, <4>2, <4>4
    <3>3. ~D!HasControl(bare) /\ D!Body(bare) = bare
      BY DEF D!HasControl, D!Body, D!Control
    <3>4. Leaves(<<>>, bare) = 0
      BY DEF Leaves, D!EndsInSpace
    <3>5. Len(bare) = 1 /\ 1 \in 1..1 /\ bare[1] = bang
      OBVIOUS
    <3> HIDE DEF P, Q, bare
    <3>6. Len(Q) = 0 + 1 + Widens(<<>>, bare) /\ Q[0 + 1] = [word |-> bang, token |-> 1, index |-> WordIndex(bare, 1)]
      BY <3>2, <3>3, <3>4, <3>5 DEF Follows
    <3>7. Len(Q) >= 1 /\ Q[1].word = bang /\ Q # <<>>
      BY <3>6 DEF Widens
    <3>8. \A i \in 1..Len(P) : P[i].token \notin T
      <4>1. Spanned(made[prefix], W, prefix)
        BY <1>1, <1>2, AssemblingSpanned DEF N
      <4>2. \A i \in 1..Len(P) : P[i].token \in 1..prefix
        BY <3>1, <4>1 DEF Spanned, Within, P
      <4>3. \A t \in 1..prefix : t \notin T
        BY <1>1
      <4> HIDE DEF T
      <4> QED
        BY <4>2, <4>3
    <3>9. \A i \in 1..Len(Q) : Q[i].token \notin S
      <4>1. Spanned(alone[1], W, 1)
        <5>1. 1 \in 0..Len(others)
          BY <1>1
        <5> QED
          BY <1>3, <5>1, AssemblingSpanned
      <4>2. \A i \in 1..Len(Q) : Q[i].token \in 1..1
        BY <3>1, <4>1 DEF Spanned, Within, Q
      <4>3. \A t \in 1..1 : t \notin S
        OBVIOUS
      <4> HIDE DEF S
      <4> QED
        BY <4>2, <4>3
    <3> HIDE DEF T, S
    <3>10. Len(P) \in 0..Len(P) /\ Len(Q) \in 0..Len(Q) /\ Len(P) - Len(P) = Len(Q) - Len(Q)
           /\ \A i \in 1..Len(P) - Len(P) : FALSE
      BY <3>2
    <3>11. Alike(P, T, Len(P), Q, S, Len(Q))
      BY <3>8, <3>9, <3>10 DEF Alike
    <3> QED
      BY <3>7, <3>11 DEF P, Q
  <2>2. ASSUME NEW j \in 1..c, Near(j - 1) PROVE Near(j)
    <3> DEFINE t == prefix + j
               u == 1 + j
               words == tokens[t]
    <3>1. /\ t \in 1..N /\ u \in 1..1 + c /\ t \in T /\ u \in S
          /\ prefix + (j - 1) = t - 1 /\ 1 + (j - 1) = u - 1 /\ t - 1 \in 0..N
      BY <1>1
    <3>2. others[u] = words /\ (D!Attaches(words) => \E k \in 1..t - 1 : D!Inked(tokens[k]))
      <4>1. others[1 + j] = tokens[prefix + j]
        OBVIOUS
      <4>2. D!Attaches(tokens[prefix + j]) => \E k \in 1..prefix + j - 1 : D!Inked(tokens[k])
        OBVIOUS
      <4> QED
        BY <4>1, <4>2
    <3>3. D!Attaches(words) => made[t - 1].entries # <<>>
      <4>1. \A e : HasInk(e) => e # <<>>
        BY DEF HasInk
      <4> HIDE DEF t
      <4> QED
        BY <1>11, <3>1, <3>2, <4>1
    <3>4. E(j - 1) = made[t - 1].entries /\ A(j - 1) = alone[u - 1].entries
      BY <3>1
    <3>5. PICK p, q : Alike(made[t - 1].entries, T, p, alone[u - 1].entries, S, q)
      BY <2>2, <3>4
    <3>6. alone[u - 1].entries # <<>> /\ alone[u - 1].entries[1].word # D!Space
      BY <2>2, <3>4
    <3> HIDE DEF T, S, Near, E, A
    <3>7. /\ made[t - 1].entries \in Seq(Cell(W)) /\ made[t].entries \in Seq(Cell(W))
          /\ Follows(made[t].entries, made[t - 1].entries, t, words) /\ words \in Seq(W)
      <4> HIDE DEF t
      <4> QED
        BY <1>4, <3>1
    <3>8. /\ alone[u - 1].entries \in Seq(Cell(W)) /\ alone[u].entries \in Seq(Cell(W))
          /\ Follows(alone[u].entries, alone[u - 1].entries, u, words)
      <4> HIDE DEF u, t
      <4> QED
        BY <1>5, <3>1, <3>2
    <3>9. /\ \E x, y : Alike(made[t].entries, T, x, alone[u].entries, S, y)
          /\ alone[u].entries # <<>> /\ alone[u].entries[1].word # D!Space
      <4> DEFINE e == made[t - 1].entries
                 f == made[t].entries
                 a == alone[u - 1].entries
                 b == alone[u].entries
      <4>1. /\ e \in Seq(Cell(W)) /\ f \in Seq(Cell(W)) /\ Follows(f, e, t, words) /\ words \in Seq(W)
            /\ a \in Seq(Cell(W)) /\ b \in Seq(Cell(W)) /\ Follows(b, a, u, words)
        BY <3>7, <3>8
      <4>2. /\ Alike(e, T, p, a, S, q) /\ a # <<>> /\ a[1].word # D!Space
            /\ D!Attaches(words) => e # <<>>
        BY <3>3, <3>5, <3>6
      <4>3. t \in T /\ u \in S
        BY <3>1
      <4> HIDE DEF u, t, words, e, f, a, b
      <4>4. (\E x, y : Alike(f, T, x, b, S, y)) /\ b # <<>> /\ b[1].word # D!Space
        BY ONLY D!Space \in W, <4>1, <4>2, <4>3, AlikeGoesOn
      <4> QED
        BY <4>4 DEF f, b
    <3> QED
      BY <3>9 DEF Near, E, A
  <2>3. c \in Held
    <3> HIDE DEF Near
    <3>1. 0 \in Held
      BY <2>1
    <3>2. \A j \in 1..c : j - 1 \in Held => j \in Held
      BY <2>2
    <3> HIDE DEF Held
    <3>3. \A j \in 0..c : j \in Held
      BY <3>1, <3>2, Upwards
    <3> QED
      BY <3>3
  <2> QED
    BY <2>3
<1>13. D!TextOf(T, made[prefix + c].entries) = D!TextOf(S, alone[1 + c].entries)
  <2>1. made[prefix + c].entries \in Seq(Cell(W)) /\ alone[1 + c].entries \in Seq(Cell(W))
    <3>1. prefix + c \in 1..N /\ 1 + c \in 1..1 + c
      BY <1>1
    <3> QED
      BY <1>4, <1>5, <3>1
  <2> DEFINE e == made[prefix + c].entries
             a == alone[1 + c].entries
  <2>2. PICK p, q : Alike(e, T, p, a, S, q)
    BY <1>12
  <2>3. Len(e) \in Nat /\ Len(a) \in Nat
    BY <2>1, LenProperties
  <2> HIDE DEF T, S, e, a
  <2>4. D!TextOf(T, e) = D!TextOf(S, a)
    BY <2>2, <2>3, TextAlike
  <2> QED
    BY <2>4 DEF e, a
<1> HIDE DEF T, S
<1>14. D!Trimmed(D!TextOf(T, D!Assemble(tokens).entries)) = D!Trimmed(D!TextOf(S, D!Assemble(others).entries))
  BY <1>8, <1>9, <1>10, <1>13
<1> QED
  BY <1>14 DEF T, S

(* What a payload is decoded to.                                           *)
LEMMA DecodedIsFramed ==
  ASSUME NEW bytes \in Seq(Nat)
  PROVE  LET made == D!DecodePayload(bytes)
         IN  /\ made.tokens \in Seq(D!Tokens)
             /\ made.lines = Unset \/ Framed(made.tokens, Len(bytes), 1, made.lines)
<1> DEFINE made   == D!DecodePayload(bytes)
           tokens == made.tokens
           lines  == made.lines
           N == Len(bytes)
<1>1. N \in Nat
  OBVIOUS
<1>2. D!PlainWalk(bytes) \in Seq(D!Tokens)
  <2>1. TokensOf(bytes) \subseteq D!Tokens
    BY DEF TokensOf
  <2> QED
    BY <2>1, PlainTiles
<1>3. tokens \in Seq(D!Tokens) /\ lines = D!DisplayLines(tokens, N)
  BY <1>2, RelinedTiles DEF D!DecodePayload
<1>4. lines = Unset \/ Framed(tokens, N, 1, lines)
  <2> HIDE DEF tokens, lines, N
  <2> QED
    BY <1>1, <1>3, DisplayIsFramed
<1> QED
  BY <1>3, <1>4

(* The words of the dictionary, and two that a line may be set among.      *)
Spelling == {D!Space, D!Space + 1} \cup UNION {{Dictionary[v][i] : i \in DOMAIN Dictionary[v]} : v \in DOMAIN Dictionary}

LEMMA WordsAreSpelled == \A token : D!Words(token) \in Seq(Spelling)
<1> SUFFICES ASSUME NEW token PROVE D!Words(token) \in Seq(Spelling)
  OBVIOUS
<1>1. CASE token.value \in DOMAIN Dictionary
  <2> DEFINE s == Dictionary[token.value]
             U == {s[i] : i \in DOMAIN s}
  <2>1. D!Words(token) = s
    BY <1>1 DEF D!Words
  <2>2. s \in Seq(U)
    BY <1>1, DictionaryAssumption DEF IsASequence
  <2>3. U \subseteq Spelling
    BY <1>1 DEF Spelling
  <2> HIDE DEF s, U
  <2>4. Len(s) \in Nat /\ s \in [1..Len(s) -> U]
    BY <2>2, LenProperties
  <2>5. s \in [1..Len(s) -> Spelling]
    BY <2>3, <2>4
  <2> QED
    BY <2>1, <2>4, <2>5
<1>2. CASE token.value \notin DOMAIN Dictionary
  BY <1>2 DEF D!Words
<1> QED
  BY <1>1, <1>2

LEMMA LinesStayThemselves == LinesInv => D!LinesKeepTheirText
<1> SUFFICES ASSUME LinesInv, record # Unset, record.lines # Unset
             PROVE  /\ LET out == D!Assemble(D!Spelled)
                       IN  \A i \in DOMAIN out.entries : LET span == out.spans[out.entries[i].token]
                                                         IN  i \in span.begin..span.end - 1
                    /\ \A l \in DOMAIN record.lines :
                         D!Trimmed(D!LineText(record, record.lines[l])) = D!Trimmed(D!Alone(record.lines[l]))
                         \/ D!Hanging(record.lines[l])
  BY DEF D!LinesKeepTheirText
<1> DEFINE ts == record.tokens
           ls == record.lines
           W == Spelling
           words == [i \in DOMAIN ts |-> D!Words(ts[i])]
           N == Len(words)
<1>1. payload \in Seq(Nat)
  <2>1. written \in Books => written \in Seq(Seq(D!References))
    BY LinesAssumption
  <2>2. CASE written \in Books /\ payload = D!Encoded(written)
    BY <2>1, <2>2, EncodedIsParted
  <2>3. CASE payload \in Payloads
    BY <2>3, LinesAssumption
  <2> QED
    BY <2>2, <2>3 DEF LinesInv
<1>2. record = D!DecodePayload(payload)
  BY DEF LinesInv
<1>3. ts \in Seq(D!Tokens) /\ Framed(ts, Len(payload), 1, ls)
  BY <1>1, <1>2, DecodedIsFramed
<1>4. D!Spelled = words
  BY DEF D!Spelled
<1> HIDE DEF ts, ls, W
<1>5. D!Space \in W /\ D!Space + 1 \in W /\ \A token : D!Words(token) \in Seq(W)
  BY WordsAreSpelled DEF W, Spelling
<1>6. DOMAIN ts = 1..Len(ts) /\ Len(ts) \in Nat
  BY <1>3
<1>7. words \in Seq(Seq(W)) /\ N = Len(ts) /\ \A i \in 1..N : words[i] = D!Words(ts[i])
  <2>1. words \in [1..Len(ts) -> Seq(W)]
    BY <1>5, <1>6
  <2> QED
    BY <1>6, <2>1
<1> HIDE DEF words, N
<1>8. \A l \in DOMAIN ls : /\ ls[l].prefix \in 1..N /\ ls[l].last \in ls[l].prefix..N
  <2>1. ls \in Seq(D!FramingLines)
    BY <1>3 DEF Framed
  <2>2. DOMAIN ls = 1..Len(ls)
    BY <2>1
  <2> QED
    BY <1>3, <1>7, <2>2 DEF Framed
<1>9. LET out == D!Assemble(words)
      IN  \A i \in DOMAIN out.entries : LET span == out.spans[out.entries[i].token]
                                        IN  i \in span.begin..span.end - 1
  <2> DEFINE out == D!Assemble(words)
  <2>0. N \in Nat /\ N \in 0..N
    BY <1>6, <1>7
  <2>1. PICK made : Assembling(words, made) /\ out = Closed(N, made[N])
    BY <2>0, AssembledStepwise DEF N
  <2>2. Spanned(made[N], W, N)
    BY <1>5, <1>7, <2>0, <2>1, AssemblingSpanned DEF N
  <2> DEFINE E == made[N].entries
             G == made[N].spans
  <2>3. E \in Seq(Cell(W)) /\ G \in Spans /\ Len(G) = N /\ Within(E, G)
    BY <2>2 DEF Spanned
  <2>4. out.entries \in Seq(Cell(W)) /\ out.spans \in Spans /\ Within(out.entries, out.spans)
    <3>1. CASE Len(E) > 1 /\ made[N].wide # 2
      <4>1. out.entries = D!Front(E) /\ out.spans = [G EXCEPT ![N].end = Len(E)]
        BY <2>1, <3>1 DEF Closed
      <4>2. E # <<>> /\ Len(E) \in Nat
        BY <2>3, <3>1
      <4>3. N # 0
        <5>1. made[0].entries = <<>>
          BY <2>1 DEF Assembling
        <5> QED
          BY <4>2, <5>1
      <4>4. E[Len(E)].token = N
        <5> DEFINE A == made[N - 1].entries
                   b == Leaves(A, words[N])
                   n == Len(D!Body(words[N]))
        <5>0. N \in 1..Len(words)
          BY <2>0, <4>3 DEF N
        <5>1. /\ Follows(E, A, N, words[N])
              /\ ~EndsItself(A, words[N])
          BY <1>5, <1>7, <2>1, <3>1, <5>0, AssemblingFollows
        <5> HIDE DEF E, A
        <5>2. Len(E) = b + n + 1 /\ E[b + n + 1] = [word |-> D!Space, token |-> N, index |-> 0]
          BY <5>1 DEF Follows, Widens
        <5> QED
          BY <5>2
      <4>5. N \in 1..Len(G)
        BY <2>0, <2>3, <4>3
      <4> HIDE DEF E, G, out
      <4>6. D!Front(E) \in Seq(Cell(W))
        BY <2>3, <4>2, FrontOfCells
      <4>7. [G EXCEPT ![N].end = Len(E)] \in Spans /\ Within(D!Front(E), [G EXCEPT ![N].end = Len(E)])
        BY <2>3, <4>2, <4>4, <4>5, SpanShortened
      <4> QED
        BY <4>1, <4>6, <4>7
    <3>2. CASE ~(Len(E) > 1 /\ made[N].wide # 2)
      <4>1. out.entries = E /\ out.spans = G
        BY <2>1, <3>2 DEF Closed
      <4> QED
        BY <2>3, <4>1
    <3> QED
      BY <3>1, <3>2
  <2> HIDE DEF out
  <2>5. DOMAIN out.entries = 1..Len(out.entries) /\ Len(out.entries) \in Nat
    BY <2>4
  <2>6. \A i \in 1..Len(out.spans) : out.spans[i].begin \in Nat /\ out.spans[i].end \in Nat
    <3> DEFINE V == [begin : Nat, end : Nat]
    <3>1. out.spans \in Seq(V)
      BY <2>4 DEF Spans
    <3>2. \A i \in 1..Len(out.spans) : out.spans[i] \in V
      <4> HIDE DEF V
      <4> QED
        BY <3>1
    <3> QED
      BY <3>2
  <2>7. ASSUME NEW i \in DOMAIN out.entries
        PROVE  i \in out.spans[out.entries[i].token].begin..out.spans[out.entries[i].token].end - 1
    <3> DEFINE t == out.entries[i].token
    <3>1. i \in Nat /\ t \in 1..Len(out.spans) /\ out.spans[t].begin <= i /\ i < out.spans[t].end
      BY <2>4, <2>5 DEF Within
    <3>2. out.spans[t].begin \in Nat /\ out.spans[t].end \in Nat
      BY <2>6, <3>1
    <3> HIDE DEF t
    <3> QED
      BY <3>1, <3>2 DEF t
  <2> QED
    BY <2>7 DEF out
<1>10. ASSUME NEW l \in DOMAIN ls, ~D!Hanging(ls[l])
       PROVE  D!Trimmed(D!LineText(record, ls[l])) = D!Trimmed(D!Alone(ls[l]))
  <2> DEFINE L == ls[l]
             prefix == L.prefix
             c == L.last - prefix
             content == [i \in 1..c |-> D!Words(ts[prefix + i])]
             bare == <<D!Space + 1>>
             others == <<bare>> \o content
  <2>1. prefix \in 1..N /\ c \in Nat /\ prefix + c = L.last /\ prefix + c <= N /\ N \in Nat /\ prefix \in Nat
    BY <1>6, <1>7, <1>8
  <2>2. D!Content(L) = [i \in 1..c |-> ts[prefix + i]]
    BY DEF D!Content, ts
  <2>3. [i \in DOMAIN D!Content(L) |-> D!Words(D!Content(L)[i])] = content
    <3> HIDE DEF L, c, prefix
    <3>1. DOMAIN D!Content(L) = 1..c /\ \A i \in 1..c : D!Content(L)[i] = ts[prefix + i]
      BY <2>2
    <3> QED
      BY <3>1
  <2>4. D!Alone(L) = D!TextOf(1 + 1..Len(others), D!Assemble(others).entries)
    <3> HIDE DEF content
    <3> QED
      BY <2>3 DEF D!Alone, D!Shown
  <2>5. D!LineText(record, L) = D!TextOf(prefix + 1..L.last, D!Assemble(words).entries)
    BY DEF D!LineText, D!Shown, words, ts
  <2>6. \A j \in 1..c : D!Attaches(words[prefix + j]) => \E k \in 1..prefix + j - 1 : D!Inked(words[k])
    <3> SUFFICES ASSUME NEW j \in 1..c, D!Attaches(words[prefix + j])
                 PROVE  \E k \in 1..prefix + j - 1 : D!Inked(words[k])
      OBVIOUS
    <3>1. ~D!Hanging(L) /\ prefix + j \in prefix + 1..L.last
      BY <1>10, <2>1
    <3> DEFINE m == prefix + j
    <3>2. \A i \in prefix + 1..L.last :
            ~(D!Attaches(words[i]) /\ \A k \in 1..i - 1 : ~D!Inked(words[k]))
      <4> HIDE DEF L
      <4> QED
        BY <1>4, <3>1 DEF D!Hanging
    <3>3. m \in prefix + 1..L.last /\ D!Attaches(words[m])
      BY <3>1
    <3> HIDE DEF L, m
    <3>4. \E k \in 1..m - 1 : D!Inked(words[k])
      BY <3>2, <3>3
    <3> QED
      BY <2>1, <3>4 DEF m
  <2> HIDE DEF L, prefix, c
  <2>7. content \in Seq(Seq(W)) /\ Len(content) = c /\ \A j \in 1..c : content[j] = words[prefix + j]
    <3>1. content \in [1..c -> Seq(W)]
      BY <1>5
    <3>2. \A j \in 1..c : prefix + j \in 1..N
      BY <2>1
    <3>3. \A j \in 1..c : content[j] = words[prefix + j]
      BY <1>7, <3>2
    <3> HIDE DEF content
    <3> QED
      BY <2>1, <3>1, <3>3
  <2>8. bare \in Seq(W) /\ <<bare>> \in Seq(Seq(W)) /\ Len(<<bare>>) = 1 /\ <<bare>>[1] = bare
    <3>1. bare \in Seq(W)
      BY <1>5
    <3> HIDE DEF bare
    <3> QED
      BY <3>1
  <2> HIDE DEF bare, content
  <2>9. /\ others \in Seq(Seq(W)) /\ Len(others) = 1 + c /\ others[1] = bare
        /\ \A j \in 1..c : others[1 + j] = words[prefix + j]
    <3>1. /\ others \in Seq(Seq(W)) /\ Len(others) = 1 + c
          /\ \A i \in 1..1 + c : others[i] = IF i <= 1 THEN <<bare>>[i] ELSE content[i - 1]
      BY <2>7, <2>8, ConcatProperties
    <3>2. 1 \in 1..1 + c /\ \A j \in 1..c : 1 + j \in 1..1 + c /\ ~(1 + j <= 1) /\ (1 + j) - 1 = j
      BY <2>1
    <3> HIDE DEF others
    <3> QED
      BY <2>7, <2>8, <3>1, <3>2
  <2> HIDE DEF others
  <2> DEFINE bang == D!Space + 1
  <2>10. others[1] = <<bang>> /\ bang \notin 0..3 /\ bang # D!Space
    BY <2>9 DEF bare, D!Space
  <2> HIDE DEF bang
  <2>14. prefix \in 1..Len(words) /\ c \in Nat /\ prefix + c <= Len(words)
    BY <2>1 DEF N
  <2>11. D!Trimmed(D!TextOf(prefix + 1..prefix + c, D!Assemble(words).entries)) =
         D!Trimmed(D!TextOf(2..1 + c, D!Assemble(others).entries))
    <3>1. Same(W, words, prefix, c, others)
      BY <1>7, <2>6, <2>9, <2>10, <2>14 DEF Same
    <3> QED
      BY <1>5, <3>1, LineAlone
  <2>12. 1 + 1..Len(others) = 2..1 + c /\ prefix + 1..L.last = prefix + 1..prefix + c
    BY <2>1, <2>9
  <2>13. D!Trimmed(D!LineText(record, L)) = D!Trimmed(D!Alone(L))
    BY <2>4, <2>5, <2>11, <2>12
  <2> QED
    BY <2>13 DEF L
<1> QED
  BY <1>4, <1>9, <1>10 DEF ls
-----------------------------------------------------------------------------
(* Assembly and Ownership *)

(* The words that a line may show, and a line in the order of its tokens   *)
(* and of the words of each of them.                                       *)
Shows(W)   == [word : W \cup {O!Space}, token : Nat, index : Nat]
Before(a, b) == a[2] < b[2] \/ (a[2] = b[2] /\ a[3] < b[3])
Place(e)   == <<0, e.token, e.index>>
Ordered(entries) ==
  \A i, j \in 1..Len(entries) :
    i < j /\ entries[i].index # 0 /\ entries[j].index # 0 => Before(Place(entries[i]), Place(entries[j]))
Assembled(entries, W, t) ==
  /\ entries \in Seq(Shows(W)) /\ Ordered(entries)
  /\ \A i \in 1..Len(entries) : entries[i].token <= t

LEMMA LineShorter ==
  ASSUME NEW W, NEW t \in Nat, NEW entries, Assembled(entries, W, t), entries # <<>>
  PROVE  Assembled(O!Front(entries), W, t)
<1>1. entries \in Seq(Shows(W)) /\ Len(entries) \in Nat /\ Len(entries) # 0 /\ Len(entries) - 1 \in Nat
  BY DEF Assembled
<1> DEFINE front == SubSeq(entries, 1, Len(entries) - 1)
<1>2. /\ front \in Seq(Shows(W)) /\ Len(front) = Len(entries) - 1
      /\ \A i \in 1..Len(entries) - 1 : front[i] = entries[i]
  <2> DEFINE n == Len(entries) - 1
  <2>1. n \in Nat /\ 1 \in Int /\ n \in Int /\ \A i \in 1..n : entries[i] \in Shows(W)
    BY <1>1
  <2>2. \A i \in 1..n : i \in 1..n - 1 + 1 /\ 1 + i - 1 = i
    BY <2>1
  <2> HIDE DEF n
  <2>3. (IF 1 <= n THEN n - 1 + 1 ELSE 0) = n
    BY <2>1
  <2> QED
    BY <2>1, <2>2, <2>3, SubSeqProperties DEF n
<1>3. O!Front(entries) = front
  BY DEF O!Front
<1> HIDE DEF front
<1>4. \A i \in 1..Len(front) : i \in 1..Len(entries)
  BY <1>1, <1>2
<1>5. Ordered(front)
  BY <1>1, <1>2, <1>4 DEF Assembled, Ordered
<1> QED
  BY <1>1, <1>2, <1>3, <1>4, <1>5 DEF Assembled

(* The words of a token, which its first control leaves out.               *)
LEMMA TokenEntries ==
  ASSUME NEW W, NEW t \in Nat, NEW words \in Seq(W)
  PROVE  /\ O!Entries(t, words) \in Seq(Shows(W)) /\ Ordered(O!Entries(t, words))
         /\ \A i \in 1..Len(O!Entries(t, words)) : /\ O!Entries(t, words)[i].token = t
                                                   /\ O!Entries(t, words)[i].index # 0
<1> DEFINE body == O!Body(words)
           own == O!Entries(t, words)
           At(i) == IF O!HasControl(words) THEN i + 1 ELSE i
<1>1. body \in Seq(W)
  <2>1. CASE O!HasControl(words)
    <3>1. words # <<>>
      BY <2>1 DEF O!HasControl
    <3>2. Tail(words) \in Seq(W)
      BY <3>1
    <3> QED
      BY <2>1, <3>2 DEF O!Body
  <2>2. CASE ~O!HasControl(words)
    BY <2>2 DEF O!Body
  <2> QED
    BY <2>1, <2>2
<1> HIDE DEF body
<1>2. Len(body) \in Nat /\ DOMAIN body = 1..Len(body) /\ \A i \in 1..Len(body) : body[i] \in W
  BY <1>1
<1>3. own = [i \in 1..Len(body) |-> [word |-> body[i], token |-> t, index |-> At(i)]]
  BY <1>2 DEF O!Entries, body
<1> HIDE DEF own
<1>4. \A i \in 1..Len(body) : At(i) \in Nat \ {0}
  BY <1>2
<1>5. \A i, j \in 1..Len(body) : i < j => At(i) < At(j)
  BY <1>2
<1> HIDE DEF At
<1>6. own \in Seq(Shows(W)) /\ Len(own) = Len(body)
  <2>1. \A i \in 1..Len(body) : [word |-> body[i], token |-> t, index |-> At(i)] \in Shows(W)
    BY <1>2, <1>4 DEF Shows
  <2>2. own \in [1..Len(body) -> Shows(W)]
    BY <1>3, <2>1
  <2> QED
    BY <1>2, <2>2
<1>7. \A i \in 1..Len(own) : own[i].token = t /\ own[i].index = At(i)
  BY <1>3, <1>6
<1>8. Ordered(own)
  BY <1>2, <1>5, <1>6, <1>7 DEF Ordered, Before, Place
<1> QED
  BY <1>4, <1>6, <1>7, <1>8 DEF own

LEMMA TokenAssembled ==
  ASSUME NEW W, NEW t \in Nat \ {0}, NEW words \in Seq(W), NEW state, Assembled(state.entries, W, t - 1)
  PROVE  Assembled(O!AssembleToken(state, t, words).entries, W, t)
<1> DEFINE own == O!Entries(t, words)
           old == state.entries
<1> HIDE DEF own, old
<1>1. /\ own \in Seq(Shows(W)) /\ Ordered(own)
      /\ \A i \in 1..Len(own) : own[i].token = t /\ own[i].index # 0
  BY TokenEntries DEF own
<1>2. Assembled(old, W, t - 1)
  BY DEF old
<1>3. PICK kept : /\ kept = old \/ kept = O!Dropped(old)
                  /\ O!AssembleToken(state, t, words).entries =
                       kept \o own \/
                     O!AssembleToken(state, t, words).entries =
                       Append(kept \o own, [word |-> O!Space, token |-> t, index |-> 0])
  BY DEF O!AssembleToken, own, old
<1>4. Assembled(kept, W, t - 1)
  <2>1. O!Dropped(old) = old \/ (old # <<>> /\ O!Dropped(old) = O!Front(old))
    BY DEF O!Dropped, O!EndsInSpace
  <2> QED
    BY <1>2, <1>3, <2>1, LineShorter
<1> DEFINE added == kept \o own
<1>5. kept \in Seq(Shows(W)) /\ Len(kept) \in Nat /\ Len(own) \in Nat
  BY <1>1, <1>4 DEF Assembled
<1>6. /\ added \in Seq(Shows(W)) /\ Len(added) = Len(kept) + Len(own)
      /\ \A i \in 1..Len(kept) + Len(own) :
           added[i] = IF i <= Len(kept) THEN kept[i] ELSE own[i - Len(kept)]
  BY <1>1, <1>5, ConcatProperties
<1> HIDE DEF added
<1>7. Assembled(added, W, t)
  <2>1. ASSUME NEW i \in 1..Len(added)
        PROVE  (i \in 1..Len(kept) /\ added[i] = kept[i] /\ added[i].token <= t - 1)
               \/ (i - Len(kept) \in 1..Len(own) /\ added[i] = own[i - Len(kept)] /\ added[i].token = t)
    <3>1. CASE i <= Len(kept)
      <4>1. i \in 1..Len(kept) /\ added[i] = kept[i]
        BY <1>5, <1>6, <3>1
      <4> QED
        BY <1>4, <4>1 DEF Assembled
    <3>2. CASE ~(i <= Len(kept))
      <4>1. i - Len(kept) \in 1..Len(own) /\ added[i] = own[i - Len(kept)]
        BY <1>5, <1>6, <3>2
      <4> QED
        BY <1>1, <4>1
    <3> QED
      BY <3>1, <3>2
  <2>2. \A i \in 1..Len(added) : added[i] \in Shows(W) /\ added[i].token \in Nat
    <3>1. \A i \in 1..Len(added) : added[i] \in Shows(W)
      BY <1>6
    <3> QED
      BY <3>1 DEF Shows
  <2>3. ASSUME NEW i \in 1..Len(added), NEW j \in 1..Len(added), i < j,
               added[i].index # 0, added[j].index # 0
        PROVE  Before(Place(added[i]), Place(added[j]))
    <3>1. CASE j \in 1..Len(kept) /\ added[j] = kept[j]
      <4>1. i \in 1..Len(kept)
        BY <2>3, <3>1
      <4>2. added[i] = kept[i]
        BY <1>5, <1>6, <4>1
      <4> QED
        BY <1>4, <2>3, <3>1, <4>1, <4>2 DEF Assembled, Ordered
    <3>2. CASE j - Len(kept) \in 1..Len(own) /\ added[j] = own[j - Len(kept)] /\ added[j].token = t
      <4>1. CASE added[i].token <= t - 1
        BY <2>2, <3>2, <4>1 DEF Before, Place
      <4>2. CASE i - Len(kept) \in 1..Len(own) /\ added[i] = own[i - Len(kept)]
        <5>1. i - Len(kept) < j - Len(kept)
          BY <1>5, <2>3
        <5> QED
          BY <1>1, <2>3, <3>2, <4>2, <5>1 DEF Ordered
      <4> QED
        BY <2>1, <4>1, <4>2
    <3> QED
      BY <2>1, <3>1, <3>2
  <2>4. \A i \in 1..Len(added) : added[i].token <= t
    BY <2>1, <2>2
  <2> QED
    BY <1>6, <2>3, <2>4 DEF Assembled, Ordered
<1>8. Assembled(Append(added, [word |-> O!Space, token |-> t, index |-> 0]), W, t)
  <2> DEFINE blank == [word |-> O!Space, token |-> t, index |-> 0]
             ended == Append(added, blank)
             n == Len(added)
  <2>1. blank \in Shows(W) /\ blank.token = t /\ blank.index = 0
    BY DEF Shows
  <2> HIDE DEF blank
  <2>2. added \in Seq(Shows(W)) /\ n \in Nat
    BY <1>6
  <2>3. /\ ended \in Seq(Shows(W)) /\ Len(ended) = n + 1
        /\ \A i \in 1..n : ended[i] = added[i]
        /\ ended[n + 1] = blank
    BY <2>1, <2>2, AppendProperties
  <2> HIDE DEF ended, n
  <2>4. \A i \in 1..n + 1 : i = n + 1 \/ i \in 1..n
    BY <2>2
  <2>5. \A i \in 1..n : added[i].token <= t
    BY <1>7 DEF Assembled, n
  <2>6. \A i, j \in 1..n : i < j /\ added[i].index # 0 /\ added[j].index # 0 =>
                            Before(Place(added[i]), Place(added[j]))
    BY <1>7 DEF Assembled, Ordered, n
  <2>7. Ordered(ended)
    BY <2>1, <2>3, <2>4, <2>6 DEF Ordered
  <2>8. \A i \in 1..n + 1 : ended[i].token <= t
    BY <2>1, <2>3, <2>4, <2>5
  <2> QED
    BY <2>3, <2>7, <2>8 DEF Assembled, ended, blank
<1> QED
  BY <1>3, <1>7, <1>8 DEF added

(* A record's line holds the words of its tokens in order.                 *)
LEMMA LineInOrder ==
  ASSUME NEW W, NEW tokens \in Seq(Seq(W))
  PROVE  Assembled(O!Assemble(tokens).entries, W, Len(tokens))
<1> DEFINE N == Len(tokens)
           Turn(f, t) == IF t = 0 THEN [entries |-> <<>>, wide |-> 2, spans |-> <<>>]
                         ELSE O!AssembleToken(f[t - 1], t, tokens[t])
           Upto(m) == \E f : f = [t \in 0..m |-> Turn(f, t)]
           made == CHOOSE f : f = [t \in 0..N |-> Turn(f, t)]
<1>1. N \in Nat /\ \A t \in 1..N : tokens[t] \in Seq(W)
  OBVIOUS
<1> HIDE DEF N
<1>2. Upto(N)
  <2> DEFINE T == {m \in 0..N : Upto(m)}
  <2>1. 0 \in T
    <3> DEFINE f == [t \in 0..0 |-> [entries |-> <<>>, wide |-> 2, spans |-> <<>>]]
    <3>1. f = [t \in 0..0 |-> Turn(f, t)]
      OBVIOUS
    <3>2. Upto(0)
      BY <3>1
    <3> HIDE DEF Upto
    <3> QED
      BY <1>1, <3>2
  <2>2. ASSUME NEW m \in 1..N, m - 1 \in T PROVE m \in T
    <3>1. PICK f : f = [t \in 0..m - 1 |-> Turn(f, t)]
      BY <2>2
    <3> DEFINE g == [t \in 0..m |-> IF t = m THEN O!AssembleToken(f[m - 1], m, tokens[m]) ELSE f[t]]
    <3>2. ASSUME NEW t \in 0..m PROVE g[t] = Turn(g, t)
      <4>1. CASE t = m
        <5>1. g[t] = O!AssembleToken(f[m - 1], m, tokens[m]) /\ t # 0
          BY <4>1
        <5>2. m - 1 \in 0..m /\ m - 1 # m
          BY <1>1
        <5>3. g[t - 1] = f[m - 1]
          BY <4>1, <5>2
        <5> HIDE DEF g
        <5> QED
          BY <4>1, <5>1, <5>3
      <4>2. CASE t # m
        <5>1. t \in 0..m - 1 /\ g[t] = f[t]
          BY <4>2
        <5>2. t # 0 => t - 1 \in 0..m /\ t - 1 # m
          BY <4>2
        <5>3. t # 0 => g[t - 1] = f[t - 1]
          BY <5>2
        <5>4. f[t] = Turn(f, t)
          <6> HIDE DEF Turn
          <6> QED
            BY <3>1, <5>1
        <5> HIDE DEF g
        <5> QED
          BY <5>1, <5>3, <5>4
      <4> QED
        BY <4>1, <4>2
    <3>3. g = [t \in 0..m |-> Turn(g, t)]
      <4> HIDE DEF Turn
      <4> QED
        BY <3>2
    <3>4. Upto(m)
      <4> HIDE DEF g, Turn
      <4> QED
        BY <3>3
    <3> HIDE DEF Upto
    <3> QED
      BY <1>1, <3>4
  <2>3. \A n \in 0..N : n \in T
    <3> HIDE DEF T
    <3> QED
      BY <1>1, <2>1, <2>2, Upwards
  <2> HIDE DEF Upto
  <2> QED
    BY <1>1, <2>3
<1>3. made = [t \in 0..N |-> Turn(made, t)]
  <2> HIDE DEF Turn
  <2> QED
    BY <1>2
<1>4. \A t \in 0..N : made[t] = Turn(made, t)
  <2> HIDE DEF made, Turn
  <2> QED
    BY <1>3
<1>5. Assembled(made[N].entries, W, N)
  <2> HIDE DEF made
  <2> DEFINE T == {m \in 0..N : Assembled(made[m].entries, W, m)}
  <2>1. 0 \in T
    <3>1. made[0] = [entries |-> <<>>, wide |-> 2, spans |-> <<>>]
      BY <1>1, <1>4
    <3>2. Assembled(<<>>, W, 0)
      BY DEF Assembled, Ordered
    <3> QED
      BY <1>1, <3>1, <3>2
  <2>2. ASSUME NEW m \in 1..N, m - 1 \in T PROVE m \in T
    <3>1. made[m] = O!AssembleToken(made[m - 1], m, tokens[m])
      BY <1>1, <1>4
    <3>2. m \in Nat \ {0} /\ m \in 0..N
      BY <1>1
    <3>3. Assembled(made[m].entries, W, m)
      BY <1>1, <2>2, <3>1, <3>2, TokenAssembled
    <3> QED
      BY <3>2, <3>3
  <2>3. \A n \in 0..N : n \in T
    <3> HIDE DEF T
    <3> QED
      BY <1>1, <2>1, <2>2, Upwards
  <2> QED
    BY <1>1, <2>3
<1>6. O!Assemble(tokens).entries = made[N].entries
      \/ (made[N].entries # <<>> /\ O!Assemble(tokens).entries = O!Front(made[N].entries))
  <2>1. O!Assemble(tokens) = IF Len(made[N].entries) > 1 /\ made[N].wide # 2
                             THEN [entries |-> O!Front(made[N].entries),
                                   spans |-> [made[N].spans EXCEPT ![N].end = Len(made[N].entries)]]
                             ELSE [entries |-> made[N].entries, spans |-> made[N].spans]
    BY DEF O!Assemble, N
  <2> HIDE DEF made
  <2> QED
    BY <2>1
<1> HIDE DEF made
<1> QED
  BY <1>1, <1>5, <1>6, LineShorter DEF N

(* Later words have larger columns.                                        *)
LEMMA ColumnsFollow ==
  ASSUME NEW W, NEW tokens \in Seq(Seq(W)), NEW row, NEW a, NEW b, Before(a, b),
         a[2] \in Nat, a[3] \in Nat, b[2] \in Nat, b[3] \in Nat,
         O!Column(O!Assemble(tokens).entries, row, a) # Unset,
         O!Column(O!Assemble(tokens).entries, row, b) # Unset
  PROVE  O!Column(O!Assemble(tokens).entries, row, a) < O!Column(O!Assemble(tokens).entries, row, b)
<1> DEFINE entries == O!Assemble(tokens).entries
           Is(i, t, w) == entries[i].index # 0 /\ entries[i].token = t /\ entries[i].index = w
           origin == row.begin + (IF row.marked THEN 1 ELSE 0)
           start == {i \in DOMAIN entries : Is(i, origin, 1)}
           At(c) == {i \in DOMAIN entries : Is(i, c[2], c[3])}
           s == CHOOSE i \in start : TRUE
           Of(c) == CHOOSE i \in At(c) : TRUE
<1>1. Assembled(entries, W, Len(tokens))
  BY LineInOrder
<1> HIDE DEF entries
<1>2. entries \in Seq(Shows(W)) /\ DOMAIN entries = 1..Len(entries) /\ Len(entries) \in Nat
  BY <1>1 DEF Assembled
<1>3. \A c : O!Column(entries, row, c) =
        IF start = {} \/ At(c) = {} THEN Unset ELSE IF Of(c) < s THEN Unset ELSE Of(c) - s
  BY DEF O!Column
<1>4. s \in 1..Len(entries)
  <2>1. start # {}
    BY <1>3 DEF entries
  <2>2. s \in start
    <3> HIDE DEF start
    <3> QED
      BY <2>1
  <2> QED
    BY <1>2, <2>2
<1>5. ASSUME NEW c, O!Column(entries, row, c) # Unset
      PROVE  Of(c) \in 1..Len(entries) /\ Is(Of(c), c[2], c[3]) /\ O!Column(entries, row, c) = Of(c) - s
  <2>1. At(c) # {} /\ O!Column(entries, row, c) = Of(c) - s
    <3> HIDE DEF At, Of, start, s
    <3> QED
      BY <1>3, <1>5
  <2>2. Of(c) \in At(c)
    <3> HIDE DEF At
    <3> QED
      BY <2>1
  <2> QED
    BY <1>2, <2>1, <2>2
<1>6. Of(a) \in 1..Len(entries) /\ Is(Of(a), a[2], a[3]) /\ O!Column(entries, row, a) = Of(a) - s
  BY <1>5 DEF entries
<1>7. Of(b) \in 1..Len(entries) /\ Is(Of(b), b[2], b[3]) /\ O!Column(entries, row, b) = Of(b) - s
  BY <1>5 DEF entries
<1> HIDE DEF Of, s
<1>8. Of(a) < Of(b)
  <2>1. Of(a) # Of(b)
    BY <1>6, <1>7 DEF Before
  <2>2. ~(Of(b) < Of(a))
    <3>1. ASSUME Of(b) < Of(a) PROVE Before(Place(entries[Of(b)]), Place(entries[Of(a)]))
      BY <1>1, <1>6, <1>7, <3>1 DEF Assembled, Ordered
    <3>2. Before(Place(entries[Of(b)]), Place(entries[Of(a)])) => FALSE
      BY <1>6, <1>7 DEF Before, Place
    <3> QED
      BY <3>1, <3>2
  <2> QED
    BY <1>2, <1>6, <1>7, <2>1, <2>2
<1> QED
  BY <1>2, <1>4, <1>6, <1>7, <1>8 DEF entries

(* The words of a list of tokens.                                          *)
Words(tokens) == UNION {{tokens[t][w] : w \in DOMAIN tokens[t]} : t \in DOMAIN tokens}

LEMMA TokensAreWords ==
  ASSUME NEW tokens, IsASequence(tokens), \A t \in DOMAIN tokens : IsASequence(tokens[t])
  PROVE  tokens \in Seq(Seq(Words(tokens))) /\ DOMAIN tokens = 1..Len(tokens) /\ Len(tokens) \in Nat
<1> DEFINE every == {tokens[t] : t \in DOMAIN tokens}
<1>1. tokens \in Seq(every)
  BY DEF IsASequence
<1>2. ASSUME NEW t \in DOMAIN tokens PROVE tokens[t] \in Seq(Words(tokens))
  <2> DEFINE held == {tokens[t][w] : w \in DOMAIN tokens[t]}
  <2>1. tokens[t] \in Seq(held)
    BY DEF IsASequence
  <2>2. held \subseteq Words(tokens)
    BY DEF Words
  <2> HIDE DEF held
  <2> QED
    BY <2>1, <2>2
<1>3. every \subseteq Seq(Words(tokens))
  BY <1>2
<1> HIDE DEF every
<1> QED
  BY <1>1, <1>3

Formed(sources) ==
  \A s \in DOMAIN sources :
    /\ IsASequence(sources[s].tokens)
    /\ \A t \in DOMAIN sources[s].tokens : IsASequence(sources[s].tokens[t])
RowsFormed(run) == /\ IsASequence(run)
                   /\ \A r \in DOMAIN run : run[r].begin \in Nat \ {0} /\ run[r].end \in Nat

LEMMA SourceFound ==
  ASSUME NEW sources, NEW n \in O!Numbers(sources)
  PROVE  \E s \in DOMAIN sources : O!Source(sources, n) = sources[s] /\ sources[s].number = n
<1>1. \E s \in DOMAIN sources : sources[s].number = n
  BY DEF O!Numbers
<1> QED
  BY <1>1 DEF O!Source

LEMMA CellsAreWords ==
  ASSUME NEW sources, Formed(sources), NEW n \in O!Numbers(sources)
  PROVE  LET held == O!Source(sources, n).tokens
         IN  /\ O!Source(sources, n).number = n
             /\ held \in Seq(Seq(Words(held))) /\ Len(held) \in Nat
             /\ \A t \in 1..Len(held), w \in Nat \ {0} : w <= Len(held[t]) => <<n, t, w>> \in O!CellsOf(sources)
<1>1. PICK s \in DOMAIN sources : O!Source(sources, n) = sources[s] /\ sources[s].number = n
  BY SourceFound
<1> DEFINE held == sources[s].tokens
<1>2. held \in Seq(Seq(Words(held))) /\ DOMAIN held = 1..Len(held) /\ Len(held) \in Nat
  BY TokensAreWords DEF Formed
<1>3. ASSUME NEW t \in 1..Len(held), NEW w \in Nat \ {0}, w <= Len(held[t]) PROVE <<n, t, w>> \in O!CellsOf(sources)
  <2>1. held[t] \in Seq(Words(held))
    BY <1>2
  <2>2. w \in DOMAIN held[t] /\ t \in DOMAIN held
    <3>1. DOMAIN held[t] = 1..Len(held[t]) /\ Len(held[t]) \in Nat
      BY <2>1
    <3> QED
      BY <1>2, <1>3, <3>1
  <2> DEFINE here == {<<sources[s].number, t, v>> : v \in DOMAIN held[t]}
             there == UNION {{<<sources[s].number, k, v>> : v \in DOMAIN held[k]} : k \in DOMAIN held}
  <2>3. <<n, t, w>> \in there
    BY <1>1, <2>2
  <2>4. there \subseteq O!CellsOf(sources)
    <3> DEFINE Of(src) == UNION {{<<src.number, k, v>> : v \in DOMAIN src.tokens[k]} : k \in DOMAIN src.tokens}
    <3>1. O!CellsOf(sources) = UNION {Of(src) : src \in {sources[i] : i \in DOMAIN sources}}
      BY DEF O!CellsOf
    <3>2. there = Of(sources[s])
      OBVIOUS
    <3> HIDE DEF Of, there
    <3> QED
      BY <3>1, <3>2
  <2> QED
    BY <2>3, <2>4
<1> QED
  BY <1>1, <1>2, <1>3

LEMMA CellsAreTriples ==
  ASSUME NEW sources, Formed(sources), NEW c \in O!CellsOf(sources)
  PROVE  c[2] \in Nat /\ c[3] \in Nat
<1>1. PICK s \in DOMAIN sources : \E t \in DOMAIN sources[s].tokens : \E w \in DOMAIN sources[s].tokens[t] :
        c = <<sources[s].number, t, w>>
  BY DEF O!CellsOf
<1>2. PICK t \in DOMAIN sources[s].tokens : \E w \in DOMAIN sources[s].tokens[t] : c = <<sources[s].number, t, w>>
  BY <1>1
<1>3. PICK w \in DOMAIN sources[s].tokens[t] : c = <<sources[s].number, t, w>>
  BY <1>2
<1>4. sources[s].tokens \in Seq({sources[s].tokens[k] : k \in DOMAIN sources[s].tokens})
  BY DEF Formed, IsASequence
<1>5. sources[s].tokens[t] \in Seq({sources[s].tokens[t][v] : v \in DOMAIN sources[s].tokens[t]})
  BY DEF Formed, IsASequence
<1>6. t \in Nat /\ w \in Nat
  BY <1>4, <1>5
<1> QED
  BY <1>3, <1>6

(* What a run may claim, and that it claims its words in order.            *)
SourcedRows(sources, run) == {r \in DOMAIN run : run[r].record \in O!Numbers(sources)}
ClaimOf(sources, run, r, c) ==
  [cell |-> c, row |-> r,
   disposition |-> O!Disposition(O!Source(sources, run[r].record), run[r], c[2])]
ProperClaims(sources, run) ==
  {ClaimOf(sources, run, r, c) : r \in SourcedRows(sources, run), c \in O!CellsOf(sources)}
Following(sources, run) ==
  {p \in ProperClaims(sources, run) \X ProperClaims(sources, run) :
     p[1].row = p[2].row => Before(p[1].cell, p[2].cell)}

LEMMA TokenClaims ==
  ASSUME NEW sources, Formed(sources), NEW run, NEW r \in SourcedRows(sources, run),
         NEW t \in 1..Len(O!Source(sources, run[r].record).tokens)
  PROVE  LET claims == O!ClaimsOfToken(O!Source(sources, run[r].record), run[r], r, t)
         IN  /\ claims \in Seq(ProperClaims(sources, run))
             /\ \A i \in 1..Len(claims) : claims[i].row = r /\ claims[i].cell[2] = t
             /\ \A i, j \in 1..Len(claims) : i < j => <<claims[i], claims[j]>> \in Following(sources, run)
<1> DEFINE n == run[r].record
           src == O!Source(sources, n)
           held == src.tokens[t]
           first == IF held # <<>> /\ O!Spacing(src, t, 1) /\ ~(run[r].marked /\ t = run[r].begin /\ t \in src.lengths)
                    THEN 2 ELSE 1
           m == Len(held) - first + 1
           cell(w) == <<n, t, w + first - 1>>
           claims == O!ClaimsOfToken(src, run[r], r, t)
<1>1. n \in O!Numbers(sources) /\ r \in DOMAIN run
  BY DEF SourcedRows
<1>2. /\ src.number = n /\ src.tokens \in Seq(Seq(Words(src.tokens)))
      /\ \A w \in Nat \ {0} : w <= Len(held) => <<n, t, w>> \in O!CellsOf(sources)
  BY <1>1, CellsAreWords
<1>3. held \in Seq(Words(src.tokens)) /\ Len(held) \in Nat
  BY <1>2
<1>4. claims = [w \in 1..m |-> ClaimOf(sources, run, r, cell(w))]
  <2>1. claims = [w \in 1..m |-> [cell |-> <<src.number, t, w + first - 1>>, row |-> r,
                                  disposition |-> O!Disposition(src, run[r], t)]]
    BY DEF O!ClaimsOfToken
  <2>2. \A w \in 1..m : [cell |-> <<src.number, t, w + first - 1>>, row |-> r,
                         disposition |-> O!Disposition(src, run[r], t)] = ClaimOf(sources, run, r, cell(w))
    <3> HIDE DEF first, m
    <3> QED
      BY <1>2 DEF ClaimOf
  <2> HIDE DEF claims, src, m, cell, first
  <2> QED
    BY <2>1, <2>2
<1> HIDE DEF claims
<1>5. m \in Nat /\ first \in {1, 2}
  <2>1. first = 2 => held # <<>>
    OBVIOUS
  <2>2. held # <<>> => Len(held) > 0
    <3> HIDE DEF held
    <3> QED
      BY <1>3
  <2>3. first \in {1, 2}
    OBVIOUS
  <2> HIDE DEF first, held
  <2> QED
    BY <1>3, <2>1, <2>2, <2>3
<1>6. \A w \in 1..m : cell(w) \in O!CellsOf(sources) /\ cell(w)[2] = t /\ cell(w)[3] = w + first - 1
  <2> HIDE DEF first, held
  <2>1. \A w \in 1..m : w + first - 1 \in Nat \ {0} /\ w + first - 1 <= Len(held)
    BY <1>3, <1>5
  <2> HIDE DEF m
  <2> QED
    BY <1>2, <2>1
<1> HIDE DEF m, first
<1>7. \A w \in 1..m : ClaimOf(sources, run, r, cell(w)) \in ProperClaims(sources, run)
  <2> HIDE DEF cell
  <2> QED
    BY <1>6 DEF ProperClaims
<1>8. \A w \in 1..m : ClaimOf(sources, run, r, cell(w)).row = r /\ ClaimOf(sources, run, r, cell(w)).cell = cell(w)
  BY DEF ClaimOf
<1> HIDE DEF cell
<1>9. claims \in Seq(ProperClaims(sources, run)) /\ Len(claims) = m
  <2>1. claims \in [1..m -> ProperClaims(sources, run)]
    BY <1>4, <1>7
  <2> QED
    BY <1>5, <2>1
<1>10. \A w \in 1..m : claims[w] = ClaimOf(sources, run, r, cell(w))
  BY <1>4
<1>11. ASSUME NEW i \in 1..m, NEW j \in 1..m, i < j
       PROVE  <<claims[i], claims[j]>> \in Following(sources, run)
  <2>1. Before(cell(i), cell(j))
    BY <1>5, <1>6, <1>11 DEF Before
  <2>2. claims[i] \in ProperClaims(sources, run) /\ claims[j] \in ProperClaims(sources, run)
    BY <1>7, <1>10
  <2>3. claims[i].cell = cell(i) /\ claims[j].cell = cell(j)
    BY <1>8, <1>10
  <2> QED
    BY <2>1, <2>2, <2>3 DEF Following
<1> QED
  BY <1>6, <1>8, <1>9, <1>10, <1>11 DEF claims

LEMMA SameJoin == \A ss : O!FlattenSeq(ss) = FlattenSeq(ss)
  BY DEF O!FlattenSeq, FlattenSeq

LEMMA RowClaims ==
  ASSUME NEW sources, Formed(sources), NEW run, RowsFormed(run), NEW r \in SourcedRows(sources, run)
  PROVE  LET claims == O!ClaimsOfRow(sources, run[r], r)
         IN  /\ claims \in Seq({c \in ProperClaims(sources, run) : c.row = r})
             /\ \A i, j \in 1..Len(claims) : i < j => <<claims[i], claims[j]>> \in Following(sources, run)
<1> DEFINE n == run[r].record
           src == O!Source(sources, n)
           begin == run[r].begin
           end == run[r].end
           most == Len(src.tokens)
           last == IF end - 1 <= most THEN end - 1 ELSE most
           m == last - begin + 1
           Turn(t) == O!ClaimsOfToken(src, run[r], r, t)
           each == [i \in 1..m |-> Turn(begin + i - 1)]
           size == IF m >= 0 THEN m ELSE 0
           Here == {c \in ProperClaims(sources, run) : c.row = r}
<1>1. n \in O!Numbers(sources) /\ r \in DOMAIN run
  BY DEF SourcedRows
<1>2. most \in Nat /\ begin \in Nat \ {0} /\ end \in Nat
  BY <1>1, CellsAreWords DEF RowsFormed
<1>3. O!ClaimsOfRow(sources, run[r], r) = O!FlattenSeq(each)
  BY DEF O!ClaimsOfRow
<1> HIDE DEF most, begin, end
<1>4. /\ size \in Nat /\ 1..m = 1..size
      /\ \A i \in 1..size : begin + i - 1 \in 1..most
      /\ \A i, j \in 1..size : i < j => begin + i - 1 < begin + j - 1
  BY <1>2
<1> HIDE DEF m, size
<1>5. \A t \in 1..most :
        /\ Turn(t) \in Seq(ProperClaims(sources, run))
        /\ \A k \in 1..Len(Turn(t)) : Turn(t)[k].row = r /\ Turn(t)[k].cell[2] = t
        /\ \A k, l \in 1..Len(Turn(t)) : k < l => <<Turn(t)[k], Turn(t)[l]>> \in Following(sources, run)
  BY TokenClaims DEF most
<1> HIDE DEF Turn
<1>6. \A t \in 1..most : Turn(t) \in Seq(Here)
  <2>1. ASSUME NEW t \in 1..most PROVE Turn(t) \in Seq(Here)
    <3>1. Turn(t) \in Seq(ProperClaims(sources, run)) /\ \A k \in 1..Len(Turn(t)) : Turn(t)[k].row = r
      BY <1>5
    <3>2. \A k \in 1..Len(Turn(t)) : Turn(t)[k] \in Here
      BY <3>1
    <3> HIDE DEF Here
    <3> QED
      BY <3>1, <3>2
  <2> QED
    BY <2>1
<1>7. each \in Seq(Seq(Here)) /\ Len(each) = size /\ \A i \in 1..size : each[i] = Turn(begin + i - 1)
  <2> HIDE DEF Here
  <2>1. each = [i \in 1..size |-> Turn(begin + i - 1)]
    BY <1>4
  <2>2. each \in [1..size -> Seq(Here)]
    BY <1>4, <1>6, <2>1
  <2>3. \A i \in 1..size : each[i] = Turn(begin + i - 1)
    BY <2>1
  <2> DEFINE Made == Seq(Here)
  <2> HIDE DEF each, Made
  <2>4. each \in Seq(Made) /\ Len(each) = size
    BY <1>4, <2>2 DEF Made
  <2> QED
    BY <2>3, <2>4 DEF Made
<1> HIDE DEF each
<1>8. \A i \in 1..Len(each) : \A k, l \in 1..Len(each[i]) : k < l => <<each[i][k], each[i][l]>> \in Following(sources, run)
  BY <1>4, <1>5, <1>7
<1>9. ASSUME NEW i \in 1..Len(each), NEW j \in 1..Len(each), i < j,
             NEW k \in 1..Len(each[i]), NEW l \in 1..Len(each[j])
      PROVE  <<each[i][k], each[j][l]>> \in Following(sources, run)
  <2> DEFINE ti == begin + i - 1  tj == begin + j - 1
  <2>1. ti \in 1..most /\ tj \in 1..most /\ ti < tj /\ each[i] = Turn(ti) /\ each[j] = Turn(tj)
    BY <1>4, <1>7, <1>9
  <2> HIDE DEF ti, tj
  <2>2. Turn(ti)[k].cell[2] = ti /\ Turn(tj)[l].cell[2] = tj
    BY <1>5, <1>9, <2>1
  <2>3. Before(Turn(ti)[k].cell, Turn(tj)[l].cell)
    BY <2>1, <2>2 DEF Before
  <2>4. Turn(ti)[k] \in ProperClaims(sources, run) /\ Turn(tj)[l] \in ProperClaims(sources, run)
    BY <1>5, <1>9, <2>1
  <2> QED
    BY <2>1, <2>3, <2>4 DEF Following
<1>10. /\ FlattenSeq(each) \in Seq(Here)
       /\ \A i, j \in 1..Len(FlattenSeq(each)) :
            i < j => <<FlattenSeq(each)[i], FlattenSeq(each)[j]>> \in Following(sources, run)
  <2> HIDE DEF Here
  <2> QED
    BY <1>7, <1>8, <1>9, JoinedInOrder
<1>11. O!ClaimsOfRow(sources, run[r], r) = FlattenSeq(each)
  BY <1>3, SameJoin
<1> QED
  BY <1>10, <1>11

(* A run claims the words of its rows, up to the first without a record.   *)
LEMMA SourcedUpTo ==
  ASSUME NEW sources, NEW run, IsASequence(run)
  PROVE  /\ O!Sourced(sources, run) \in 0..Len(run)
         /\ \A r \in 1..O!Sourced(sources, run) : r \in SourcedRows(sources, run)
<1> DEFINE lost == {r \in DOMAIN run : run[r].record \notin O!Numbers(sources)}
           least == CHOOSE r \in lost : \A l \in lost : r <= l
<1>1. DOMAIN run = 1..Len(run) /\ Len(run) \in Nat
  BY DEF IsASequence
<1>2. O!Sourced(sources, run) = IF lost = {} THEN Len(run) ELSE least - 1
  BY DEF O!Sourced
<1>3. CASE lost = {}
  BY <1>1, <1>2, <1>3 DEF SourcedRows
<1>4. CASE lost # {}
  <2>1. lost \subseteq Nat
    BY <1>1
  <2>2. \E r \in lost : \A l \in lost : r <= l
    <3> HIDE DEF lost
    <3> QED
      BY <1>4, <2>1, LeastExists
  <2>3. least \in lost /\ \A l \in lost : least <= l
    <3> HIDE DEF lost
    <3> QED
      BY <2>2
  <2> HIDE DEF least
  <2>4. least \in 1..Len(run)
    BY <1>1, <2>3
  <2>5. least - 1 \in 0..Len(run) /\ \A r \in 1..least - 1 : r \in 1..Len(run) /\ ~(least <= r)
    BY <1>1, <2>4
  <2>6. \A r \in 1..least - 1 : r \in DOMAIN run /\ r \notin lost
    BY <1>1, <2>3, <2>5
  <2> QED
    BY <1>2, <1>4, <2>5, <2>6 DEF SourcedRows
<1> QED
  BY <1>3, <1>4

LEMMA ClaimsInOrder ==
  ASSUME NEW sources, Formed(sources), NEW run, RowsFormed(run)
  PROVE  LET claims == O!Claims(sources, run)
         IN  /\ claims \in Seq(ProperClaims(sources, run))
             /\ \A i, j \in 1..Len(claims) : i < j => <<claims[i], claims[j]>> \in Following(sources, run)
<1> DEFINE N == O!Sourced(sources, run)
           Turn(r) == O!ClaimsOfRow(sources, run[r], r)
           each == [r \in 1..N |-> Turn(r)]
           U == ProperClaims(sources, run)
<1>1. N \in Nat /\ \A r \in 1..N : r \in SourcedRows(sources, run)
  BY SourcedUpTo DEF RowsFormed
<1>2. O!Claims(sources, run) = FlattenSeq(each)
  BY SameJoin DEF O!Claims
<1> HIDE DEF N
<1>3. \A r \in 1..N :
        /\ Turn(r) \in Seq({c \in U : c.row = r})
        /\ \A i, j \in 1..Len(Turn(r)) : i < j => <<Turn(r)[i], Turn(r)[j]>> \in Following(sources, run)
  BY <1>1, RowClaims
<1> HIDE DEF Turn
<1>4. \A r \in 1..N : Turn(r) \in Seq(U) /\ \A i \in 1..Len(Turn(r)) : Turn(r)[i] \in U /\ Turn(r)[i].row = r
  <2>1. ASSUME NEW r \in 1..N
        PROVE  Turn(r) \in Seq(U) /\ \A i \in 1..Len(Turn(r)) : Turn(r)[i] \in U /\ Turn(r)[i].row = r
    <3> DEFINE V == {c \in U : c.row = r}
    <3>1. Turn(r) \in Seq(V)
      BY <1>3
    <3>2. V \subseteq U
      OBVIOUS
    <3> HIDE DEF U
    <3>3. \A i \in 1..Len(Turn(r)) : Turn(r)[i] \in V
      <4> HIDE DEF V
      <4> QED
        BY <3>1
    <3>4. Turn(r) \in Seq(U)
      <4> HIDE DEF V
      <4> QED
        BY <3>1, <3>2
    <3> QED
      BY <3>3, <3>4
  <2> QED
    BY <2>1
<1> HIDE DEF U
<1>5. each \in Seq(Seq(U)) /\ Len(each) = N /\ \A r \in 1..N : each[r] = Turn(r)
  <2>1. each \in [1..N -> Seq(U)]
    BY <1>4
  <2> QED
    BY <1>1, <2>1
<1> HIDE DEF each
<1>6. \A r \in 1..Len(each) : \A i, j \in 1..Len(each[r]) : i < j => <<each[r][i], each[r][j]>> \in Following(sources, run)
  BY <1>3, <1>5
<1>7. \A r, q \in 1..Len(each) : r < q =>
        \A i \in 1..Len(each[r]), j \in 1..Len(each[q]) : <<each[r][i], each[q][j]>> \in Following(sources, run)
  <2>1. ASSUME NEW r \in 1..N, NEW q \in 1..N, r < q, NEW i \in 1..Len(Turn(r)), NEW j \in 1..Len(Turn(q))
        PROVE  <<Turn(r)[i], Turn(q)[j]>> \in Following(sources, run)
    BY <1>1, <1>4, <2>1 DEF Following, U
  <2> QED
    BY <1>5, <2>1
<1> QED
  BY <1>2, <1>5, <1>6, <1>7, JoinedInOrder DEF U

LEMMA SequencesJoin ==
  ASSUME NEW s, NEW t, IsASequence(s), IsASequence(t)
  PROVE  /\ IsASequence(s \o t) /\ Len(s) \in Nat /\ Len(t) \in Nat
         /\ DOMAIN s = 1..Len(s) /\ DOMAIN t = 1..Len(t) /\ DOMAIN (s \o t) = 1..Len(s) + Len(t)
         /\ \A i \in 1..Len(s) : (s \o t)[i] = s[i]
         /\ \A i \in 1..Len(t) : (s \o t)[Len(s) + i] = t[i]
<1> DEFINE A == {s[i] : i \in DOMAIN s}
           B == {t[i] : i \in DOMAIN t}
           U == A \cup B
           V == {(s \o t)[i] : i \in DOMAIN (s \o t)}
<1>1. s \in Seq(A) /\ t \in Seq(B)
  BY DEF IsASequence
<1> HIDE DEF A, B
<1>2. s \in Seq(U) /\ t \in Seq(U)
  BY <1>1
<1> HIDE DEF U
<1>3. /\ s \o t \in Seq(U) /\ Len(s \o t) = Len(s) + Len(t)
      /\ \A i \in 1..Len(s) + Len(t) : (s \o t)[i] = IF i <= Len(s) THEN s[i] ELSE t[i - Len(s)]
  BY <1>2, ConcatProperties
<1>4. /\ Len(s) \in Nat /\ Len(t) \in Nat /\ DOMAIN s = 1..Len(s) /\ DOMAIN t = 1..Len(t)
      /\ DOMAIN (s \o t) = 1..Len(s \o t)
  BY <1>2, <1>3
<1> DEFINE both == s \o t
<1>5. IsASequence(both)
  <2> HIDE DEF both
  <2>1. both \in Seq(U) /\ DOMAIN both = 1..Len(both) /\ Len(both) \in Nat
    BY <1>3, <1>4 DEF both
  <2> DEFINE values == {both[i] : i \in DOMAIN both}  n == Len(both)
  <2>2. both \in [1..n -> values] /\ n \in Nat
    BY <2>1
  <2>3. both \in Seq(values)
    <3> HIDE DEF values, n
    <3> QED
      BY <2>2
  <2> QED
    BY <2>3 DEF IsASequence
<1>6. \A i \in 1..Len(s) : i \in 1..Len(s) + Len(t) /\ i <= Len(s)
  BY <1>4
<1>7. \A i \in 1..Len(t) : Len(s) + i \in 1..Len(s) + Len(t) /\ ~(Len(s) + i <= Len(s)) /\ Len(s) + i - Len(s) = i
  BY <1>4
<1> HIDE DEF both
<1>8. \A i \in 1..Len(t) : (s \o t)[Len(s) + i] = t[i]
  BY <1>3, <1>7
<1>9. \A i \in 1..Len(s) : (s \o t)[i] = s[i]
  BY <1>3, <1>6
<1> QED
  BY <1>3, <1>4, <1>5, <1>8, <1>9 DEF both

LEMMA ClaimIs ==
  ASSUME NEW sources, NEW run, NEW claim \in ProperClaims(sources, run)
  PROVE  /\ claim.row \in SourcedRows(sources, run) /\ claim.cell \in O!CellsOf(sources)
         /\ claim.disposition = O!Disposition(O!Source(sources, run[claim.row].record), run[claim.row], claim.cell[2])
  BY DEF ProperClaims, ClaimOf

(* The markers come first.                                                 *)
LEMMA MarkersFirst ==
  ASSUME NEW src, NEW row, row.begin \in Nat, NEW t \in Nat
  PROVE  O!Disposition(src, row, t) = "marker_slot" <=>
           t < row.begin + (IF row.marked THEN 1 ELSE 0)
<1> DEFINE origin == row.begin + (IF row.marked THEN 1 ELSE 0)
<1>1. origin \in Nat
  OBVIOUS
<1>2. O!Disposition(src, row, t) =
        CASE t < origin -> "marker_slot"
          [] t = origin -> "layout_origin"
          [] t > origin /\ O!Padding(src.tokens[t])  -> "layout_padding"
          [] t > origin /\ ~O!Padding(src.tokens[t]) -> "visible_content"
  BY DEF O!Disposition
<1> HIDE DEF origin
<1>3. O!Disposition(src, row, t) = "marker_slot" <=> t < origin
  <2>1. CASE t < origin
    BY <1>1, <1>2, <2>1
  <2>2. CASE t = origin
    BY <1>1, <1>2, <2>2
  <2>3. CASE t > origin
    <3>1. O!Padding(src.tokens[t]) \in BOOLEAN
      BY DEF O!Padding
    <3> QED
      BY <1>1, <1>2, <2>3, <3>1
  <2> QED
    BY <1>1, <2>1, <2>2, <2>3
<1> QED
  BY <1>3 DEF origin

LEMMA PlacedInOrder ==
  ASSUME NEW sources, Formed(sources), NEW run, RowsFormed(run), NEW id, NEW cells,
         O!Taken(O!Claims(sources, run), cells) = {},
         O!Undrawn(O!Claims(sources, run), O!Placed(sources, run, id, O!Claims(sources, run))) = {}
  PROVE  LET claims == O!Claims(sources, run)
             placed == O!Placed(sources, run, id, claims)
         IN  \A i, j \in 1..Len(claims) : i < j =>
               /\ placed[i].cell # placed[j].cell
               /\ placed[i].row = placed[j].row /\ placed[i].column # Unset
                    => placed[j].column # Unset /\ placed[i].column < placed[j].column
<1> DEFINE claims == O!Claims(sources, run)
           placed == O!Placed(sources, run, id, claims)
           entries(r) == O!Assemble(O!Source(sources, run[r].record).tokens).entries
           Marks(i) == claims[i].disposition = "marker_slot"
<1>1. /\ claims \in Seq(ProperClaims(sources, run))
      /\ \A i, j \in 1..Len(claims) : i < j => <<claims[i], claims[j]>> \in Following(sources, run)
  BY ClaimsInOrder
<1> HIDE DEF claims
<1>2. Len(claims) \in Nat /\ DOMAIN claims = 1..Len(claims)
  BY <1>1
<1>3. \A i \in 1..Len(claims) : placed[i] = O!Positioned(sources, run, id, claims[i])
  BY <1>2 DEF O!Placed
<1>4. \A i \in 1..Len(claims) :
        /\ placed[i].cell = claims[i].cell /\ placed[i].row = claims[i].row
        /\ placed[i].column = IF Marks(i) THEN Unset
                              ELSE O!Column(entries(claims[i].row), run[claims[i].row], claims[i].cell)
  <2> HIDE DEF placed
  <2> DEFINE col(i) == IF Marks(i) THEN Unset
                       ELSE O!Column(entries(claims[i].row), run[claims[i].row], claims[i].cell)
  <2>1. ASSUME NEW i \in 1..Len(claims)
        PROVE  placed[i].cell = claims[i].cell /\ placed[i].row = claims[i].row /\ placed[i].column = col(i)
    <3>1. placed[i] = [run |-> id, cell |-> claims[i].cell, row |-> claims[i].row, column |-> col(i)]
      BY <1>3 DEF O!Positioned
    <3> HIDE DEF col
    <3> QED
      BY <3>1
  <2> QED
    BY <2>1
<1>5. \A i \in 1..Len(claims) : ~Marks(i) => placed[i].column # Unset
  BY <1>2 DEF O!Undrawn, claims
<1>6. \A i, j \in 1..Len(claims) : i < j => claims[i].cell # claims[j].cell
  <2>1. \A j \in 1..Len(claims) : ~\E i \in 1..j - 1 : claims[i].cell = claims[j].cell
    BY <1>2 DEF O!Taken, claims
  <2>2. \A i, j \in 1..Len(claims) : i < j => i \in 1..j - 1
    BY <1>2
  <2> QED
    BY <2>1, <2>2
<1> HIDE DEF placed, entries
<1>7. ASSUME NEW i \in 1..Len(claims), NEW j \in 1..Len(claims), i < j,
             placed[i].row = placed[j].row, placed[i].column # Unset
      PROVE  placed[j].column # Unset /\ placed[i].column < placed[j].column
  <2> DEFINE r == claims[i].row  a == claims[i].cell  b == claims[j].cell
             src == O!Source(sources, run[r].record)
  <2>1. claims[i] \in ProperClaims(sources, run) /\ claims[j] \in ProperClaims(sources, run)
    BY <1>1
  <2>2. /\ r \in SourcedRows(sources, run) /\ a \in O!CellsOf(sources) /\ b \in O!CellsOf(sources)
        /\ claims[j].row = r
        /\ claims[i].disposition = O!Disposition(src, run[r], a[2])
        /\ claims[j].disposition = O!Disposition(src, run[r], b[2])
    <3>1. claims[j].row = r
      BY <1>4, <1>7
    <3> QED
      BY <2>1, <3>1, ClaimIs
  <2>3. Before(a, b)
    <3>1. <<claims[i], claims[j]>> \in Following(sources, run)
      BY <1>1, <1>7
    <3>2. claims[i].row = claims[j].row => Before(claims[i].cell, claims[j].cell)
      BY <3>1 DEF Following
    <3> QED
      BY <2>2, <3>2
  <2> HIDE DEF a, b
  <2>4. a[2] \in Nat /\ a[3] \in Nat /\ b[2] \in Nat /\ b[3] \in Nat
    BY <2>2, CellsAreTriples
  <2>5. run[r].begin \in Nat
    BY <2>2 DEF SourcedRows, RowsFormed
  <2>6. ~Marks(i)
    BY <1>4, <1>7
  <2>7. ~Marks(j)
    <3> DEFINE origin == run[r].begin + (IF run[r].marked THEN 1 ELSE 0)
    <3>1. origin \in Nat
      BY <2>5
    <3>2. ~(a[2] < origin)
      BY <2>2, <2>4, <2>5, <2>6, MarkersFirst
    <3>3. ~(b[2] < origin)
      <4> HIDE DEF origin
      <4> QED
        BY <2>3, <2>4, <3>1, <3>2 DEF Before
    <3> QED
      BY <2>2, <2>4, <2>5, <3>3, MarkersFirst
  <2>8. /\ placed[i].column = O!Column(entries(r), run[r], a)
        /\ placed[j].column = O!Column(entries(r), run[r], b)
        /\ placed[j].column # Unset
    BY <1>4, <1>5, <2>2, <2>6, <2>7 DEF a, b
  <2>9. src.tokens \in Seq(Seq(Words(src.tokens)))
    BY <2>2, CellsAreWords DEF SourcedRows
  <2>10. O!Column(entries(r), run[r], a) < O!Column(entries(r), run[r], b)
    <3> HIDE DEF r
    <3>1. entries(r) = O!Assemble(src.tokens).entries
      BY DEF entries
    <3> HIDE DEF src
    <3> QED
      BY <1>7, <2>3, <2>4, <2>8, <2>9, <3>1, ColumnsFollow
  <2> QED
    BY <2>8, <2>10
<1>8. \A i, j \in 1..Len(claims) : i < j =>
        /\ placed[i].cell # placed[j].cell
        /\ placed[i].row = placed[j].row /\ placed[i].column # Unset
             => placed[j].column # Unset /\ placed[i].column < placed[j].column
  BY <1>4, <1>6, <1>7
<1> QED
  BY <1>8 DEF claims, placed

Claiming(id) == O!Claims(topic.sources, topic.runs[id])
Placing(id)  == O!Placed(topic.sources, topic.runs[id], id, Claiming(id))
Refused(id)  == O!Taken(Claiming(id), ledger.cells) \cup O!Undrawn(Claiming(id), Placing(id)) # {}
Broken(id, before) == \/ before.broken
                      \/ /\ O!Sourced(topic.sources, topic.runs[id]) # Len(topic.runs[id])
                         /\ O!Taken(Claiming(id), before.cells) = {}
IsALedger(l) == l = [cells |-> l.cells, rows |-> l.rows, conflicts |-> l.conflicts, broken |-> l.broken]

(* The ledger without the conflicts is what the runs without one make.     *)
Traced ==
  \E g : /\ g[0] = O!Empty(topic.sources)
         /\ \A id \in 1..next - 1 :
              g[id] = IF id \in ledger.conflicts THEN g[id - 1]
                      ELSE O!OwnRun(topic.sources, topic.runs[id], id, g[id - 1])
         /\ g[next - 1] = [ledger EXCEPT !.conflicts = {}]

LedgerInv ==
  /\ topic \in Laid /\ next \in 1..Len(topic.runs) + 1
  /\ IsALedger(ledger) /\ ledger.broken \in BOOLEAN
  /\ DOMAIN ledger.cells = O!CellsOf(topic.sources) /\ IsASequence(ledger.rows)
  /\ \A c \in DOMAIN ledger.cells : ledger.cells[c].run \in {Unset} \cup 1..next - 1
  /\ \A i \in DOMAIN ledger.rows : ledger.rows[i].run \in 1..next - 1
  /\ ledger.conflicts \subseteq 1..next - 1
  /\ \A id \in 1..next - 1 : O!DrawnWhole(id)
  /\ ~ledger.broken => Traced

(* A ledger that is revised, field by field.                               *)
LEMMA Bare ==
  ASSUME NEW l, IsALedger(l), NEW k
  PROVE  [l EXCEPT !.conflicts = k] = [cells |-> l.cells, rows |-> l.rows, conflicts |-> k, broken |-> l.broken]
  BY DEF IsALedger
LEMMA ALedger ==
  ASSUME NEW c, NEW r, NEW k, NEW b, NEW l, l = [cells |-> c, rows |-> r, conflicts |-> k, broken |-> b]
  PROVE  IsALedger(l) /\ l.cells = c /\ l.rows = r /\ l.conflicts = k /\ l.broken = b
  BY DEF IsALedger
LEMMA RevisedRefused ==
  ASSUME NEW l, IsALedger(l), NEW k, NEW b
  PROVE  [l EXCEPT !.conflicts = k, !.broken = b] =
           [cells |-> l.cells, rows |-> l.rows, conflicts |-> k, broken |-> b]
<1> DEFINE m == [l EXCEPT !.conflicts = k]
<1>1. [l EXCEPT !.conflicts = k, !.broken = b] = [m EXCEPT !.broken = b]
  OBVIOUS
<1>2. m = [cells |-> l.cells, rows |-> l.rows, conflicts |-> k, broken |-> l.broken]
  BY Bare
<1> HIDE DEF m
<1>3. IsALedger(m) /\ m.cells = l.cells /\ m.rows = l.rows /\ m.conflicts = k
  BY <1>2, ALedger
<1>4. [m EXCEPT !.broken = b] = [cells |-> m.cells, rows |-> m.rows, conflicts |-> m.conflicts, broken |-> b]
  BY <1>3 DEF IsALedger
<1> QED
  BY <1>1, <1>3, <1>4
LEMMA LaidOut ==
  ASSUME topic \in Laid
  PROVE  /\ Formed(topic.sources) /\ Len(topic.runs) \in Nat /\ DOMAIN topic.runs = 1..Len(topic.runs)
         /\ \A id \in DOMAIN topic.runs : RowsFormed(topic.runs[id])
<1>1. IsASequence(topic.runs) /\ Formed(topic.sources)
  BY LayoutsAssumption DEF Formed
<1>2. \A id \in DOMAIN topic.runs : RowsFormed(topic.runs[id])
  BY LayoutsAssumption DEF RowsFormed
<1> QED
  BY <1>1, <1>2 DEF IsASequence

LEMMA LedgerStarts == O!Init => LedgerInv
<1> SUFFICES ASSUME O!Init PROVE LedgerInv
  OBVIOUS
<1>1. topic \in Laid /\ next = 1 /\ ledger = O!Empty(topic.sources)
  BY DEF O!Init
<1>2. Len(topic.runs) \in Nat
  BY <1>1, LaidOut
<1>3. /\ ledger.cells = O!Initially(topic.sources) /\ ledger.rows = <<>>
      /\ ledger.conflicts = {} /\ ledger.broken = FALSE /\ IsALedger(ledger)
  BY <1>1 DEF O!Empty, IsALedger
<1>4. DOMAIN ledger.cells = O!CellsOf(topic.sources) /\ \A c \in DOMAIN ledger.cells : ledger.cells[c].run = Unset
  BY <1>3 DEF O!Initially
<1>5. IsASequence(ledger.rows) /\ DOMAIN ledger.rows = {}
  BY <1>3 DEF IsASequence
<1>6. Traced
  <2> DEFINE g == [i \in {0} |-> O!Empty(topic.sources)]
  <2>1. g[0] = O!Empty(topic.sources) /\ next - 1 = 0 /\ 1..0 = {}
    BY <1>1
  <2>2. [ledger EXCEPT !.conflicts = {}] = O!Empty(topic.sources)
    <3>1. [ledger EXCEPT !.conflicts = {}] =
            [cells |-> ledger.cells, rows |-> ledger.rows, conflicts |-> {}, broken |-> ledger.broken]
      BY <1>3, Bare
    <3> QED
      BY <1>3, <3>1 DEF O!Empty
  <2> HIDE DEF g
  <2> QED
    BY <2>1, <2>2 DEF Traced
<1>7. next \in 1..Len(topic.runs) + 1 /\ 1..next - 1 = {}
  BY <1>1, <1>2
<1> QED
  BY <1>1, <1>3, <1>4, <1>5, <1>6, <1>7 DEF LedgerInv

(* What one run makes of a ledger.                                         *)
LEMMA OneRun ==
  ASSUME NEW id, NEW before, IsALedger(before)
  PROVE  O!OwnRun(topic.sources, topic.runs[id], id, before) =
           IF O!Taken(Claiming(id), before.cells) \cup O!Undrawn(Claiming(id), Placing(id)) # {}
           THEN [cells |-> before.cells, rows |-> before.rows,
                 conflicts |-> before.conflicts \cup {id}, broken |-> Broken(id, before)]
           ELSE [cells |-> O!Owned(before.cells, id, Claiming(id)), rows |-> before.rows \o Placing(id),
                 conflicts |-> before.conflicts, broken |-> Broken(id, before)]
<1> DEFINE taken == O!Taken(Claiming(id), before.cells)
           undrawn == O!Undrawn(Claiming(id), Placing(id))
           complete == O!Sourced(topic.sources, topic.runs[id]) = Len(topic.runs[id])
           broken == before.broken \/ (~complete /\ taken = {})
<1>1. O!OwnRun(topic.sources, topic.runs[id], id, before) =
        IF taken \cup undrawn # {}
        THEN [before EXCEPT !.conflicts = before.conflicts \cup {id}, !.broken = broken]
        ELSE [before EXCEPT !.cells = O!Owned(before.cells, id, Claiming(id)),
                            !.rows = before.rows \o Placing(id), !.broken = broken]
  BY DEF O!OwnRun, O!OwnClaims, O!OwnWhole, Claiming, Placing
<1>2. broken = Broken(id, before)
  BY DEF Broken
<1> HIDE DEF taken, undrawn, broken
<1>3. [before EXCEPT !.conflicts = before.conflicts \cup {id}, !.broken = broken] =
        [cells |-> before.cells, rows |-> before.rows,
         conflicts |-> before.conflicts \cup {id}, broken |-> broken]
  BY RevisedRefused
<1>4. ASSUME NEW c, NEW r
      PROVE  [before EXCEPT !.cells = c, !.rows = r, !.broken = broken] =
               [cells |-> c, rows |-> r, conflicts |-> before.conflicts, broken |-> broken]
  <2> DEFINE m == [before EXCEPT !.cells = c]
             n == [m EXCEPT !.rows = r]
  <2>1. [before EXCEPT !.cells = c, !.rows = r, !.broken = broken] = [n EXCEPT !.broken = broken]
    OBVIOUS
  <2>2. m = [cells |-> c, rows |-> before.rows, conflicts |-> before.conflicts, broken |-> before.broken]
    BY DEF IsALedger
  <2> HIDE DEF m
  <2>3. IsALedger(m) /\ m.cells = c /\ m.conflicts = before.conflicts /\ m.broken = before.broken
    BY <2>2, ALedger
  <2>4. n = [cells |-> m.cells, rows |-> r, conflicts |-> m.conflicts, broken |-> m.broken]
    BY <2>3 DEF IsALedger
  <2> HIDE DEF n
  <2>5. IsALedger(n) /\ n.cells = c /\ n.rows = r /\ n.conflicts = before.conflicts
    BY <2>3, <2>4, ALedger
  <2>6. [n EXCEPT !.broken = broken] = [cells |-> n.cells, rows |-> n.rows, conflicts |-> n.conflicts, broken |-> broken]
    BY <2>5 DEF IsALedger
  <2> QED
    BY <2>1, <2>5, <2>6
<1> QED
  BY <1>1, <1>2, <1>3, <1>4 DEF taken, undrawn

(* The trace goes on with the ledger, as long as it is not broken.         *)
LEMMA TraceGoesOn ==
  ASSUME LedgerInv, next <= Len(topic.runs), topic' = topic, next' = next + 1, ~ledger.broken, Traced,
         ledger' = O!OwnRun(topic.sources, topic.runs[next], next, ledger), ~ledger'.broken
  PROVE  Traced'
<1> DEFINE bare == [ledger EXCEPT !.conflicts = {}]
           bare2 == [ledger' EXCEPT !.conflicts = {}]
<1>1. PICK g : /\ g[0] = O!Empty(topic.sources)
               /\ \A id \in 1..next - 1 :
                    g[id] = IF id \in ledger.conflicts THEN g[id - 1]
                            ELSE O!OwnRun(topic.sources, topic.runs[id], id, g[id - 1])
               /\ g[next - 1] = bare
  BY DEF Traced
<1>2. next \in Nat /\ next # 0 /\ ledger.conflicts \subseteq 1..next - 1 /\ IsALedger(ledger) /\ ledger.broken = FALSE
  BY DEF LedgerInv
<1>3. /\ bare = [cells |-> ledger.cells, rows |-> ledger.rows, conflicts |-> {}, broken |-> ledger.broken]
      /\ bare.cells = ledger.cells /\ bare.rows = ledger.rows /\ bare.conflicts = {} /\ bare.broken = ledger.broken
      /\ IsALedger(bare)
  <2>1. bare = [cells |-> ledger.cells, rows |-> ledger.rows, conflicts |-> {}, broken |-> ledger.broken]
    BY <1>2, Bare
  <2> HIDE DEF bare
  <2> QED
    BY <2>1, ALedger
<1> HIDE DEF bare
<1>4. /\ Refused(next) => /\ next \in ledger'.conflicts /\ bare2 = bare
                          /\ ledger'.conflicts = ledger.conflicts \cup {next}
      /\ ~Refused(next) => /\ ledger'.conflicts = ledger.conflicts
                           /\ bare2 = O!OwnRun(topic.sources, topic.runs[next], next, bare)
  <2> DEFINE B == Broken(next, ledger)
  <2>1. B = Broken(next, bare)
    BY <1>3 DEF Broken
  <2>2. CASE Refused(next)
    <3>1. ledger' = [cells |-> ledger.cells, rows |-> ledger.rows,
                     conflicts |-> ledger.conflicts \cup {next}, broken |-> B]
      BY <1>2, <2>2, OneRun DEF Refused
    <3>2. B \in BOOLEAN
      BY DEF Broken
    <3> HIDE DEF B
    <3>3. /\ IsALedger(ledger') /\ ledger'.cells = ledger.cells /\ ledger'.rows = ledger.rows
          /\ ledger'.conflicts = ledger.conflicts \cup {next} /\ ledger'.broken = B
      BY <3>1, ALedger
    <3>4. ledger'.broken = FALSE
      BY <3>2, <3>3
    <3>5. bare2 = [cells |-> ledger'.cells, rows |-> ledger'.rows, conflicts |-> {}, broken |-> ledger'.broken]
      BY <3>3, Bare
    <3> HIDE DEF bare2
    <3>6. bare2 = bare
      BY <1>2, <1>3, <3>3, <3>4, <3>5
    <3> QED
      BY <2>2, <3>3, <3>6
  <2>3. CASE ~Refused(next)
    <3>1. ledger' = [cells |-> O!Owned(ledger.cells, next, Claiming(next)), rows |-> ledger.rows \o Placing(next),
                     conflicts |-> ledger.conflicts, broken |-> B]
      BY <1>2, <2>3, OneRun DEF Refused
    <3>2. O!OwnRun(topic.sources, topic.runs[next], next, bare) =
            [cells |-> O!Owned(ledger.cells, next, Claiming(next)), rows |-> ledger.rows \o Placing(next),
             conflicts |-> {}, broken |-> B]
      BY <1>3, <2>1, <2>3, OneRun DEF Refused
    <3> HIDE DEF B
    <3>3. /\ IsALedger(ledger') /\ ledger'.cells = O!Owned(ledger.cells, next, Claiming(next))
          /\ ledger'.rows = ledger.rows \o Placing(next)
          /\ ledger'.conflicts = ledger.conflicts /\ ledger'.broken = B
      BY <3>1, ALedger
    <3>4. bare2 = [cells |-> ledger'.cells, rows |-> ledger'.rows, conflicts |-> {}, broken |-> ledger'.broken]
      BY <3>3, Bare
    <3> HIDE DEF bare2
    <3>5. bare2 = O!OwnRun(topic.sources, topic.runs[next], next, bare)
      BY <3>2, <3>3, <3>4
    <3> QED
      BY <2>3, <3>3, <3>5
  <2> QED
    BY <2>2, <2>3
<1> HIDE DEF bare2
<1> DEFINE h == [i \in 0..next |-> IF i = next THEN bare2 ELSE g[i]]
<1>5. /\ h[0] = g[0] /\ h[next] = bare2 /\ h[next - 1] = bare
      /\ \A id \in 1..next - 1 : h[id] = g[id] /\ h[id - 1] = g[id - 1]
  <2>1. /\ 0 \in 0..next /\ next \in 0..next /\ next - 1 \in 0..next /\ next - 1 # next
        /\ \A id \in 1..next - 1 : id \in 0..next /\ id - 1 \in 0..next /\ id # next /\ id - 1 # next
    BY <1>2
  <2> QED
    BY <1>1, <1>2, <2>1
<1> HIDE DEF h
<1>6. \A id \in 1..next : id = next \/ id \in 1..next - 1
  BY <1>2
<1>7. \A id \in 1..next - 1 : id \in ledger'.conflicts <=> id \in ledger.conflicts
  BY <1>2, <1>4
<1>8. ASSUME NEW id \in 1..next
      PROVE  h[id] = IF id \in ledger'.conflicts THEN h[id - 1]
                     ELSE O!OwnRun(topic.sources, topic.runs[id], id, h[id - 1])
  <2>1. CASE id = next
    <3>1. ~Refused(next) => next \notin ledger'.conflicts
      BY <1>2, <1>4
    <3> QED
      BY <1>4, <1>5, <2>1, <3>1
  <2>2. CASE id \in 1..next - 1
    BY <1>1, <1>5, <1>7, <2>2
  <2> QED
    BY <1>6, <2>1, <2>2
<1>9. next' - 1 = next
  BY <1>2
<1>10. \E f : /\ f[0] = O!Empty(topic.sources)
              /\ \A id \in 1..next : f[id] = IF id \in ledger'.conflicts THEN f[id - 1]
                                             ELSE O!OwnRun(topic.sources, topic.runs[id], id, f[id - 1])
              /\ f[next] = bare2
  BY <1>1, <1>5, <1>8
<1> QED
  BY <1>9, <1>10 DEF Traced, bare2

(* DrawnWhole(), of any ledger.                                            *)
Owns(id, kept)  == {c \in DOMAIN kept : kept[c].run = id}
Draws(id, drawn) == {i \in DOMAIN drawn : drawn[i].run = id}
LeftToRight(a, b) == /\ a.cell # b.cell
                     /\ a.row = b.row /\ a.column # Unset => b.column # Unset /\ a.column < b.column
Whole(id, claimed, kept, drawn, refused) ==
  IF id \in refused THEN Owns(id, kept) = {} /\ Draws(id, drawn) = {}
  ELSE /\ Owns(id, kept) = claimed
       /\ {drawn[i].cell : i \in Draws(id, drawn)} = Owns(id, kept)
       /\ \A i, j \in Draws(id, drawn) : i < j => LeftToRight(drawn[i], drawn[j])

LEMMA WholeIs ==
  ASSUME NEW id
  PROVE  /\ O!DrawnWhole(id) <=> Whole(id, O!Claimed(id), ledger.cells, ledger.rows, ledger.conflicts)
         /\ O!DrawnWhole(id)' <=> Whole(id, O!Claimed(id)', ledger'.cells, ledger'.rows, ledger'.conflicts)
<1>1. O!OwnedBy(id) = Owns(id, ledger.cells) /\ O!RowsOf(id) = Draws(id, ledger.rows)
  BY DEF O!OwnedBy, O!RowsOf, Owns, Draws
<1>2. O!OwnedBy(id)' = Owns(id, ledger'.cells) /\ O!RowsOf(id)' = Draws(id, ledger'.rows)
  BY DEF O!OwnedBy, O!RowsOf, Owns, Draws
<1> QED
  BY <1>1, <1>2 DEF O!DrawnWhole, Whole, LeftToRight

LEMMA PlacedIs ==
  ASSUME NEW sources, NEW run, NEW id, NEW claims, NEW U, claims \in Seq(U)
  PROVE  LET placed == O!Placed(sources, run, id, claims)
         IN  /\ IsASequence(placed) /\ Len(placed) = Len(claims) /\ Len(claims) \in Nat
             /\ DOMAIN claims = 1..Len(claims) /\ DOMAIN placed = 1..Len(claims)
             /\ \A i \in 1..Len(claims) : placed[i].run = id /\ placed[i].cell = claims[i].cell
<1> DEFINE n == Len(claims)
           at(i) == O!Positioned(sources, run, id, claims[i])
           placed == O!Placed(sources, run, id, claims)
           values == {placed[i] : i \in DOMAIN placed}
<1>1. n \in Nat /\ DOMAIN claims = 1..n
  OBVIOUS
<1>2. placed = [i \in 1..n |-> at(i)]
  BY <1>1 DEF O!Placed
<1>3. \A i \in 1..n : at(i).run = id /\ at(i).cell = claims[i].cell
  <2>1. ASSUME NEW i \in 1..n PROVE at(i).run = id /\ at(i).cell = claims[i].cell
    <3> DEFINE col == IF claims[i].disposition = "marker_slot" THEN Unset
                      ELSE O!Column(O!Assemble(O!Source(sources, run[claims[i].row].record).tokens).entries,
                                    run[claims[i].row], claims[i].cell)
    <3>1. at(i) = [run |-> id, cell |-> claims[i].cell, row |-> claims[i].row, column |-> col]
      BY DEF O!Positioned
    <3> HIDE DEF col, at
    <3> QED
      BY <3>1
  <2> QED
    BY <2>1
<1> HIDE DEF n, at, placed
<1>4. DOMAIN placed = 1..n /\ \A i \in 1..n : placed[i] = at(i)
  BY <1>2
<1>5. placed \in [1..n -> values]
  BY <1>2, <1>4
<1>6. placed \in Seq(values) /\ Len(placed) = n
  <2> HIDE DEF values
  <2> QED
    BY <1>1, <1>5
<1> QED
  BY <1>1, <1>3, <1>4, <1>6 DEF IsASequence, n, placed

(* What a run that claims nothing of what is taken comes to own.           *)
LEMMA OwnedIs ==
  ASSUME NEW kept, NEW new, NEW claims, NEW U, claims \in Seq(U), O!Taken(claims, kept) = {},
         \A i \in 1..Len(claims) : claims[i].cell \in DOMAIN kept
  PROVE  LET owned == O!Owned(kept, new, claims)
             claimed == {claims[i].cell : i \in DOMAIN claims}
         IN  /\ DOMAIN owned = DOMAIN kept /\ claimed \subseteq DOMAIN kept
             /\ \A c \in claimed : owned[c].run = new /\ kept[c].run = Unset
             /\ \A c \in DOMAIN kept \ claimed : owned[c] = kept[c]
<1> DEFINE owned == O!Owned(kept, new, claims)
           claimed == {claims[i].cell : i \in DOMAIN claims}
           made(c) == {i \in DOMAIN claims : claims[i].cell = c}
           pick(c) == claims[CHOOSE i \in made(c) : TRUE]
<1>1. DOMAIN claims = 1..Len(claims)
  OBVIOUS
<1>2. owned = [c \in DOMAIN kept |->
                 IF made(c) = {} THEN kept[c]
                 ELSE [run |-> new, row |-> pick(c).row, disposition |-> pick(c).disposition]]
  BY DEF O!Owned
<1>3. claimed \subseteq DOMAIN kept
  BY <1>1
<1>4. ASSUME NEW c \in claimed PROVE owned[c].run = new /\ kept[c].run = Unset
  <2>1. made(c) # {}
    OBVIOUS
  <2>2. owned[c] = [run |-> new, row |-> pick(c).row, disposition |-> pick(c).disposition]
    <3> HIDE DEF made, pick, owned, claimed
    <3> QED
      BY <1>2, <1>3, <2>1
  <2>3. kept[c].run = Unset
    BY <2>1 DEF O!Taken
  <2> HIDE DEF owned, pick
  <2> QED
    BY <2>2, <2>3
<1>5. ASSUME NEW c \in DOMAIN kept \ claimed PROVE owned[c] = kept[c]
  <2>1. made(c) = {}
    OBVIOUS
  <2> HIDE DEF made, pick, owned, claimed
  <2> QED
    BY <1>2, <2>1
<1>6. DOMAIN owned = DOMAIN kept
  BY <1>2
<1> QED
  BY <1>3, <1>4, <1>5, <1>6

LEMMA OthersStayWhole ==
  ASSUME NEW id, id # Unset, NEW new, new # id, NEW claimed, NEW kept, NEW drawn, NEW refused,
         Whole(id, claimed, kept, drawn, refused), IsASequence(drawn),
         NEW placed, IsASequence(placed), \A i \in DOMAIN placed : placed[i].run = new,
         NEW U, NEW claims \in Seq(U), O!Taken(claims, kept) = {},
         \A i \in 1..Len(claims) : claims[i].cell \in DOMAIN kept
  PROVE  Whole(id, claimed, O!Owned(kept, new, claims), drawn \o placed, refused)
<1> DEFINE owned == O!Owned(kept, new, claims)
           both == drawn \o placed
           mine == {claims[i].cell : i \in DOMAIN claims}
<1>0. /\ DOMAIN owned = DOMAIN kept /\ mine \subseteq DOMAIN kept
      /\ \A c \in mine : owned[c].run = new
      /\ \A c \in DOMAIN kept \ mine : owned[c] = kept[c]
  BY OwnedIs
<1>1. \A c \in mine : kept[c].run = Unset
  BY DEF O!Taken
<1> HIDE DEF owned, mine
<1>2. Owns(id, owned) = Owns(id, kept)
  BY <1>0, <1>1 DEF Owns
<1>3. /\ Len(drawn) \in Nat /\ Len(placed) \in Nat
      /\ DOMAIN drawn = 1..Len(drawn) /\ DOMAIN placed = 1..Len(placed) /\ DOMAIN both = 1..Len(drawn) + Len(placed)
      /\ \A i \in 1..Len(drawn) : both[i] = drawn[i]
      /\ \A i \in 1..Len(placed) : both[Len(drawn) + i] = placed[i]
  BY SequencesJoin
<1> HIDE DEF both
<1>4. \A i \in DOMAIN both : i \in DOMAIN drawn \/ both[i].run = new
  <2>1. ASSUME NEW i \in DOMAIN both, i \notin DOMAIN drawn PROVE both[i].run = new
    <3>1. i - Len(drawn) \in 1..Len(placed) /\ Len(drawn) + (i - Len(drawn)) = i
      BY <1>3, <2>1
    <3>2. both[i] = placed[i - Len(drawn)]
      BY <1>3, <3>1
    <3> QED
      BY <1>3, <3>1, <3>2
  <2> QED
    BY <2>1
<1>5. DOMAIN drawn \subseteq DOMAIN both /\ \A i \in DOMAIN drawn : both[i] = drawn[i]
  BY <1>3
<1>6. Draws(id, both) = Draws(id, drawn) /\ \A i \in Draws(id, drawn) : both[i] = drawn[i]
  BY <1>4, <1>5 DEF Draws
<1>7. {both[i].cell : i \in Draws(id, both)} = {drawn[i].cell : i \in Draws(id, drawn)}
  BY <1>6
<1> QED
  BY <1>2, <1>6, <1>7 DEF Whole, owned, both

LEMMA NewIsWhole ==
  ASSUME NEW new, NEW kept, NEW drawn, NEW refused, new \notin refused,
         \A c \in DOMAIN kept : kept[c].run # new, \A i \in DOMAIN drawn : drawn[i].run # new,
         IsASequence(drawn),
         NEW placed, IsASequence(placed), \A i \in DOMAIN placed : placed[i].run = new,
         NEW U, NEW claims \in Seq(U), O!Taken(claims, kept) = {}, Len(placed) = Len(claims),
         \A i \in 1..Len(claims) : claims[i].cell \in DOMAIN kept /\ placed[i].cell = claims[i].cell,
         \A i, j \in 1..Len(claims) : i < j => LeftToRight(placed[i], placed[j]),
         NEW mine, \A c : c \in mine <=> \E i \in 1..Len(claims) : c = claims[i].cell
  PROVE  Whole(new, mine, O!Owned(kept, new, claims), drawn \o placed, refused)
<1> DEFINE owned == O!Owned(kept, new, claims)
           both == drawn \o placed
           L0 == Len(drawn)
           L1 == Len(claims)
<1>0. DOMAIN claims = 1..L1 /\ L1 \in Nat
  OBVIOUS
<1>1. /\ DOMAIN owned = DOMAIN kept /\ mine \subseteq DOMAIN kept
      /\ \A c \in mine : owned[c].run = new
      /\ \A c \in DOMAIN kept \ mine : owned[c] = kept[c]
  <2> DEFINE every == {claims[i].cell : i \in DOMAIN claims}
  <2>1. mine = every
    BY <1>0
  <2>2. /\ DOMAIN owned = DOMAIN kept /\ every \subseteq DOMAIN kept
        /\ \A c \in every : owned[c].run = new
        /\ \A c \in DOMAIN kept \ every : owned[c] = kept[c]
    BY OwnedIs
  <2> HIDE DEF every, owned
  <2> QED
    BY <2>1, <2>2
<1>2. mine = {placed[i].cell : i \in 1..L1}
  BY <1>0
<1> HIDE DEF owned
<1>3. Owns(new, owned) = mine
  BY <1>1 DEF Owns
<1>4. /\ L0 \in Nat /\ DOMAIN drawn = 1..L0 /\ DOMAIN placed = 1..L1 /\ DOMAIN both = 1..L0 + L1
      /\ \A i \in 1..L0 : both[i] = drawn[i]
      /\ \A i \in 1..L1 : both[L0 + i] = placed[i]
  <2>1. /\ Len(drawn) \in Nat /\ Len(placed) \in Nat
        /\ DOMAIN drawn = 1..Len(drawn) /\ DOMAIN placed = 1..Len(placed) /\ DOMAIN both = 1..Len(drawn) + Len(placed)
        /\ \A i \in 1..Len(drawn) : both[i] = drawn[i]
        /\ \A i \in 1..Len(placed) : both[Len(drawn) + i] = placed[i]
    BY ONLY SequencesJoin, IsASequence(drawn), IsASequence(placed)
  <2> HIDE DEF both
  <2> QED
    BY <2>1
<1> HIDE DEF both, L0, L1
<1>5. ASSUME NEW i \in DOMAIN both
      PROVE  IF i <= L0 THEN both[i].run # new
             ELSE i - L0 \in 1..L1 /\ both[i] = placed[i - L0] /\ both[i].run = new
  <2>1. CASE i <= L0
    <3>1. i \in 1..L0
      BY <1>0, <1>4, <2>1
    <3> QED
      BY <1>4, <2>1, <3>1
  <2>2. CASE ~(i <= L0)
    <3>1. i - L0 \in 1..L1 /\ L0 + (i - L0) = i
      BY <1>0, <1>4, <2>2
    <3>2. both[i] = placed[i - L0]
      BY <1>4, <3>1
    <3> QED
      BY <1>4, <2>2, <3>1, <3>2
  <2> QED
    BY <2>1, <2>2
<1>6. ASSUME NEW i \in 1..L1 PROVE L0 + i \in Draws(new, both) /\ both[L0 + i] = placed[i]
  <2>1. L0 + i \in DOMAIN both /\ ~(L0 + i <= L0)
    BY <1>0, <1>4
  <2> QED
    BY <1>4, <1>5, <2>1 DEF Draws
<1>7. \A i \in Draws(new, both) : i \in DOMAIN both /\ i - L0 \in 1..L1 /\ both[i] = placed[i - L0]
  BY <1>5 DEF Draws
<1>8. {both[i].cell : i \in Draws(new, both)} = mine
  <2>1. ASSUME NEW i \in Draws(new, both) PROVE both[i].cell \in mine
    BY <1>2, <1>7
  <2>2. ASSUME NEW c \in mine PROVE \E i \in Draws(new, both) : both[i].cell = c
    <3>1. PICK i \in 1..L1 : c = placed[i].cell
      BY <1>2
    <3> QED
      BY <1>6, <3>1
  <2> QED
    BY <2>1, <2>2
<1>9. ASSUME NEW i \in Draws(new, both), NEW j \in Draws(new, both), i < j PROVE LeftToRight(both[i], both[j])
  <2>1. i - L0 \in 1..L1 /\ j - L0 \in 1..L1 /\ i - L0 < j - L0
    BY <1>0, <1>4, <1>7, <1>9
  <2> QED
    BY <1>7, <2>1 DEF L1
<1> QED
  BY <1>3, <1>8, <1>9 DEF Whole, owned, both

(* What the runs claim are cells of the topic.                             *)
LEMMA ClaimingIs ==
  ASSUME topic \in Laid, NEW id \in DOMAIN topic.runs
  PROVE  /\ Claiming(id) \in Seq(ProperClaims(topic.sources, topic.runs[id]))
         /\ \A i \in 1..Len(Claiming(id)) : Claiming(id)[i].cell \in O!CellsOf(topic.sources)
<1> DEFINE U == ProperClaims(topic.sources, topic.runs[id])
<1>1. Claiming(id) \in Seq(U)
  BY LaidOut, ClaimsInOrder DEF Claiming
<1>2. \A claim \in U : claim.cell \in O!CellsOf(topic.sources)
  BY ClaimIs
<1> HIDE DEF U
<1>3. \A i \in 1..Len(Claiming(id)) : Claiming(id)[i] \in U
  BY <1>1
<1> QED
  BY <1>1, <1>2, <1>3 DEF U

LEMMA ALedgerGoesOn ==
  ASSUME LedgerInv, O!Own
  PROVE  LedgerInv'
<1> DEFINE claims == Claiming(next)
           placed == Placing(next)
           U == ProperClaims(topic.sources, topic.runs[next])
           B == Broken(next, ledger)
<1>1. /\ next <= Len(topic.runs) /\ next' = next + 1 /\ topic' = topic
      /\ ledger' = O!OwnRun(topic.sources, topic.runs[next], next, ledger)
  BY DEF O!Own
<1>2. /\ topic \in Laid /\ IsALedger(ledger) /\ ledger.broken \in BOOLEAN
      /\ DOMAIN ledger.cells = O!CellsOf(topic.sources) /\ IsASequence(ledger.rows)
      /\ \A c \in DOMAIN ledger.cells : ledger.cells[c].run \in {Unset} \cup 1..next - 1
      /\ \A i \in DOMAIN ledger.rows : ledger.rows[i].run \in 1..next - 1
      /\ ledger.conflicts \subseteq 1..next - 1
      /\ ~ledger.broken => Traced
  BY DEF LedgerInv
<1>3. /\ next \in Nat /\ next # 0 /\ next \in DOMAIN topic.runs /\ Len(topic.runs) \in Nat
      /\ next \notin 1..next - 1 /\ next' - 1 = next /\ next' \in 1..Len(topic.runs) + 1
      /\ \A id \in 1..next : id = next \/ id \in 1..next - 1
      /\ 1..next - 1 \subseteq 1..next
      /\ \A id \in 1..next : id # Unset
  <2>1. next \in 1..Len(topic.runs) + 1
    BY DEF LedgerInv
  <2>2. Len(topic.runs) \in Nat /\ DOMAIN topic.runs = 1..Len(topic.runs)
    BY <1>2, LaidOut
  <2>3. next \in 1..Len(topic.runs) /\ Unset \notin Nat
    BY <1>1, <2>1, <2>2, VolumesAssumption
  <2> QED
    BY <1>1, <2>1, <2>2, <2>3
<1>4. /\ claims \in Seq(U)
      /\ \A i \in 1..Len(claims) : claims[i].cell \in DOMAIN ledger.cells
  BY <1>2, <1>3, ClaimingIs
<1>5. B \in BOOLEAN
  BY DEF Broken
<1>6. Refused(next) =>
        /\ IsALedger(ledger') /\ ledger'.cells = ledger.cells /\ ledger'.rows = ledger.rows
        /\ ledger'.conflicts = ledger.conflicts \cup {next} /\ ledger'.broken = B
  <2>1. Refused(next) => ledger' = [cells |-> ledger.cells, rows |-> ledger.rows,
                                    conflicts |-> ledger.conflicts \cup {next}, broken |-> B]
    BY <1>1, <1>2, OneRun DEF Refused
  <2> HIDE DEF B
  <2> QED
    BY <2>1, ALedger
<1>7. ~Refused(next) =>
        /\ IsALedger(ledger') /\ ledger'.cells = O!Owned(ledger.cells, next, claims)
        /\ ledger'.rows = ledger.rows \o placed
        /\ ledger'.conflicts = ledger.conflicts /\ ledger'.broken = B
  <2>1. ~Refused(next) => ledger' = [cells |-> O!Owned(ledger.cells, next, claims), rows |-> ledger.rows \o placed,
                                     conflicts |-> ledger.conflicts, broken |-> B]
    BY <1>1, <1>2, OneRun DEF Refused
  <2> HIDE DEF B, claims, placed
  <2> QED
    BY <2>1, ALedger
<1>8. /\ IsASequence(placed) /\ Len(placed) = Len(claims) /\ Len(claims) \in Nat
      /\ DOMAIN claims = 1..Len(claims) /\ DOMAIN placed = 1..Len(claims)
      /\ \A i \in 1..Len(claims) : placed[i].run = next /\ placed[i].cell = claims[i].cell
  <2> HIDE DEF claims, U
  <2> QED
    BY <1>4, PlacedIs DEF Placing, claims
<1>9. \A id : O!Claimed(id)' = O!Claimed(id)
  BY <1>1 DEF O!Claimed
<1>10. O!Claimed(next) = {claims[i].cell : i \in DOMAIN claims}
  BY DEF O!Claimed, Claiming
<1>11. ~Refused(next) => O!Taken(claims, ledger.cells) = {} /\ O!Undrawn(claims, placed) = {}
  BY DEF Refused
<1>12. ~Refused(next) => \A i, j \in 1..Len(claims) : i < j => LeftToRight(placed[i], placed[j])
  <2> SUFFICES ASSUME ~Refused(next) PROVE \A i, j \in 1..Len(claims) : i < j => LeftToRight(placed[i], placed[j])
    OBVIOUS
  <2> DEFINE run == topic.runs[next]
  <2>1. Formed(topic.sources) /\ RowsFormed(run)
    BY <1>2, <1>3, LaidOut
  <2>2. /\ O!Taken(O!Claims(topic.sources, run), ledger.cells) = {}
        /\ O!Undrawn(O!Claims(topic.sources, run),
                     O!Placed(topic.sources, run, next, O!Claims(topic.sources, run))) = {}
    BY <1>11 DEF Claiming, Placing
  <2>3. LET made == O!Claims(topic.sources, run)
            put == O!Placed(topic.sources, run, next, made)
        IN  \A i, j \in 1..Len(made) : i < j =>
              /\ put[i].cell # put[j].cell
              /\ put[i].row = put[j].row /\ put[i].column # Unset
                   => put[j].column # Unset /\ put[i].column < put[j].column
    <3> HIDE DEF run
    <3> QED
      BY ONLY <2>1, <2>2, PlacedInOrder
  <2> QED
    BY <2>3 DEF Claiming, Placing, LeftToRight
<1> HIDE DEF claims, placed, U, B
<1>13. ASSUME NEW id \in 1..next - 1 PROVE O!DrawnWhole(id)'
  <2>1. Whole(id, O!Claimed(id), ledger.cells, ledger.rows, ledger.conflicts)
    BY WholeIs DEF LedgerInv
  <2>2. CASE Refused(next)
    <3>1. id \in ledger.conflicts \cup {next} <=> id \in ledger.conflicts
      BY <1>3
    <3>2. Whole(id, O!Claimed(id), ledger.cells, ledger.rows, ledger.conflicts \cup {next})
      BY <2>1, <3>1 DEF Whole
    <3> QED
      BY <1>6, <1>9, <2>2, <3>2, WholeIs
  <2>3. CASE ~Refused(next)
    <3>1. id # Unset /\ next # id
      BY <1>3
    <3>2. Whole(id, O!Claimed(id), O!Owned(ledger.cells, next, claims), ledger.rows \o placed, ledger.conflicts)
      BY <1>2, <1>4, <1>8, <1>11, <2>1, <2>3, <3>1, OthersStayWhole
    <3> QED
      BY <1>7, <1>9, <2>3, <3>2, WholeIs
  <2> QED
    BY <2>2, <2>3
<1>14. ASSUME NEW id, id = next PROVE O!DrawnWhole(id)'
  <2>1. /\ \A c \in DOMAIN ledger.cells : ledger.cells[c].run # next
        /\ \A i \in DOMAIN ledger.rows : ledger.rows[i].run # next
        /\ next \notin ledger.conflicts
    <3>1. next \in 1..next
      BY <1>3
    <3>2. next # Unset
      BY <1>3, <3>1
    <3> QED
      BY <1>2, <1>3, <3>2
  <2>2. CASE Refused(next)
    <3>1. Whole(id, O!Claimed(id), ledger.cells, ledger.rows, ledger.conflicts \cup {next})
      BY <1>14, <2>1 DEF Whole, Owns, Draws
    <3> QED
      BY <1>6, <1>9, <2>2, <3>1, WholeIs
  <2>3. CASE ~Refused(next)
    <3>1. \A i \in DOMAIN placed : placed[i].run = id
      BY <1>8, <1>14
    <3>2. \A i \in 1..Len(claims) : claims[i].cell \in DOMAIN ledger.cells /\ placed[i].cell = claims[i].cell
      BY <1>4, <1>8
    <3>3. /\ \A c \in DOMAIN ledger.cells : ledger.cells[c].run # id
          /\ \A i \in DOMAIN ledger.rows : ledger.rows[i].run # id
          /\ id \notin ledger.conflicts
      BY <1>14, <2>1
    <3>4. IsASequence(placed) /\ Len(placed) = Len(claims) /\ IsASequence(ledger.rows)
      BY <1>2, <1>8
    <3>5. O!Taken(claims, ledger.cells) = {} /\ \A i, j \in 1..Len(claims) : i < j => LeftToRight(placed[i], placed[j])
      BY <1>11, <1>12, <2>3
    <3>6. \A c : c \in O!Claimed(id) <=> \E i \in 1..Len(claims) : c = claims[i].cell
      BY <1>8, <1>10, <1>14
    <3>7. Whole(id, O!Claimed(id), O!Owned(ledger.cells, id, claims), ledger.rows \o placed, ledger.conflicts)
      BY ONLY <1>4, <3>1, <3>2, <3>3, <3>4, <3>5, <3>6, NewIsWhole
    <3> QED
      BY <1>7, <1>9, <1>14, <2>3, <3>7, WholeIs
  <2> QED
    BY <2>2, <2>3
<1>15. /\ DOMAIN ledger'.cells = O!CellsOf(topic.sources) /\ IsASequence(ledger'.rows)
       /\ \A c \in DOMAIN ledger'.cells : ledger'.cells[c].run \in {Unset} \cup 1..next
       /\ \A i \in DOMAIN ledger'.rows : ledger'.rows[i].run \in 1..next
       /\ ledger'.conflicts \subseteq 1..next
  <2>0. next \in 1..next
    BY <1>3
  <2>1. CASE Refused(next)
    BY <1>2, <1>3, <1>6, <2>0, <2>1
  <2>2. CASE ~Refused(next)
    <3> DEFINE owned == O!Owned(ledger.cells, next, claims)
               both == ledger.rows \o placed
               mine == {claims[i].cell : i \in DOMAIN claims}
    <3>1. /\ DOMAIN owned = DOMAIN ledger.cells /\ mine \subseteq DOMAIN ledger.cells
          /\ \A c \in mine : owned[c].run = next
          /\ \A c \in DOMAIN ledger.cells \ mine : owned[c] = ledger.cells[c]
      BY <1>4, <1>11, <2>2, OwnedIs
    <3> HIDE DEF owned, mine
    <3>2. \A c \in DOMAIN owned : owned[c].run \in {Unset} \cup 1..next
      BY <1>2, <1>3, <2>0, <3>1
    <3>3. /\ IsASequence(both) /\ Len(ledger.rows) \in Nat /\ Len(placed) \in Nat
          /\ DOMAIN ledger.rows = 1..Len(ledger.rows) /\ DOMAIN placed = 1..Len(placed)
          /\ DOMAIN both = 1..Len(ledger.rows) + Len(placed)
          /\ \A i \in 1..Len(ledger.rows) : both[i] = ledger.rows[i]
          /\ \A i \in 1..Len(placed) : both[Len(ledger.rows) + i] = placed[i]
      BY ONLY <1>2, <1>8, SequencesJoin
    <3> HIDE DEF both
    <3>4. ASSUME NEW i \in DOMAIN both PROVE both[i].run \in 1..next
      <4>1. CASE i \in 1..Len(ledger.rows)
        BY <1>2, <1>3, <3>3, <4>1
      <4>2. CASE i \notin 1..Len(ledger.rows)
        <5>1. i - Len(ledger.rows) \in 1..Len(placed) /\ Len(ledger.rows) + (i - Len(ledger.rows)) = i
          BY <3>3, <4>2
        <5>2. both[i] = placed[i - Len(ledger.rows)]
          BY <3>3, <5>1
        <5> QED
          BY <1>8, <2>0, <5>1, <5>2
      <4> QED
        BY <4>1, <4>2
    <3>5. /\ ledger'.cells = owned /\ ledger'.rows = both /\ ledger'.conflicts = ledger.conflicts
      BY <1>7, <2>2 DEF owned, both
    <3> QED
      BY <1>2, <1>3, <3>1, <3>2, <3>3, <3>4, <3>5
  <2> QED
    BY <2>1, <2>2
<1>16. IsALedger(ledger') /\ ledger'.broken = B
  BY <1>6, <1>7
<1>17. ~ledger'.broken => Traced'
  <2>1. ~B => ~ledger.broken
    BY DEF B, Broken
  <2> QED
    BY <1>1, <1>2, <1>16, <2>1, TraceGoesOn
<1>18. ASSUME NEW id \in 1..next PROVE O!DrawnWhole(id)'
  BY <1>3, <1>13, <1>14
<1>19. (\A id \in 1..next - 1 : O!DrawnWhole(id))'
  <2>1. \A id : id \in (1..next - 1)' <=> id \in 1..next
    BY <1>3
  <2> QED
    BY <1>18, <2>1
<1> QED
  BY <1>1, <1>2, <1>3, <1>5, <1>15, <1>16, <1>17, <1>19 DEF LedgerInv

LEMMA LedgerStays ==
  ASSUME LedgerInv, [O!Own]_<<topic, next, ledger>>
  PROVE  LedgerInv'
<1>1. CASE O!Own
  BY <1>1, ALedgerGoesOn
<1>2. CASE UNCHANGED <<topic, next, ledger>>
  <2>1. topic' = topic /\ next' = next /\ ledger' = ledger
    BY <1>2
  <2>2. ASSUME NEW id \in 1..next - 1 PROVE O!DrawnWhole(id)'
    <3>1. O!Claimed(id)' = O!Claimed(id)
      BY <2>1 DEF O!Claimed
    <3> QED
      BY <2>1, <3>1, WholeIs DEF LedgerInv
  <2>3. (\A id \in 1..next - 1 : O!DrawnWhole(id))'
    <3>1. \A id : id \in (1..next - 1)' <=> id \in 1..next - 1
      BY <2>1
    <3> QED
      BY <2>2, <3>1
  <2>4. Traced' <=> Traced
    BY <2>1 DEF Traced
  <2> QED
    BY <2>1, <2>3, <2>4 DEF LedgerInv, IsALedger
<1> QED
  BY <1>1, <1>2

(* A trace of the ledger is its recursion.                                 *)
LEMMA TraceIsWithout ==
  ASSUME LedgerInv, O!Done, Traced
  PROVE  O!Without(ledger.conflicts) = [ledger EXCEPT !.conflicts = {}]
<1> DEFINE N == Len(topic.runs)
           Turn(f, id) == IF id = 0 THEN O!Empty(topic.sources)
                          ELSE IF id \in ledger.conflicts THEN f[id - 1]
                          ELSE O!OwnRun(topic.sources, topic.runs[id], id, f[id - 1])
           upTo == CHOOSE f : f = [id \in 0..N |-> Turn(f, id)]
<1>1. N \in Nat /\ next - 1 = N
  <2>1. N \in Nat /\ next \in 1..N + 1
    BY LaidOut DEF LedgerInv
  <2> QED
    BY <2>1 DEF O!Done
<1>2. PICK g : /\ g[0] = O!Empty(topic.sources)
               /\ \A id \in 1..N : g[id] = IF id \in ledger.conflicts THEN g[id - 1]
                                           ELSE O!OwnRun(topic.sources, topic.runs[id], id, g[id - 1])
               /\ g[N] = [ledger EXCEPT !.conflicts = {}]
  BY <1>1 DEF Traced
<1>3. O!Without(ledger.conflicts) = upTo[N]
  BY DEF O!Without
<1> HIDE DEF N
<1> DEFINE h == [id \in 0..N |-> g[id]]
<1>4. \A id \in 0..N : h[id] = Turn(h, id)
  <2>1. ASSUME NEW id \in 0..N, id # 0 PROVE id \in 1..N /\ id - 1 \in 0..N
    BY <1>1, <2>1
  <2> QED
    BY <1>2, <2>1
<1>5. h = [id \in 0..N |-> Turn(h, id)]
  <2> HIDE DEF Turn
  <2> QED
    BY <1>4
<1>6. upTo = [id \in 0..N |-> Turn(upTo, id)]
  <2> HIDE DEF Turn, h
  <2> QED
    BY <1>5
<1>7. \A id \in 0..N : upTo[id] = Turn(upTo, id)
  <2> HIDE DEF Turn, upTo
  <2> QED
    BY <1>6
<1> HIDE DEF upTo, h
<1>8. upTo[N] = g[N]
  <2> DEFINE T == {id \in 0..N : upTo[id] = g[id]}
  <2>1. 0 \in T
    BY <1>1, <1>2, <1>7
  <2>2. ASSUME NEW id \in 1..N, id - 1 \in T PROVE id \in T
    <3>1. id \in 0..N /\ id # 0
      BY <1>1
    <3>2. upTo[id] = g[id]
      BY <1>2, <1>7, <2>2, <3>1
    <3> QED
      BY <3>1, <3>2
  <2>3. \A id \in 0..N : id \in T
    <3> HIDE DEF T
    <3> QED
      BY <1>1, <2>1, <2>2, Upwards
  <2> QED
    BY <1>1, <2>3
<1> QED
  BY <1>2, <1>3, <1>8

LEMMA LedgerOwnsWhole == LedgerInv => O!RunsOwnedWhole
<1> SUFFICES ASSUME LedgerInv, O!Done, O!Accepted(topic.sources, topic.runs, ledger)
             PROVE  /\ \A id \in DOMAIN topic.runs : O!DrawnWhole(id)
                    /\ [O!Without(ledger.conflicts) EXCEPT !.conflicts = ledger.conflicts] = ledger
  BY DEF O!RunsOwnedWhole
<1>1. ~ledger.broken
  BY DEF O!Accepted
<1>2. \A id \in DOMAIN topic.runs : O!DrawnWhole(id)
  <2>1. Len(topic.runs) \in Nat /\ DOMAIN topic.runs = 1..Len(topic.runs) /\ next \in 1..Len(topic.runs) + 1
    BY LaidOut DEF LedgerInv
  <2>2. DOMAIN topic.runs = 1..next - 1
    BY <2>1 DEF O!Done
  <2> QED
    BY <2>2 DEF LedgerInv
<1>3. IsALedger(ledger)
  BY DEF LedgerInv
<1> DEFINE bare == [ledger EXCEPT !.conflicts = {}]
<1>4. bare = [cells |-> ledger.cells, rows |-> ledger.rows, conflicts |-> {}, broken |-> ledger.broken]
  BY <1>3, Bare
<1>5. O!Without(ledger.conflicts) = bare
  BY <1>1, TraceIsWithout DEF LedgerInv
<1> HIDE DEF bare
<1>6. IsALedger(bare) /\ bare.cells = ledger.cells /\ bare.rows = ledger.rows /\ bare.broken = ledger.broken
  BY <1>4, ALedger
<1>7. [bare EXCEPT !.conflicts = ledger.conflicts] =
        [cells |-> ledger.cells, rows |-> ledger.rows, conflicts |-> ledger.conflicts, broken |-> ledger.broken]
  BY <1>6, Bare
<1>8. [bare EXCEPT !.conflicts = ledger.conflicts] = ledger
  BY <1>3, <1>7 DEF IsALedger
<1> QED
  BY <1>2, <1>5, <1>8
=============================================================================
