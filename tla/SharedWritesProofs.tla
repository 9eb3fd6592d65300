-------------------------- MODULE SharedWritesProofs --------------------------
(***************************************************************************)
(* The theorems of SharedWrites.  Each call leaves in a handle with a      *)
(* shared block the matrix that it leaves in one with a private block, and *)
(* copies the shared block only to change it.                              *)
(***************************************************************************)
EXTENDS SharedWrites, ZonesProofs

-----------------------------------------------------------------------------
(* Loops that look for a change first.                                       *)

\* What a call may do to a handle with a shared block whose matrix is D, where the call
\* on a private block leaves R: leave the same matrix, give the block up when there is
\* none, and copy it only to change it.
Faithful(O, R, D) ==
  /\ O.dbm = R
  /\ O.block = "none" <=> R = Empty
  /\ O.block = "copy" => R # D

\* Keeping the block is faithful to a call that changes nothing, a copy to one that does.
LEMMA KeptOrCopied ==
  ASSUME NEW D, NEW R
  PROVE  /\ R = D /\ D # Empty => Faithful(Kept(D), R, D)
         /\ R # D /\ R # Empty => Faithful(Copied(R), R, D)
         /\ R = Empty /\ D # Empty => Faithful(Gone, R, D)
BY DEF Faithful, Kept, Copied, Gone

\* A matrix has no other entries.
IsMatrix(D) == D = [i \in Clk |-> [j \in Clk |-> D[i][j]]]

\* Matrices with the same entries are the same.
LEMMA SameEntries ==
  ASSUME NEW D, NEW E, IsMatrix(D), IsMatrix(E), \A i, j \in Clk : D[i][j] = E[i][j]
  PROVE  D = E
<1>1. [i \in Clk |-> [j \in Clk |-> D[i][j]]] = [i \in Clk |-> [j \in Clk |-> E[i][j]]]
  OBVIOUS
<1> QED
  BY <1>1 DEF IsMatrix

\* D where the loop has not been yet, R where it has been: it writes the entry of i and j
\* at the index at[i][j].
Merged(D, R, at, n) ==
  [i \in Clk |-> [j \in Clk |-> IF at[i][j] <= n THEN R[i][j] ELSE D[i][j]]]

\* The indices at which the loop sees a change to make are some of first .. last, and
\* among them is every index at which there is one.
Visits(D, R, at, first, last, indices) ==
  /\ first \in Int /\ last \in Int /\ indices \in SUBSET (first .. last)
  /\ \A i, j \in Clk : at[i][j] \in Int /\ (R[i][j] # D[i][j] => at[i][j] \in indices)
  /\ indices # {} => R # D

\* The entries of these matrices.
LEMMA MergedEntries ==
  ASSUME NEW D, NEW R, NEW at, NEW n
  PROVE  /\ IsMatrix(Merged(D, R, at, n))
         /\ \A i, j \in Clk :
              Merged(D, R, at, n)[i][j] = IF at[i][j] <= n THEN R[i][j] ELSE D[i][j]
BY DEF IsMatrix, Merged

\* The next one has the entries of R that are written at the next index.
LEMMA MergedStep ==
  ASSUME NEW D, NEW R, NEW at, \A i, j \in Clk : at[i][j] \in Int, NEW n \in Int,
         NEW E, IsMatrix(E),
         \A i, j \in Clk :
           E[i][j] = IF at[i][j] = n THEN R[i][j] ELSE Merged(D, R, at, n - 1)[i][j]
  PROVE  E = Merged(D, R, at, n)
<1>1. \A i, j \in Clk : at[i][j] <= n <=> at[i][j] = n \/ at[i][j] <= n - 1
  OBVIOUS
<1>2. \A i, j \in Clk : E[i][j] = Merged(D, R, at, n)[i][j]
  BY <1>1, MergedEntries
<1> QED
  BY <1>2, MergedEntries, SameEntries

\* Before the first index at which there is a change to make, the loop may leave D alone.
LEMMA NothingBefore ==
  ASSUME NEW D, NEW R, IsMatrix(D), IsMatrix(R), NEW at, NEW first, NEW last, NEW indices,
         Visits(D, R, at, first, last, indices)
  PROVE  LET from == Least(indices)
         IN  /\ indices = {} => R = D
             /\ indices # {} => /\ from \in first .. last /\ from \in indices
                                /\ Merged(D, R, at, from - 1) = D
                                /\ Merged(D, R, at, last) = R
<1> DEFINE from == Least(indices)
<1> USE DEF Visits
<1>1. indices = {} => R = D
  BY SameEntries
<1>2. ASSUME indices # {}
      PROVE  /\ from \in first .. last /\ from \in indices
             /\ Merged(D, R, at, from - 1) = D
             /\ Merged(D, R, at, last) = R
  <2>1. from \in indices /\ \A n \in indices : from <= n
    <3>1. indices \in SUBSET Int /\ \A n \in indices : first <= n
      OBVIOUS
    <3> QED
      BY <1>2, <3>1, LeastIsLeast
  <2> HIDE DEF from
  <2>2. \A i, j \in Clk : at[i][j] <= from - 1 => R[i][j] = D[i][j]
    BY <2>1
  <2>3. \A i, j \in Clk : Merged(D, R, at, from - 1)[i][j] = D[i][j]
    BY <2>2, MergedEntries
  <2>4. \A i, j \in Clk : Merged(D, R, at, last)[i][j] = R[i][j]
    BY MergedEntries
  <2>5. Merged(D, R, at, from - 1) = D
    BY <2>3, MergedEntries, SameEntries
  <2>6. Merged(D, R, at, last) = R
    BY <2>4, MergedEntries, SameEntries
  <2> QED
    BY <2>1, <2>5, <2>6
<1> QED
  BY <1>1, <1>2

\* A loop that goes from one of these matrices to the next ends with R.
LEMMA LoopEnds ==
  ASSUME NEW D, NEW R, NEW at, NEW from \in Int, NEW last \in Int, from <= last, NEW written,
         written[from - 1] = Merged(D, R, at, from - 1),
         \A n \in from .. last : written[n - 1] = Merged(D, R, at, n - 1)
                                   => written[n] = Merged(D, R, at, n)
  PROVE  written[last] = Merged(D, R, at, last)
<1> DEFINE S == {m \in Nat : from - 1 + m <= last
                   => written[from - 1 + m] = Merged(D, R, at, from - 1 + m)}
<1>1. 0 \in S
  <2>1. from - 1 + 0 = from - 1
    OBVIOUS
  <2> QED
    BY <2>1
<1>2. ASSUME NEW m \in Nat, m \in S PROVE m + 1 \in S
  <2> DEFINE n == from - 1 + (m + 1)
  <2> SUFFICES ASSUME n <= last PROVE written[n] = Merged(D, R, at, n)
    OBVIOUS
  <2>1. n \in from .. last /\ n - 1 = from - 1 + m /\ from - 1 + m <= last
    OBVIOUS
  <2> HIDE DEF n
  <2> QED
    BY <1>2, <2>1
<1> HIDE DEF S
<1>3. \A m \in Nat : m \in S
  BY <1>1, <1>2, Induction
<1>4. last - (from - 1) \in Nat /\ from - 1 + (last - (from - 1)) = last
  OBVIOUS
<1> QED
  BY <1>3, <1>4 DEF S

\* What the loop writes from the first change on.
Writes(written, D, R, at, from, last) ==
  /\ written[from - 1] = D
  /\ \A n \in from .. last :
       written[n - 1] = Merged(D, R, at, n - 1) => written[n] = Merged(D, R, at, n)

\* Such a loop is faithful.
LEMMA LoopIsFaithful ==
  ASSUME NEW D, NEW R, IsMatrix(D), IsMatrix(R), D # Empty, R # Empty,
         NEW at, NEW first, NEW last, NEW indices, Visits(D, R, at, first, last, indices),
         NEW written,
         indices # {} => Writes(written, D, R, at, Least(indices), last),
         NEW O, O = IF indices = {} THEN Kept(D) ELSE Copied(written[last])
  PROVE  Faithful(O, R, D)
<1> DEFINE from == Least(indices)
<1>1. /\ indices = {} => R = D
      /\ indices # {} => /\ from \in first .. last /\ from \in indices
                         /\ Merged(D, R, at, from - 1) = D
                         /\ Merged(D, R, at, last) = R
  BY NothingBefore
<1>2. CASE indices = {}
  BY <1>1, <1>2, KeptOrCopied
<1>3. CASE indices # {}
  <2>1. from \in Int /\ last \in Int /\ from <= last /\ R # D
    BY <1>1, <1>3 DEF Visits
  <2>2. /\ written[from - 1] = Merged(D, R, at, from - 1)
        /\ \A n \in from .. last :
             written[n - 1] = Merged(D, R, at, n - 1) => written[n] = Merged(D, R, at, n)
    BY <1>1, <1>3 DEF Writes
  <2> HIDE DEF from
  <2>3. written[last] = Merged(D, R, at, last)
    BY <2>1, <2>2, LoopEnds
  <2> QED
    BY <1>1, <1>3, <2>1, <2>3, KeptOrCopied
<1> QED
  BY <1>2, <1>3

-----------------------------------------------------------------------------
(* Delay and freeing.                                                        *)

\* The loop of ptr_up removes the upper bounds that there are.
LEMMA UpFaithful ==
  ASSUME NEW D, NEW B \in Nat, IsZone(D, B), dbm_up(D) # Empty
  PROVE  Faithful(ptr_up(D), dbm_up(D), D)
<1> DEFINE R == dbm_up(D)
           at == [i \in Clk |-> [j \in Clk |-> i]]
           last == dim - 1
           indices == {i \in 1 .. last : D[i][0] # dbm_LS_INFINITY}
           from == Least(indices)
           M(n) == Merged(D, R, at, n)
           write(E, i) == [E EXCEPT ![i][0] = dbm_LS_INFINITY]
           IsRun(f) == f = [n \in from - 1 .. last |-> IF n < from THEN D ELSE write(f[n - 1], n)]
           written == CHOOSE f : IsRun(f)
<1>1. IsMatrix(D) /\ D # Empty
  BY EmptyIsNegative DEF IsZone, WideMatrix, Closed, IsMatrix
<1>2. IsMatrix(R)
      /\ \A i, j \in Clk : R[i][j] = IF i # 0 /\ j = 0 THEN dbm_LS_INFINITY ELSE D[i][j]
  BY DEF dbm_up, IsMatrix
<1>3. 0 \in Clk /\ last \in Int /\ (\A i \in Clk : i \in Int) /\ 1 .. last = Clk \ {0}
  BY DimAssumption DEF Clk
<1>4. \A i, j \in Clk : at[i][j] = i
  OBVIOUS
<1> HIDE DEF R, at
<1>5. Visits(D, R, at, 1, last, indices)
  <2>1. \A i, j \in Clk : R[i][j] # D[i][j] => i \in indices
    BY <1>2, <1>3
  <2>2. indices # {} => R # D
    BY <1>2, <1>3
  <2> QED
    BY <1>3, <1>4, <2>1, <2>2 DEF Visits
<1>6. ASSUME NEW n \in 1 .. last PROVE M(n) = write(M(n - 1), n)
  <2> DEFINE F == M(n - 1)
             E == write(F, n)
  <2>1. n \in Clk /\ n \in Int /\ n # 0
    BY <1>3
  <2>2. IsMatrix(F) /\ \A i, j \in Clk : F[i][j] = IF at[i][j] <= n - 1 THEN R[i][j] ELSE D[i][j]
    BY MergedEntries
  <2>3. IsMatrix(E)
        /\ \A i, j \in Clk : E[i][j] = IF i = n /\ j = 0 THEN dbm_LS_INFINITY ELSE F[i][j]
    <3> HIDE DEF F
    <3> QED
      BY <1>3, <2>1, <2>2 DEF IsMatrix
  <2> HIDE DEF E
  <2>4. \A i, j \in Clk : E[i][j] = IF at[i][j] = n THEN R[i][j] ELSE F[i][j]
    BY <1>2, <1>3, <1>4, <2>1, <2>2, <2>3
  <2>5. E = M(n)
    <3>1. IsMatrix(E) /\ n \in Int /\ \A a, b \in Clk : at[a][b] \in Int
      BY <1>3, <1>4, <2>1, <2>3
    <3> HIDE DEF F
    <3>2. \A a, b \in Clk : E[a][b] = IF at[a][b] = n THEN R[a][b] ELSE Merged(D, R, at, n - 1)[a][b]
      BY <2>4 DEF F
    <3> QED
      BY <3>1, <3>2, MergedStep, SMTT(30)
  <2> QED
    BY <2>5 DEF E
<1>7. indices # {} => Writes(written, D, R, at, from, last)
  <2> SUFFICES ASSUME indices # {} PROVE Writes(written, D, R, at, from, last)
    OBVIOUS
  <2>1. from \in 1 .. last /\ M(from - 1) = D
    BY <1>1, <1>2, <1>5, NothingBefore
  <2> HIDE DEF from, M, write
  <2> DEFINE all == [n \in from - 1 .. last |-> M(n)]
  <2>2. IsRun(all)
    BY <1>3, <1>6, <2>1
  <2>3. IsRun(written)
    BY <2>2
  <2> HIDE DEF written
  <2>4. written[from - 1] = D /\ \A n \in from .. last : written[n] = write(written[n - 1], n)
    BY <1>3, <2>1, <2>3
  <2>5. \A n \in from .. last : written[n - 1] = M(n - 1) => written[n] = M(n)
    BY <1>3, <1>6, <2>1, <2>4
  <2> QED
    BY <2>4, <2>5 DEF Writes, M
<1>8. ptr_up(D) = IF indices = {} THEN Kept(D) ELSE Copied(written[last])
  BY DEF ptr_up, Resumed
<1> HIDE DEF last, indices, written
<1> QED
  BY <1>1, <1>2, <1>5, <1>7, <1>8, LoopIsFaithful DEF R
\* One entry is written; two entries that mirror each other are, or the same one twice.
OneWritten(F, k, n, x) == [F EXCEPT ![k][n] = x]
BothWritten(F, k, n, x, y) == [F EXCEPT ![k][n] = x, ![n][k] = y]

\* The entries after one write.
LEMMA EntryWritten ==
  ASSUME NEW F, IsMatrix(F), NEW k \in Clk, NEW n \in Clk, NEW x,
         NEW E, E = OneWritten(F, k, n, x)
  PROVE  IsMatrix(E) /\ \A a, b \in Clk : E[a][b] = IF a = k /\ b = n THEN x ELSE F[a][b]
<1>1. \A a, b \in Clk : E[a][b] = IF a = k /\ b = n THEN x ELSE F[a][b]
  BY DEF IsMatrix, OneWritten
<1>2. E = [a \in Clk |-> [b \in Clk |-> IF a = k /\ b = n THEN x ELSE F[a][b]]]
  BY DEF IsMatrix, OneWritten
<1>3. IsMatrix(E)
  BY <1>1, <1>2 DEF IsMatrix
<1> QED
  BY <1>1, <1>3

\* The entries after both.
LEMMA BothWrittenEntries ==
  ASSUME NEW F, IsMatrix(F), NEW k \in Clk, NEW n \in Clk, NEW x, NEW y,
         NEW E, E = BothWritten(F, k, n, x, y)
  PROVE  /\ IsMatrix(E)
         /\ \A a, b \in Clk :
              E[a][b] = IF a = n /\ b = k THEN y ELSE IF a = k /\ b = n THEN x ELSE F[a][b]
<1> DEFINE G == OneWritten(F, k, n, x)
<1>1. IsMatrix(G) /\ \A a, b \in Clk : G[a][b] = IF a = k /\ b = n THEN x ELSE F[a][b]
  BY EntryWritten
<1>2. E = OneWritten(G, n, k, y)
  BY DEF BothWritten, OneWritten
<1> HIDE DEF G
<1>3. IsMatrix(E) /\ \A a, b \in Clk : E[a][b] = IF a = n /\ b = k THEN y ELSE G[a][b]
  BY <1>1, <1>2, EntryWritten
<1> QED
  BY <1>1, <1>3

\* The iteration at the clock itself skips the assignments.
BothUnless(F, k, n, x, y) == IF n = k THEN F ELSE BothWritten(F, k, n, x, y)

\* The entries after such an iteration.
LEMMA BothUnlessEntries ==
  ASSUME NEW F, IsMatrix(F), NEW k \in Clk, NEW n \in Clk, NEW x, NEW y,
         NEW E, E = BothUnless(F, k, n, x, y)
  PROVE  /\ IsMatrix(E)
         /\ \A a, b \in Clk : E[a][b] = IF n # k /\ a = k /\ b = n THEN x
                                         ELSE IF n # k /\ a = n /\ b = k THEN y ELSE F[a][b]
<1>1. CASE n = k
  BY <1>1 DEF BothUnless
<1>2. CASE n # k
  BY <1>2, BothWrittenEntries DEF BothUnless
<1> QED
  BY <1>1, <1>2

\* The loop of ptr_freeClock removes the bounds of the clock that differ from those of a
\* free clock, row and column together.
LEMMA FreeClockFaithful ==
  ASSUME NEW D, NEW B \in Nat, IsZone(D, B), NEW k \in Clocks,
         dbm_freeClock(D, k) # Empty
  PROVE  Faithful(ptr_freeClock(D, k), dbm_freeClock(D, k), D)
<1> DEFINE R == dbm_freeClock(D, k)
           at == [a \in Clk |-> [b \in Clk |-> IF a = k THEN b ELSE a]]
           last == dim - 1
           needed(i) == i # k /\ (D[k][i] # dbm_LS_INFINITY \/ D[i][k] # D[i][0])
           write(E, i) == IF i = k THEN E
                           ELSE [E EXCEPT ![k][i] = dbm_LS_INFINITY, ![i][k] = E[i][0]]
           indices == {i \in 0 .. last : needed(i)}
           from == Least(indices)
           M(n) == Merged(D, R, at, n)
           IsRun(f) == f = [n \in from - 1 .. last |-> IF n < from THEN D ELSE write(f[n - 1], n)]
           written == CHOOSE f : IsRun(f)
<1>1. IsMatrix(D) /\ D # Empty /\ k \in Clk /\ k # 0
  BY EmptyIsNegative, ZoneEntries DEF IsZone, WideMatrix, Closed, IsMatrix, Clocks
<1>2. IsMatrix(R) /\ \A a, b \in Clk : R[a][b] = IF a = b THEN D[a][b] ELSE IF a = k THEN dbm_LS_INFINITY
                                                 ELSE IF b = k THEN D[a][0] ELSE D[a][b]
  BY DEF dbm_freeClock, IsMatrix
<1>3. 0 \in Clk /\ last \in Int /\ (\A a \in Clk : a \in Int) /\ 0 .. last = Clk
  BY DimAssumption DEF Clk
<1>4. \A a, b \in Clk : at[a][b] = (IF a = k THEN b ELSE a) /\ at[a][b] \in Clk /\ at[a][b] \in Int
  BY <1>1, <1>3
<1> HIDE DEF R, at
<1>5. Visits(D, R, at, 0, last, indices)
  <2>1. \A a, b \in Clk : R[a][b] # D[a][b] => at[a][b] \in indices
    BY <1>1, <1>2, <1>3, <1>4
  <2>2. indices # {} => R # D
    BY <1>1, <1>2, <1>3
  <2> QED
    BY <1>3, <1>4, <2>1, <2>2 DEF Visits
<1>6. ASSUME NEW n \in 0 .. last PROVE M(n) = write(M(n - 1), n)
  <2> DEFINE F == M(n - 1)
             E == write(F, n)
  <2>1. n \in Clk /\ n \in Int
    BY <1>3
  <2>2. IsMatrix(F) /\ \A a, b \in Clk : F[a][b] = IF at[a][b] <= n - 1 THEN R[a][b] ELSE D[a][b]
    BY MergedEntries
  <2>3. IsMatrix(E)
        /\ \A a, b \in Clk : E[a][b] = IF n # k /\ a = k /\ b = n THEN dbm_LS_INFINITY
                                       ELSE IF n # k /\ a = n /\ b = k THEN F[n][0] ELSE F[a][b]
    <3>1. E = BothUnless(F, k, n, dbm_LS_INFINITY, F[n][0])
      BY DEF BothUnless, BothWritten
    <3>2. IsMatrix(F) /\ k \in Clk /\ n \in Clk
      BY <1>1, <2>1, <2>2
    <3> HIDE DEF E, F
    <3> QED
      BY <3>1, <3>2, BothUnlessEntries
  <2> HIDE DEF E
  <2>4. \A a, b \in Clk : E[a][b] = IF at[a][b] = n THEN R[a][b] ELSE F[a][b]
    BY <1>1, <1>2, <1>3, <1>4, <2>1, <2>2, <2>3
  <2>5. E = M(n)
    <3>1. IsMatrix(E) /\ n \in Int /\ \A a, b \in Clk : at[a][b] \in Int
      BY <1>3, <1>4, <2>1, <2>3
    <3> HIDE DEF F
    <3>2. \A a, b \in Clk : E[a][b] = IF at[a][b] = n THEN R[a][b] ELSE Merged(D, R, at, n - 1)[a][b]
      BY <2>4 DEF F
    <3> QED
      BY <3>1, <3>2, MergedStep, SMTT(30)
  <2> QED
    BY <2>5 DEF E
<1>7. indices # {} => Writes(written, D, R, at, from, last)
  <2> SUFFICES ASSUME indices # {} PROVE Writes(written, D, R, at, from, last)
    OBVIOUS
  <2>1. from \in 0 .. last /\ M(from - 1) = D
    BY <1>1, <1>2, <1>5, NothingBefore
  <2> HIDE DEF from, M, write
  <2> DEFINE all == [n \in from - 1 .. last |-> M(n)]
  <2>2. IsRun(all)
    <3>1. ASSUME NEW n \in from - 1 .. last
          PROVE  M(n) = IF n < from THEN D ELSE write(all[n - 1], n)
      <4>1. CASE n < from
        BY <1>3, <2>1, <4>1
      <4>2. CASE n >= from
        BY <1>3, <1>6, <2>1, <4>2
      <4> QED
        BY <1>3, <2>1, <4>1, <4>2
    <3> QED
      BY <3>1
  <2>3. IsRun(written)
    BY <2>2
  <2> HIDE DEF written
  <2>4. written[from - 1] = D /\ \A n \in from .. last : written[n] = write(written[n - 1], n)
    BY <1>3, <2>1, <2>3
  <2>5. \A n \in from .. last : written[n - 1] = M(n - 1) => written[n] = M(n)
    BY <1>3, <1>6, <2>1, <2>4
  <2> QED
    BY <2>4, <2>5 DEF Writes, M
<1>8. ptr_freeClock(D, k) = IF indices = {} THEN Kept(D) ELSE Copied(written[last])
  BY DEF ptr_freeClock, Resumed
<1> HIDE DEF last, indices, written
<1> QED
  BY <1>1, <1>2, <1>5, <1>7, <1>8, LoopIsFaithful DEF R

\* The loop of ptr_freeUp removes the bounds in the row of the clock, but the diagonal.
LEMMA FreeUpFaithful ==
  ASSUME NEW D, NEW B \in Nat, IsZone(D, B), NEW k \in Clocks,
         dbm_freeUp(D, k) # Empty
  PROVE  Faithful(ptr_freeUp(D, k), dbm_freeUp(D, k), D)
<1> DEFINE R == dbm_freeUp(D, k)
           at == [a \in Clk |-> [b \in Clk |-> b]]
           last == dim - 1
           needed(j) == j # k /\ D[k][j] # dbm_LS_INFINITY
           write(E, j) == IF j = k THEN E ELSE [E EXCEPT ![k][j] = dbm_LS_INFINITY]
           indices == {j \in 0 .. last : needed(j)}
           from == Least(indices)
           M(n) == Merged(D, R, at, n)
           IsRun(f) == f = [n \in from - 1 .. last |-> IF n < from THEN D ELSE write(f[n - 1], n)]
           written == CHOOSE f : IsRun(f)
<1>1. IsMatrix(D) /\ D # Empty /\ k \in Clk /\ k # 0
  BY EmptyIsNegative, ZoneEntries DEF IsZone, WideMatrix, Closed, IsMatrix, Clocks
<1>2. IsMatrix(R) /\ \A a, b \in Clk : R[a][b] = IF a = k /\ b # k THEN dbm_LS_INFINITY ELSE D[a][b]
  BY <1>1 DEF dbm_freeUp, IsMatrix
<1>3. 0 \in Clk /\ last \in Int /\ (\A a \in Clk : a \in Int) /\ 0 .. last = Clk
  BY DimAssumption DEF Clk
<1>4. \A a, b \in Clk : at[a][b] = (b) /\ at[a][b] \in Clk /\ at[a][b] \in Int
  BY <1>1, <1>3
<1> HIDE DEF R, at
<1>5. Visits(D, R, at, 0, last, indices)
  <2>1. \A a, b \in Clk : R[a][b] # D[a][b] => at[a][b] \in indices
    BY <1>1, <1>2, <1>3, <1>4
  <2>2. indices # {} => R # D
    BY <1>1, <1>2, <1>3
  <2> QED
    BY <1>3, <1>4, <2>1, <2>2 DEF Visits
<1>6. ASSUME NEW n \in 0 .. last PROVE M(n) = write(M(n - 1), n)
  <2> DEFINE F == M(n - 1)
             E == write(F, n)
  <2>1. n \in Clk /\ n \in Int
    BY <1>3
  <2>2. IsMatrix(F) /\ \A a, b \in Clk : F[a][b] = IF at[a][b] <= n - 1 THEN R[a][b] ELSE D[a][b]
    BY MergedEntries
  <2>3. IsMatrix(E)
        /\ \A a, b \in Clk : E[a][b] = IF n # k /\ a = k /\ b = n THEN dbm_LS_INFINITY ELSE F[a][b]
    <3>1. n # k => E = OneWritten(F, k, n, dbm_LS_INFINITY)
      BY DEF OneWritten
    <3>2. n = k => E = F
      OBVIOUS
    <3>3. IsMatrix(F) /\ k \in Clk /\ n \in Clk
      BY <1>1, <2>1, <2>2
    <3> HIDE DEF E, F
    <3> QED
      BY <3>1, <3>2, <3>3, EntryWritten
  <2> HIDE DEF E
  <2>4. \A a, b \in Clk : E[a][b] = IF at[a][b] = n THEN R[a][b] ELSE F[a][b]
    BY <1>1, <1>2, <1>3, <1>4, <2>1, <2>2, <2>3
  <2>5. E = M(n)
    <3>1. IsMatrix(E) /\ n \in Int /\ \A a, b \in Clk : at[a][b] \in Int
      BY <1>3, <1>4, <2>1, <2>3
    <3> HIDE DEF F
    <3>2. \A a, b \in Clk : E[a][b] = IF at[a][b] = n THEN R[a][b] ELSE Merged(D, R, at, n - 1)[a][b]
      BY <2>4 DEF F
    <3> QED
      BY <3>1, <3>2, MergedStep, SMTT(30)
  <2> QED
    BY <2>5 DEF E
<1>7. indices # {} => Writes(written, D, R, at, from, last)
  <2> SUFFICES ASSUME indices # {} PROVE Writes(written, D, R, at, from, last)
    OBVIOUS
  <2>1. from \in 0 .. last /\ M(from - 1) = D
    BY <1>1, <1>2, <1>5, NothingBefore
  <2> HIDE DEF from, M, write
  <2> DEFINE all == [n \in from - 1 .. last |-> M(n)]
  <2>2. IsRun(all)
    <3>1. ASSUME NEW n \in from - 1 .. last
          PROVE  M(n) = IF n < from THEN D ELSE write(all[n - 1], n)
      <4>1. CASE n < from
        BY <1>3, <2>1, <4>1
      <4>2. CASE n >= from
        BY <1>3, <1>6, <2>1, <4>2
      <4> QED
        BY <1>3, <2>1, <4>1, <4>2
    <3> QED
      BY <3>1
  <2>3. IsRun(written)
    BY <2>2
  <2> HIDE DEF written
  <2>4. written[from - 1] = D /\ \A n \in from .. last : written[n] = write(written[n - 1], n)
    BY <1>3, <2>1, <2>3
  <2>5. \A n \in from .. last : written[n - 1] = M(n - 1) => written[n] = M(n)
    BY <1>3, <1>6, <2>1, <2>4
  <2> QED
    BY <2>4, <2>5 DEF Writes, M
<1>8. ptr_freeUp(D, k) = IF indices = {} THEN Kept(D) ELSE Copied(written[last])
  BY DEF ptr_freeUp, Resumed
<1> HIDE DEF last, indices, written
<1> QED
  BY <1>1, <1>2, <1>5, <1>7, <1>8, LoopIsFaithful DEF R

\* The loop of ptr_freeDown takes the column of the clock from that of the reference clock.
LEMMA FreeDownFaithful ==
  ASSUME NEW D, NEW B \in Nat, IsZone(D, B), NEW k \in Clocks,
         dbm_freeDown(D, k) # Empty
  PROVE  Faithful(ptr_freeDown(D, k), dbm_freeDown(D, k), D)
<1> DEFINE R == dbm_freeDown(D, k)
           at == [a \in Clk |-> [b \in Clk |-> a]]
           last == dim - 1
           needed(i) == i # k /\ D[i][k] # D[i][0]
           write(E, i) == IF i = k THEN E ELSE [E EXCEPT ![i][k] = E[i][0]]
           indices == {i \in 0 .. last : needed(i)}
           from == Least(indices)
           M(n) == Merged(D, R, at, n)
           IsRun(f) == f = [n \in from - 1 .. last |-> IF n < from THEN D ELSE write(f[n - 1], n)]
           written == CHOOSE f : IsRun(f)
<1>1. IsMatrix(D) /\ D # Empty /\ k \in Clk /\ k # 0
  BY EmptyIsNegative, ZoneEntries DEF IsZone, WideMatrix, Closed, IsMatrix, Clocks
<1>2. IsMatrix(R) /\ \A a, b \in Clk : R[a][b] = IF b = k /\ a # k THEN D[a][0] ELSE D[a][b]
  BY <1>1 DEF dbm_freeDown, IsMatrix
<1>3. 0 \in Clk /\ last \in Int /\ (\A a \in Clk : a \in Int) /\ 0 .. last = Clk
  BY DimAssumption DEF Clk
<1>4. \A a, b \in Clk : at[a][b] = (a) /\ at[a][b] \in Clk /\ at[a][b] \in Int
  BY <1>1, <1>3
<1> HIDE DEF R, at
<1>5. Visits(D, R, at, 0, last, indices)
  <2>1. \A a, b \in Clk : R[a][b] # D[a][b] => at[a][b] \in indices
    BY <1>1, <1>2, <1>3, <1>4
  <2>2. indices # {} => R # D
    BY <1>1, <1>2, <1>3
  <2> QED
    BY <1>3, <1>4, <2>1, <2>2 DEF Visits
<1>6. ASSUME NEW n \in 0 .. last PROVE M(n) = write(M(n - 1), n)
  <2> DEFINE F == M(n - 1)
             E == write(F, n)
  <2>1. n \in Clk /\ n \in Int
    BY <1>3
  <2>2. IsMatrix(F) /\ \A a, b \in Clk : F[a][b] = IF at[a][b] <= n - 1 THEN R[a][b] ELSE D[a][b]
    BY MergedEntries
  <2>3. IsMatrix(E)
        /\ \A a, b \in Clk : E[a][b] = IF n # k /\ a = n /\ b = k THEN F[n][0] ELSE F[a][b]
    <3>1. n # k => E = OneWritten(F, n, k, F[n][0])
      BY DEF OneWritten
    <3>2. n = k => E = F
      OBVIOUS
    <3>3. IsMatrix(F) /\ k \in Clk /\ n \in Clk
      BY <1>1, <2>1, <2>2
    <3> HIDE DEF E, F
    <3> QED
      BY <3>1, <3>2, <3>3, EntryWritten
  <2> HIDE DEF E
  <2>4. \A a, b \in Clk : E[a][b] = IF at[a][b] = n THEN R[a][b] ELSE F[a][b]
    BY <1>1, <1>2, <1>3, <1>4, <2>1, <2>2, <2>3
  <2>5. E = M(n)
    <3>1. IsMatrix(E) /\ n \in Int /\ \A a, b \in Clk : at[a][b] \in Int
      BY <1>3, <1>4, <2>1, <2>3
    <3> HIDE DEF F
    <3>2. \A a, b \in Clk : E[a][b] = IF at[a][b] = n THEN R[a][b] ELSE Merged(D, R, at, n - 1)[a][b]
      BY <2>4 DEF F
    <3> QED
      BY <3>1, <3>2, MergedStep, SMTT(30)
  <2> QED
    BY <2>5 DEF E
<1>7. indices # {} => Writes(written, D, R, at, from, last)
  <2> SUFFICES ASSUME indices # {} PROVE Writes(written, D, R, at, from, last)
    OBVIOUS
  <2>1. from \in 0 .. last /\ M(from - 1) = D
    BY <1>1, <1>2, <1>5, NothingBefore
  <2> HIDE DEF from, M, write
  <2> DEFINE all == [n \in from - 1 .. last |-> M(n)]
  <2>2. IsRun(all)
    <3>1. ASSUME NEW n \in from - 1 .. last
          PROVE  M(n) = IF n < from THEN D ELSE write(all[n - 1], n)
      <4>1. CASE n < from
        BY <1>3, <2>1, <4>1
      <4>2. CASE n >= from
        BY <1>3, <1>6, <2>1, <4>2
      <4> QED
        BY <1>3, <2>1, <4>1, <4>2
    <3> QED
      BY <3>1
  <2>3. IsRun(written)
    BY <2>2
  <2> HIDE DEF written
  <2>4. written[from - 1] = D /\ \A n \in from .. last : written[n] = write(written[n - 1], n)
    BY <1>3, <2>1, <2>3
  <2>5. \A n \in from .. last : written[n - 1] = M(n - 1) => written[n] = M(n)
    BY <1>3, <1>6, <2>1, <2>4
  <2> QED
    BY <2>4, <2>5 DEF Writes, M
<1>8. ptr_freeDown(D, k) = IF indices = {} THEN Kept(D) ELSE Copied(written[last])
  BY DEF ptr_freeDown, Resumed
<1> HIDE DEF last, indices, written
<1> QED
  BY <1>1, <1>2, <1>5, <1>7, <1>8, LoopIsFaithful DEF R

\* The loop of ptr_updateClock copies the row and the column of the other clock.
LEMMA UpdateClockFaithful ==
  ASSUME NEW D, NEW B \in Nat, IsZone(D, B), NEW i \in Clocks, NEW j \in Clocks, i # j,
         dbm_updateClock(D, i, j) # Empty
  PROVE  Faithful(ptr_updateClock(D, i, j), dbm_updateClock(D, i, j), D)
<1> DEFINE R == dbm_updateClock(D, i, j)
           at == [a \in Clk |-> [b \in Clk |-> IF a = i THEN b ELSE a]]
           last == dim - 1
           needed(k) == k # i /\ (D[i][k] # D[j][k] \/ D[k][i] # D[k][j])
           write(E, k) == IF k = i THEN E
                           ELSE [E EXCEPT ![i][k] = E[j][k], ![k][i] = E[k][j]]
           indices == {k \in 0 .. last : needed(k)}
           from == Least(indices)
           M(n) == Merged(D, R, at, n)
           IsRun(f) == f = [n \in from - 1 .. last |-> IF n < from THEN D ELSE write(f[n - 1], n)]
           written == CHOOSE f : IsRun(f)
<1>1. IsMatrix(D) /\ D # Empty /\ i \in Clk /\ j \in Clk /\ \A a \in Clk : D[a][a] = dbm_LE_ZERO
  BY EmptyIsNegative, ZoneEntries DEF IsZone, WideMatrix, Closed, IsMatrix, Clocks
<1>2. IsMatrix(R) /\ \A a, b \in Clk : R[a][b] = IF a = b THEN D[a][b]
                                             ELSE IF a = i THEN D[j][b]
                                             ELSE IF b = i THEN D[a][j] ELSE D[a][b]
  BY <1>1 DEF dbm_updateClock, IsMatrix
<1>3. 0 \in Clk /\ last \in Int /\ (\A a \in Clk : a \in Int) /\ 0 .. last = Clk
  BY DimAssumption DEF Clk
<1>4. \A a, b \in Clk : at[a][b] = (IF a = i THEN b ELSE a) /\ at[a][b] \in Clk /\ at[a][b] \in Int
  BY <1>1, <1>3
<1> HIDE DEF R, at
<1>5. Visits(D, R, at, 0, last, indices)
  <2>1. \A a, b \in Clk : R[a][b] # D[a][b] => at[a][b] \in indices
    BY <1>1, <1>2, <1>3, <1>4
  <2>2. indices # {} => R # D
    BY <1>1, <1>2, <1>3
  <2> QED
    BY <1>3, <1>4, <2>1, <2>2 DEF Visits
<1>6. ASSUME NEW n \in 0 .. last PROVE M(n) = write(M(n - 1), n)
  <2> DEFINE F == M(n - 1)
             E == write(F, n)
  <2>1. n \in Clk /\ n \in Int
    BY <1>3
  <2>2. IsMatrix(F) /\ \A a, b \in Clk : F[a][b] = IF at[a][b] <= n - 1 THEN R[a][b] ELSE D[a][b]
    BY MergedEntries
  <2>3. IsMatrix(E)
        /\ \A a, b \in Clk : E[a][b] = IF n # i /\ a = i /\ b = n THEN F[j][n]
                                       ELSE IF n # i /\ a = n /\ b = i THEN F[n][j] ELSE F[a][b]
    <3>1. E = BothUnless(F, i, n, F[j][n], F[n][j])
      BY DEF BothUnless, BothWritten
    <3>2. IsMatrix(F) /\ i \in Clk /\ n \in Clk
      BY <1>1, <2>1, <2>2
    <3> HIDE DEF E, F
    <3> QED
      BY <3>1, <3>2, BothUnlessEntries
  <2> HIDE DEF E
  <2>4. \A a, b \in Clk : E[a][b] = IF at[a][b] = n THEN R[a][b] ELSE F[a][b]
    BY <1>1, <1>2, <1>3, <1>4, <2>1, <2>2, <2>3, SMTT(30)
  <2>5. E = M(n)
    <3>1. IsMatrix(E) /\ n \in Int /\ \A a, b \in Clk : at[a][b] \in Int
      BY <1>3, <1>4, <2>1, <2>3
    <3> HIDE DEF F
    <3>2. \A a, b \in Clk : E[a][b] = IF at[a][b] = n THEN R[a][b] ELSE Merged(D, R, at, n - 1)[a][b]
      BY <2>4 DEF F
    <3> QED
      BY <3>1, <3>2, MergedStep, SMTT(30)
  <2> QED
    BY <2>5 DEF E
<1>7. indices # {} => Writes(written, D, R, at, from, last)
  <2> SUFFICES ASSUME indices # {} PROVE Writes(written, D, R, at, from, last)
    OBVIOUS
  <2>1. from \in 0 .. last /\ M(from - 1) = D
    BY <1>1, <1>2, <1>5, NothingBefore
  <2> HIDE DEF from, M, write
  <2> DEFINE all == [n \in from - 1 .. last |-> M(n)]
  <2>2. IsRun(all)
    <3>1. ASSUME NEW n \in from - 1 .. last
          PROVE  M(n) = IF n < from THEN D ELSE write(all[n - 1], n)
      <4>1. CASE n < from
        BY <1>3, <2>1, <4>1
      <4>2. CASE n >= from
        BY <1>3, <1>6, <2>1, <4>2
      <4> QED
        BY <1>3, <2>1, <4>1, <4>2
    <3> QED
      BY <3>1
  <2>3. IsRun(written)
    BY <2>2
  <2> HIDE DEF written
  <2>4. written[from - 1] = D /\ \A n \in from .. last : written[n] = write(written[n - 1], n)
    BY <1>3, <2>1, <2>3
  <2>5. \A n \in from .. last : written[n - 1] = M(n - 1) => written[n] = M(n)
    BY <1>3, <1>6, <2>1, <2>4
  <2> QED
    BY <2>4, <2>5 DEF Writes, M
<1>8. ptr_updateClock(D, i, j) = IF indices = {} THEN Kept(D) ELSE Copied(written[last])
  BY DEF ptr_updateClock, Resumed
<1> HIDE DEF last, indices, written
<1> QED
  BY <1>1, <1>2, <1>5, <1>7, <1>8, LoopIsFaithful DEF R

\* The loop of ptr_update copies them shifted by the value.
LEMMA UpdateFaithful ==
  ASSUME NEW D, NEW B \in Nat, IsZone(D, B), NEW i \in Clocks, NEW j \in Clocks, i # j,
         NEW v \in Int, v # 0,
         dbm_update(D, i, j, v) # Empty
  PROVE  Faithful(ptr_update(D, i, j, v), dbm_update(D, i, j, v), D)
<1> DEFINE R == dbm_update(D, i, j, v)
           at == [a \in Clk |-> [b \in Clk |-> IF a = i THEN b ELSE a]]
           last == dim - 1
           dik(E, k) == dbm_rawInc(E[j][k], 2 * v)
           dki(E, k) == dbm_rawDec(E[k][j], 2 * v)
           needed(k) == k # i /\ (D[i][k] # dik(D, k) \/ D[k][i] # dki(D, k))
           write(E, k) == IF k = i THEN E
                           ELSE [E EXCEPT ![i][k] = dik(E, k), ![k][i] = dki(E, k)]
           indices == {k \in 0 .. last : needed(k)}
           from == Least(indices)
           M(n) == Merged(D, R, at, n)
           IsRun(f) == f = [n \in from - 1 .. last |-> IF n < from THEN D ELSE write(f[n - 1], n)]
           written == CHOOSE f : IsRun(f)
<1>1. IsMatrix(D) /\ D # Empty /\ i \in Clk /\ j \in Clk /\ \A a \in Clk : D[a][a] = dbm_LE_ZERO
  BY EmptyIsNegative, ZoneEntries DEF IsZone, WideMatrix, Closed, IsMatrix, Clocks
<1>2. IsMatrix(R) /\ \A a, b \in Clk : R[a][b] = IF a = i /\ b = i THEN dbm_LE_ZERO
                                             ELSE IF a = i THEN dbm_rawInc(D[j][b], 2 * v)
                                             ELSE IF b = i THEN dbm_rawDec(D[a][j], 2 * v)
                                             ELSE D[a][b]
  BY <1>1 DEF dbm_update, IsMatrix
<1>3. 0 \in Clk /\ last \in Int /\ (\A a \in Clk : a \in Int) /\ 0 .. last = Clk
  BY DimAssumption DEF Clk
<1>4. \A a, b \in Clk : at[a][b] = (IF a = i THEN b ELSE a) /\ at[a][b] \in Clk /\ at[a][b] \in Int
  BY <1>1, <1>3
<1> HIDE DEF R, at
<1>5. Visits(D, R, at, 0, last, indices)
  <2>1. \A a, b \in Clk : R[a][b] # D[a][b] => at[a][b] \in indices
    BY <1>1, <1>2, <1>3, <1>4
  <2>2. indices # {} => R # D
    BY <1>1, <1>2, <1>3
  <2> QED
    BY <1>3, <1>4, <2>1, <2>2 DEF Visits
<1>6. ASSUME NEW n \in 0 .. last PROVE M(n) = write(M(n - 1), n)
  <2> DEFINE F == M(n - 1)
             E == write(F, n)
  <2>1. n \in Clk /\ n \in Int
    BY <1>3
  <2>2. IsMatrix(F) /\ \A a, b \in Clk : F[a][b] = IF at[a][b] <= n - 1 THEN R[a][b] ELSE D[a][b]
    BY MergedEntries
  <2>3. IsMatrix(E)
        /\ \A a, b \in Clk : E[a][b] = IF n # i /\ a = i /\ b = n THEN dik(F, n)
                                       ELSE IF n # i /\ a = n /\ b = i THEN dki(F, n) ELSE F[a][b]
    <3>1. E = BothUnless(F, i, n, dik(F, n), dki(F, n))
      BY DEF BothUnless, BothWritten
    <3>2. IsMatrix(F) /\ i \in Clk /\ n \in Clk
      BY <1>1, <2>1, <2>2
    <3> HIDE DEF E, F, dik, dki
    <3> QED
      BY <3>1, <3>2, BothUnlessEntries
  <2> HIDE DEF E
  <2>4. \A a, b \in Clk : E[a][b] = IF at[a][b] = n THEN R[a][b] ELSE F[a][b]
    <3>1. n # i => F[j][n] = D[j][n] /\ F[n][j] = D[n][j]
      BY <1>1, <1>2, <2>1, <2>2
    <3>2. n # i => dik(F, n) = R[i][n] /\ dki(F, n) = R[n][i]
      BY <1>1, <1>2, <2>1, <3>1
    <3>3. n = i => \A a, b \in Clk : at[a][b] = n => R[a][b] = F[a][b]
      BY <1>1, <1>2, <1>4, <2>2
    <3>4. \A a, b \in Clk : a # i /\ b # i => R[a][b] = F[a][b]
      BY <1>2, <2>2
    <3> HIDE DEF dik, dki, F
    <3> QED
      BY <1>4, <2>1, <2>3, <3>2, <3>3, <3>4
  <2>5. E = M(n)
    <3>1. IsMatrix(E) /\ n \in Int /\ \A a, b \in Clk : at[a][b] \in Int
      BY <1>3, <1>4, <2>1, <2>3
    <3> HIDE DEF F
    <3>2. \A a, b \in Clk : E[a][b] = IF at[a][b] = n THEN R[a][b] ELSE Merged(D, R, at, n - 1)[a][b]
      BY <2>4 DEF F
    <3> QED
      BY <3>1, <3>2, MergedStep, SMTT(30)
  <2> QED
    BY <2>5 DEF E
<1>7. indices # {} => Writes(written, D, R, at, from, last)
  <2> SUFFICES ASSUME indices # {} PROVE Writes(written, D, R, at, from, last)
    OBVIOUS
  <2>1. from \in 0 .. last /\ M(from - 1) = D
    BY <1>1, <1>2, <1>5, NothingBefore
  <2> HIDE DEF from, M, write
  <2> DEFINE all == [n \in from - 1 .. last |-> M(n)]
  <2>2. IsRun(all)
    <3>1. ASSUME NEW n \in from - 1 .. last
          PROVE  M(n) = IF n < from THEN D ELSE write(all[n - 1], n)
      <4>1. CASE n < from
        BY <1>3, <2>1, <4>1
      <4>2. CASE n >= from
        BY <1>3, <1>6, <2>1, <4>2
      <4> QED
        BY <1>3, <2>1, <4>1, <4>2
    <3> QED
      BY <3>1
  <2>3. IsRun(written)
    BY <2>2
  <2> HIDE DEF written
  <2>4. written[from - 1] = D /\ \A n \in from .. last : written[n] = write(written[n - 1], n)
    BY <1>3, <2>1, <2>3
  <2>5. \A n \in from .. last : written[n - 1] = M(n - 1) => written[n] = M(n)
    BY <1>3, <1>6, <2>1, <2>4
  <2> QED
    BY <2>4, <2>5 DEF Writes, M
<1>8. ptr_update(D, i, j, v) = IF indices = {} THEN Kept(D) ELSE Copied(written[last])
  BY DEF ptr_update, Resumed
<1> HIDE DEF last, indices, written
<1> QED
  BY <1>1, <1>2, <1>5, <1>7, <1>8, LoopIsFaithful DEF R

\* The loop of ptr_updateValue reads the first row and column where it has written them
\* already, and finds there what the matrix had.
LEMMA UpdateValueFaithful ==
  ASSUME NEW D, NEW B \in Nat, IsZone(D, B), NEW k \in Clocks, NEW v \in Nat,
         dbm_updateValue(D, k, v) # Empty
  PROVE  Faithful(ptr_updateValue(D, k, v), dbm_updateValue(D, k, v), D)
<1> DEFINE R == dbm_updateValue(D, k, v)
           at == [a \in Clk |-> [b \in Clk |-> IF a = k THEN b ELSE a]]
           last == dim - 1
           dk0 == dbm_bound2raw(v, dbm_WEAK)
           d0k == dbm_bound2raw(-v, dbm_WEAK)
           dki(E, i) == dbm_addRawRaw(dk0, E[0][i])
           dik(E, i) == dbm_addRawRaw(E[i][0], d0k)
           needed(i) == D[k][i] # dki(D, i) \/ D[i][k] # dik(D, i)
           write(E, i) == [E EXCEPT ![k][i] = dki(E, i), ![i][k] = dik(E, i)]
           indices == {i \in 0 .. last : needed(i)}
           from == Least(indices)
           M(n) == Merged(D, R, at, n)
           IsRun(f) == f = [n \in from - 1 .. last |-> IF n < from THEN D ELSE write(f[n - 1], n)]
           written == CHOOSE f : IsRun(f)
<1>0. /\ dbm_addRawRaw(dk0, dbm_LE_ZERO) = dk0 /\ dbm_addRawRaw(dbm_LE_ZERO, d0k) = d0k
      /\ dbm_addRawRaw(dk0, d0k) = dbm_LE_ZERO
  <2>1. dk0 = 2 * v + 1 /\ d0k = 2 * (-v) + 1 /\ dk0 \in Int /\ d0k \in Int
    BY DEF dbm_bound2raw, dbm_WEAK
  <2> HIDE DEF dk0, d0k
  <2>2. dk0 # dbm_LS_INFINITY /\ d0k # dbm_LS_INFINITY /\ dbm_LE_ZERO # dbm_LS_INFINITY
    BY <2>1, Infinity
  <2>3. dk0 % 2 = 1
    BY <2>1
  <2>4. dbm_addFiniteFinite(dk0, d0k) = 1
    BY <2>1, <2>3 DEF dbm_addFiniteFinite, dbm_rawIsWeak
  <2> QED
    BY <2>1, <2>2, <2>4, AddZero, Infinity DEF dbm_addRawRaw
<1>1. IsMatrix(D) /\ D # Empty /\ k \in Clk /\ k # 0 /\ \A a \in Clk : D[a][a] = dbm_LE_ZERO
  BY EmptyIsNegative, ZoneEntries DEF IsZone, WideMatrix, Closed, IsMatrix, Clocks
<1>2. IsMatrix(R) /\ \A a, b \in Clk : R[a][b] = IF a = k /\ b = k THEN dbm_LE_ZERO
                                             ELSE IF a = k THEN dbm_addRawRaw(dk0, D[0][b])
                                             ELSE IF b = k THEN dbm_addRawRaw(D[a][0], d0k)
                                             ELSE D[a][b]
  BY <1>0, <1>1 DEF dbm_updateValue, IsMatrix
<1>3. 0 \in Clk /\ last \in Int /\ (\A a \in Clk : a \in Int) /\ 0 .. last = Clk
  BY DimAssumption DEF Clk
<1>4. \A a, b \in Clk : at[a][b] = (IF a = k THEN b ELSE a) /\ at[a][b] \in Clk /\ at[a][b] \in Int
  BY <1>1, <1>3
<1> HIDE DEF R, at, dk0, d0k
<1>5. Visits(D, R, at, 0, last, indices)
  <2>1. \A a, b \in Clk : R[a][b] # D[a][b] => at[a][b] \in indices
    BY <1>0, <1>1, <1>2, <1>3, <1>4
  <2>2. indices # {} => R # D
    BY <1>0, <1>1, <1>2, <1>3
  <2> QED
    BY <1>3, <1>4, <2>1, <2>2 DEF Visits
<1>6. ASSUME NEW n \in 0 .. last PROVE M(n) = write(M(n - 1), n)
  <2> DEFINE F == M(n - 1)
             E == write(F, n)
  <2>1. n \in Clk /\ n \in Int
    BY <1>3
  <2>2. IsMatrix(F) /\ \A a, b \in Clk : F[a][b] = IF at[a][b] <= n - 1 THEN R[a][b] ELSE D[a][b]
    BY MergedEntries
  <2>3. IsMatrix(E)
        /\ \A a, b \in Clk : E[a][b] = IF a = n /\ b = k THEN dik(F, n)
                                       ELSE IF a = k /\ b = n THEN dki(F, n) ELSE F[a][b]
    <3>1. E = BothWritten(F, k, n, dki(F, n), dik(F, n))
      BY DEF BothWritten
    <3> HIDE DEF E, F, dik, dki
    <3> QED
      BY <1>1, <2>1, <2>2, <3>1, BothWrittenEntries
  <2> HIDE DEF E
  <2>4. \A a, b \in Clk : E[a][b] = IF at[a][b] = n THEN R[a][b] ELSE F[a][b]
    BY <1>0, <1>1, <1>2, <1>3, <1>4, <2>1, <2>2, <2>3, SMTT(30)
  <2>5. E = M(n)
    <3>1. IsMatrix(E) /\ n \in Int /\ \A a, b \in Clk : at[a][b] \in Int
      BY <1>3, <1>4, <2>1, <2>3
    <3> HIDE DEF F
    <3>2. \A a, b \in Clk : E[a][b] = IF at[a][b] = n THEN R[a][b] ELSE Merged(D, R, at, n - 1)[a][b]
      BY <2>4 DEF F
    <3> QED
      BY <3>1, <3>2, MergedStep, SMTT(30)
  <2> QED
    BY <2>5 DEF E
<1>7. indices # {} => Writes(written, D, R, at, from, last)
  <2> SUFFICES ASSUME indices # {} PROVE Writes(written, D, R, at, from, last)
    OBVIOUS
  <2>1. from \in 0 .. last /\ M(from - 1) = D
    BY <1>1, <1>2, <1>5, NothingBefore
  <2> HIDE DEF from, M, write
  <2> DEFINE all == [n \in from - 1 .. last |-> M(n)]
  <2>2. IsRun(all)
    <3>1. ASSUME NEW n \in from - 1 .. last
          PROVE  M(n) = IF n < from THEN D ELSE write(all[n - 1], n)
      <4>1. CASE n < from
        BY <1>3, <2>1, <4>1
      <4>2. CASE n >= from
        BY <1>3, <1>6, <2>1, <4>2
      <4> QED
        BY <1>3, <2>1, <4>1, <4>2
    <3> QED
      BY <3>1
  <2>3. IsRun(written)
    BY <2>2
  <2> HIDE DEF written
  <2>4. written[from - 1] = D /\ \A n \in from .. last : written[n] = write(written[n - 1], n)
    BY <1>3, <2>1, <2>3
  <2>5. \A n \in from .. last : written[n - 1] = M(n - 1) => written[n] = M(n)
    BY <1>3, <1>6, <2>1, <2>4
  <2> QED
    BY <2>4, <2>5 DEF Writes, M
<1>8. ptr_updateValue(D, k, v) = IF indices = {} THEN Kept(D) ELSE Copied(written[last])
  BY DEF ptr_updateValue, Resumed, dk0, d0k
<1> HIDE DEF last, indices, written
<1> QED
  BY <1>1, <1>2, <1>5, <1>7, <1>8, LoopIsFaithful DEF R

\* As far down as the other clocks let the lower bound of clock j go.
Lower(D, j) == Least({dbm_LE_ZERO} \cup {D[i][j] : i \in Clocks})

\* What dbm_downFrom leaves of a matrix in which every clock has a lower bound.
LEMMA DownFromEntries ==
  ASSUME NEW D, IsMatrix(D), NEW from, \A i \in Clk : D[0][i] # dbm_LS_INFINITY
  PROVE  LET E == dbm_downFrom(D, from)
         IN  /\ IsMatrix(E)
             /\ \A i, j \in Clk :
                  E[i][j] = IF i = 0 /\ j >= from /\ D[0][j] < dbm_LE_ZERO THEN Lower(D, j)
                            ELSE D[i][j]
<1>1. {i \in Clk \ {0} : D[0][i] # dbm_LS_INFINITY} = Clocks
  BY DEF Clocks
<1>2. dbm_downFrom(D, from) =
        [D EXCEPT ![0] = [j \in Clk |-> IF j >= from /\ D[0][j] < dbm_LE_ZERO
                                        THEN Lower(D, j) ELSE D[0][j]]]
  BY <1>1 DEF dbm_downFrom, Lower
<1>3. 0 \in Clk
  BY DimAssumption DEF Clk
<1> DEFINE row == [j \in Clk |-> IF j >= from /\ D[0][j] < dbm_LE_ZERO
                                 THEN Lower(D, j) ELSE D[0][j]]
           E == [D EXCEPT ![0] = row]
<1>4. IsMatrix(E) /\ \A i, j \in Clk : E[i][j] = IF i = 0 THEN row[j] ELSE D[i][j]
  <2>1. row = [j \in Clk |-> row[j]]
    OBVIOUS
  <2> HIDE DEF row
  <2> QED
    BY <1>3, <2>1 DEF IsMatrix
<1>5. dbm_downFrom(D, from) = E
  BY <1>2
<1> HIDE DEF E
<1> QED
  BY <1>3, <1>4, <1>5

\* The lower bound is at most "<= 0", and does not depend on row 0.
LEMMA LowerBound ==
  ASSUME NEW D, NEW B \in Nat, IsZone(D, B), NEW j \in Clk
  PROVE  /\ Lower(D, j) \in Int /\ Lower(D, j) <= dbm_LE_ZERO
         /\ \A E : (\A i \in Clocks : E[i][j] = D[i][j]) => Lower(E, j) = Lower(D, j)
<1>1. \A i \in Clk : D[i][j] \in Int /\ (D[i][j] # dbm_LS_INFINITY => -B < D[i][j])
  BY ZoneEntries
<1>2. {dbm_LE_ZERO} \cup {D[i][j] : i \in Clocks} \in SUBSET Int
      /\ \A x \in {dbm_LE_ZERO} \cup {D[i][j] : i \in Clocks} : -B <= x
  BY <1>1, Infinity DEF Clocks
<1>3. Lower(D, j) \in Int /\ Lower(D, j) <= dbm_LE_ZERO
  <2> DEFINE T == {dbm_LE_ZERO} \cup {D[i][j] : i \in Clocks}
  <2>1. T # {} /\ dbm_LE_ZERO \in T /\ -B \in Int
    OBVIOUS
  <2> HIDE DEF T
  <2>2. Least(T) \in Int /\ Least(T) <= dbm_LE_ZERO
    BY <1>2, <2>1, LeastIsLeast DEF T
  <2> QED
    BY <2>2 DEF T, Lower
<1>4. ASSUME NEW E, \A i \in Clocks : E[i][j] = D[i][j] PROVE Lower(E, j) = Lower(D, j)
  <2>1. {E[i][j] : i \in Clocks} = {D[i][j] : i \in Clocks}
    BY <1>4
  <2> QED
    BY <2>1 DEF Lower
<1> QED
  BY <1>3, <1>4

\* ptr_down writes the first lower bound that changes, dbm_downFrom the later ones.
LEMMA DownFaithful ==
  ASSUME NEW D, NEW B \in Nat, IsZone(D, B), dbm_down(D) # Empty
  PROVE  Faithful(ptr_down(D), dbm_down(D), D)
<1> DEFINE R == dbm_down(D)
           changed == {j \in Clocks : D[0][j] < dbm_LE_ZERO /\ D[0][j] # Lower(D, j)}
           first == Least(changed)
           E == [D EXCEPT ![0][first] = Lower(D, first)]
           F == dbm_downFrom(E, first + 1)
<1>1. IsMatrix(D) /\ D # Empty /\ 0 \in Clk /\ Clocks = Clk \ {0}
  BY EmptyIsNegative, DimAssumption, SMTT(30) DEF IsZone, WideMatrix, Closed, IsMatrix, Clk, Clocks
<1>2. \A j \in Clk : j \in Int /\ (j >= 1 <=> j # 0) /\ D[0][j] \in Int
                     /\ D[0][j] # dbm_LS_INFINITY /\ D[0][j] <= dbm_LE_ZERO
  BY ZoneEntries DEF Clk
<1>3. D[0][0] = dbm_LE_ZERO
  BY ZoneEntries
<1>4. IsMatrix(R) /\ \A i, j \in Clk :
        R[i][j] = IF i = 0 /\ j >= 1 /\ D[0][j] < dbm_LE_ZERO THEN Lower(D, j) ELSE D[i][j]
  BY <1>1, <1>2, DownFromEntries DEF dbm_down
<1>5. ptr_down(D) = IF changed = {} THEN Kept(D) ELSE Copied(F)
  BY DEF ptr_down, Lower
<1> HIDE DEF R, F
<1>6. CASE changed = {}
  <2>1. \A i, j \in Clk : R[i][j] = D[i][j]
    BY <1>1, <1>2, <1>4, <1>6
  <2>2. R = D
    BY <1>1, <1>4, <2>1, SameEntries
  <2> QED
    BY <1>1, <1>5, <1>6, <2>2, KeptOrCopied DEF R
<1>7. CASE changed # {}
  <2>1. changed \in SUBSET Int /\ \A j \in changed : 0 <= j
    BY <1>1, <1>2
  <2>2. first \in changed /\ \A j \in changed : first <= j
    BY <1>7, <2>1, LeastIsLeast
  <2> HIDE DEF first
  <2>3. first \in Clk /\ first # 0 /\ first \in Int /\ D[0][first] < dbm_LE_ZERO
        /\ D[0][first] # Lower(D, first)
    BY <1>1, <1>2, <2>2
  <2>4. \A j \in Clk : Lower(D, j) \in Int /\ Lower(D, j) <= dbm_LE_ZERO
                       /\ ((\A i \in Clocks : E[i][j] = D[i][j]) => Lower(E, j) = Lower(D, j))
    BY LowerBound
  <2>5. IsMatrix(E) /\ \A i, j \in Clk :
          E[i][j] = IF i = 0 /\ j = first THEN Lower(D, first) ELSE D[i][j]
    BY <1>1, <2>3 DEF IsMatrix
  <2> HIDE DEF E
  <2>6. \A j \in Clk : Lower(E, j) = Lower(D, j) /\ E[0][j] # dbm_LS_INFINITY
    BY <1>1, <1>2, <2>3, <2>4, <2>5, Infinity
  <2>7. IsMatrix(F) /\ \A i, j \in Clk :
          F[i][j] = IF i = 0 /\ j >= first + 1 /\ E[0][j] < dbm_LE_ZERO THEN Lower(E, j)
                    ELSE E[i][j]
    BY <2>5, <2>6, DownFromEntries DEF F
  <2>8. ASSUME NEW i \in Clk, NEW j \in Clk PROVE F[i][j] = R[i][j]
    <3>1. CASE i # 0
      BY <1>4, <2>5, <2>7, <3>1
    <3>2. CASE i = 0 /\ j >= first + 1
      BY <1>2, <1>4, <2>3, <2>5, <2>6, <2>7, <3>2
    <3>3. CASE i = 0 /\ j = first
      BY <1>2, <1>4, <2>3, <2>5, <2>7, <3>3
    <3>4. CASE i = 0 /\ j < first
      <4>1. j \notin changed
        <5> HIDE DEF changed
        <5> QED
          BY <1>2, <2>2, <2>3, <3>4
      <4>2. F[0][j] = D[0][j]
        BY <1>2, <2>3, <2>5, <2>7, <3>4
      <4>3. R[0][j] = D[0][j]
        BY <1>1, <1>2, <1>4, <3>4, <4>1
      <4> QED
        BY <3>4, <4>2, <4>3
    <3> QED
      BY <1>2, <2>3, <3>1, <3>2, <3>3, <3>4
  <2>9. F = R
    BY <1>4, <2>7, <2>8, SameEntries
  <2>10. R # D
    BY <1>1, <1>2, <1>4, <2>3
  <2> QED
    BY <1>5, <1>7, <2>9, <2>10, KeptOrCopied DEF R
<1> QED
  BY <1>6, <1>7

\* ptr_freeAllUp tests first whether there is anything to remove.
LEMMA FreeAllUpFaithful ==
  ASSUME NEW D, NEW B \in Nat, IsZone(D, B), dbm_freeAllUp(D) # Empty
  PROVE  Faithful(ptr_freeAllUp(D), dbm_freeAllUp(D), D)
<1> DEFINE R == dbm_freeAllUp(D)
<1>1. IsMatrix(D) /\ D # Empty /\ \A i \in Clk : D[i][i] = dbm_LE_ZERO
  BY EmptyIsNegative, ZoneEntries DEF IsZone, WideMatrix, Closed, IsMatrix
<1>2. IsMatrix(R) /\ \A i, j \in Clk :
        R[i][j] = IF i = 0 THEN D[0][j] ELSE IF i = j THEN dbm_LE_ZERO ELSE dbm_LS_INFINITY
  BY DEF dbm_freeAllUp, IsMatrix
<1>3. dbm_isFreedAllUp(D) <=> \A i, j \in Clk : R[i][j] = D[i][j]
  <2>1. \A i \in Clk : D[i] = [j \in Clk |-> D[i][j]]
    BY <1>1 DEF IsMatrix
  <2>2. \A i \in Clk : dbm_init[i] = [j \in Clk |-> dbm_init[i][j]]
    BY DEF dbm_init
  <2>3. \A i, j \in Clk : dbm_init[i][j] = IF i = 0 \/ i = j THEN dbm_LE_ZERO
                                           ELSE dbm_LS_INFINITY
    BY DEF dbm_init
  <2>4. \A i \in Clk : D[i] = dbm_init[i] <=> \A j \in Clk : D[i][j] = dbm_init[i][j]
    BY <2>1, <2>2
  <2>5. 0 \in Clk
    BY DimAssumption DEF Clk
  <2> HIDE DEF R
  <2> QED
    BY <1>1, <1>2, <2>3, <2>4, <2>5 DEF dbm_isFreedAllUp
<1> HIDE DEF R
<1>4. dbm_isFreedAllUp(D) <=> R = D
  BY <1>1, <1>2, <1>3, SameEntries
<1> QED
  BY <1>1, <1>4, KeptOrCopied DEF R, ptr_freeAllUp

\* ptr_swapClocks leaves what a swap leaves: clocks that are equal have the same bounds.
LEMMA SwapClocksFaithful ==
  ASSUME NEW D, NEW B \in Nat, IsZone(D, B), NEW x \in Clocks, NEW y \in Clocks,
         dbm_swapClocks(D, x, y) # Empty
  PROVE  LET O == ptr_swapClocks(D, x, y)
         IN  O.dbm = dbm_swapClocks(D, x, y) /\ O.block # "none"
<1> DEFINE R == dbm_swapClocks(D, x, y)
           other(c) == IF c = x THEN y ELSE IF c = y THEN x ELSE c
<1>1. IsMatrix(D) /\ x \in Clk /\ y \in Clk
  BY DEF IsZone, WideMatrix, IsMatrix, Clocks
<1>2. IsMatrix(R) /\ \A i, j \in Clk : R[i][j] = D[other(i)][other(j)]
  BY DEF dbm_swapClocks, IsMatrix
<1>3. /\ \A i, j \in Clk : D[i][j] \in Int /\ D[i][j] <= dbm_LS_INFINITY
      /\ \A i, k, j \in Clk : D[i][k] # dbm_LS_INFINITY /\ D[k][j] # dbm_LS_INFINITY
           => D[i][j] # dbm_LS_INFINITY /\ D[i][j] <= dbm_addFiniteFinite(D[i][k], D[k][j])
  BY ZoneEntries
<1> HIDE DEF R
<1>4. ASSUME D[x][y] = dbm_LE_ZERO, D[y][x] = dbm_LE_ZERO
      PROVE  R = D
  <2>1. ASSUME NEW k \in Clk PROVE D[x][k] = D[y][k] /\ D[k][x] = D[k][y]
    <3>1. \A v \in Int : dbm_addFiniteFinite(v, dbm_LE_ZERO) = v
                         /\ dbm_addFiniteFinite(dbm_LE_ZERO, v) = v
      BY AddZero
    <3>2. dbm_LE_ZERO # dbm_LS_INFINITY
      BY Infinity
    <3>3. D[x][k] <= D[y][k] /\ D[k][x] <= D[k][y]
      BY <1>1, <1>3, <1>4, <3>1, <3>2, Infinity
    <3>4. D[y][k] <= D[x][k] /\ D[k][y] <= D[k][x]
      BY <1>1, <1>3, <1>4, <3>1, <3>2, Infinity
    <3> QED
      BY <1>1, <1>3, <3>3, <3>4
  <2>2. \A i, j \in Clk : R[i][j] = D[i][j]
    BY <1>1, <1>2, <2>1
  <2> QED
    BY <1>1, <1>2, <2>2, SameEntries
<1> QED
  BY <1>4 DEF ptr_swapClocks, Kept, Copied, R

-----------------------------------------------------------------------------
(* Loops over the entries.                                                   *)

\* The index of an entry, row by row, and the entry of an index.
LEMMA EntryIndex ==
  /\ \A a, b \in Clk : /\ a * dim + b \in 0 .. dim * dim - 1
                       /\ (a * dim + b) \div dim = a /\ (a * dim + b) % dim = b
  /\ \A n \in 0 .. dim * dim - 1 :
       n \div dim \in Clk /\ n % dim \in Clk /\ (n \div dim) * dim + (n % dim) = n
<1>1. dim \in Nat /\ dim > 0 /\ Clk = 0 .. dim - 1
  BY DimAssumption DEF Clk
<1>2. ASSUME NEW a \in Clk, NEW b \in Clk
      PROVE  /\ a * dim + b \in 0 .. dim * dim - 1
             /\ (a * dim + b) \div dim = a /\ (a * dim + b) % dim = b
  <2>1. a \in Int /\ b \in Int /\ 0 <= a /\ a <= dim - 1 /\ 0 <= b /\ b <= dim - 1 /\ a * dim \in Int
    BY <1>1
  <2>2. 0 <= a * dim /\ a * dim <= (dim - 1) * dim /\ (dim - 1) * dim = dim * dim - dim
    BY <1>1, <2>1
  <2>3. a * dim + b \in 0 .. dim * dim - 1
    BY <1>1, <2>1, <2>2
  <2>4. (a * dim + b) \div dim = a /\ (a * dim + b) % dim = b
    BY <1>1, <2>1
  <2> QED
    BY <2>3, <2>4
<1>3. ASSUME NEW n \in 0 .. dim * dim - 1
      PROVE  n \div dim \in Clk /\ n % dim \in Clk /\ (n \div dim) * dim + (n % dim) = n
  <2>1. n \in Int /\ n \div dim \in Int /\ n % dim \in 0 .. dim - 1
        /\ n = dim * (n \div dim) + (n % dim)
    BY <1>1
  <2>2. 0 <= n \div dim /\ n \div dim <= dim - 1
    BY <1>1, <2>1
  <2> QED
    BY <1>1, <2>1, <2>2
<1> QED
  BY <1>2, <1>3

\* The two loops of ptr_freeAllDown, entered where dbm_testFreeAllDown found a bound, take
\* every column from the first.
LEMMA FreeAllDownFaithful ==
  ASSUME NEW D, NEW B \in Nat, IsZone(D, B),
         dbm_freeAllDown(D) # Empty
  PROVE  Faithful(ptr_freeAllDown(D), dbm_freeAllDown(D), D)
<1> DEFINE R == dbm_freeAllDown(D)
           at == [a \in Clk |-> [b \in Clk |-> a * dim + b]]
           last == dim * dim - 1
           needed(i, j) == j # 0 /\ i # j /\ D[i][j] # D[i][0]
           write(E, i, j) == IF j = 0 \/ i = j THEN E ELSE [E EXCEPT ![i][j] = E[i][0]]
           neededAt(n) == needed(n \div dim, n % dim)
           writeAt(E, n) == write(E, n \div dim, n % dim)
           indices == {n \in 0 .. last : neededAt(n)}
           from == Least(indices)
           M(n) == Merged(D, R, at, n)
           IsRun(f) == f = [n \in from - 1 .. last |-> IF n < from THEN D ELSE writeAt(f[n - 1], n)]
           written == CHOOSE f : IsRun(f)
<1>1. IsMatrix(D) /\ D # Empty /\ 0 \in Clk
  BY EmptyIsNegative, ZoneEntries DEF IsZone, WideMatrix, Closed, IsMatrix
<1>2. IsMatrix(R) /\ \A i, j \in Clk : R[i][j] = IF i = j THEN D[i][j] ELSE D[i][0]
  BY <1>1 DEF dbm_freeAllDown, IsMatrix
<1>3. last \in Int /\ dim * dim \in Int /\ 0 \in Clk
      /\ \A n \in 0 .. last : n \in Int /\ n \in 0 .. dim * dim - 1
  BY DimAssumption DEF Clk
<1>4. /\ \A a, b \in Clk : /\ at[a][b] \in 0 .. dim * dim - 1
                           /\ at[a][b] \div dim = a /\ at[a][b] % dim = b
      /\ \A n \in 0 .. dim * dim - 1 :
           n \div dim \in Clk /\ n % dim \in Clk /\ at[n \div dim][n % dim] = n
  BY EntryIndex
<1> HIDE DEF R, at
<1>5. Visits(D, R, at, 0, last, indices)
  <2>1. \A a, b \in Clk : R[a][b] # D[a][b] => at[a][b] \in indices
    BY <1>1, <1>2, <1>3, <1>4
  <2>2. indices # {} => R # D
    <3> SUFFICES ASSUME NEW n \in indices PROVE R # D
      OBVIOUS
    <3>1. n \div dim \in Clk /\ n % dim \in Clk /\ needed(n \div dim, n % dim)
      BY <1>3, <1>4
    <3> QED
      BY <1>1, <1>2, <1>3, <3>1
  <2> QED
    BY <1>3, <1>4, <2>1, <2>2 DEF Visits
<1>6. ASSUME NEW n \in 0 .. last PROVE M(n) = writeAt(M(n - 1), n)
  <2> DEFINE F == M(n - 1)
             i == n \div dim
             j == n % dim
             E == write(F, i, j)
  <2>1. i \in Clk /\ j \in Clk /\ n \in Int /\ at[i][j] = n
        /\ \A a, b \in Clk : at[a][b] = n => a = i /\ b = j
    BY <1>3, <1>4
  <2>2. IsMatrix(F) /\ \A a, b \in Clk : F[a][b] = IF at[a][b] <= n - 1 THEN R[a][b] ELSE D[a][b]
    BY MergedEntries
  <2> HIDE DEF i, j
  <2>3. IsMatrix(E) /\ \A a, b \in Clk : E[a][b] = IF a = i /\ b = j THEN R[a][b] ELSE F[a][b]
    <3>1. F[i][0] = D[i][0] /\ (j = 0 \/ i = j => F[i][j] = R[i][j])
      BY <1>1, <1>2, <1>3, <2>1, <2>2
    <3> HIDE DEF F
    <3>2. (E = F /\ F[i][j] = R[i][j]) \/ E = [F EXCEPT ![i][j] = R[i][j]]
      BY <1>1, <1>2, <2>1, <3>1
    <3> HIDE DEF E
    <3> QED
      BY <2>1, <2>2, <3>2, SMTT(30) DEF IsMatrix
  <2> HIDE DEF E
  <2>4. \A a, b \in Clk : E[a][b] = IF at[a][b] = n THEN R[a][b] ELSE F[a][b]
    BY <2>1, <2>3
  <2>5. E = M(n)
    <3>1. IsMatrix(E) /\ n \in Int /\ \A a, b \in Clk : at[a][b] \in Int
      BY <1>3, <1>4, <2>1, <2>3
    <3> HIDE DEF F
    <3>2. \A a, b \in Clk : E[a][b] = IF at[a][b] = n THEN R[a][b] ELSE Merged(D, R, at, n - 1)[a][b]
      BY <2>4 DEF F
    <3> QED
      BY <3>1, <3>2, MergedStep, SMTT(30)
  <2> QED
    BY <2>5 DEF E, i, j
<1>7. indices # {} => Writes(written, D, R, at, from, last)
  <2> SUFFICES ASSUME indices # {} PROVE Writes(written, D, R, at, from, last)
    OBVIOUS
  <2>1. from \in 0 .. last /\ M(from - 1) = D
    BY <1>1, <1>2, <1>5, NothingBefore
  <2> HIDE DEF from, M, writeAt
  <2> DEFINE all == [n \in from - 1 .. last |-> M(n)]
  <2>2. IsRun(all)
    <3>1. ASSUME NEW n \in from - 1 .. last
          PROVE  M(n) = IF n < from THEN D ELSE writeAt(all[n - 1], n)
      <4>1. CASE n < from
        BY <1>3, <2>1, <4>1
      <4>2. CASE n >= from
        BY <1>3, <1>6, <2>1, <4>2
      <4> QED
        BY <1>3, <2>1, <4>1, <4>2
    <3> QED
      BY <3>1
  <2>3. IsRun(written)
    BY <2>2
  <2> HIDE DEF written
  <2>4. written[from - 1] = D /\ \A n \in from .. last : written[n] = writeAt(written[n - 1], n)
    BY <1>3, <2>1, <2>3
  <2>5. \A n \in from .. last : written[n - 1] = M(n - 1) => written[n] = M(n)
    BY <1>3, <1>6, <2>1, <2>4
  <2> QED
    BY <2>4, <2>5 DEF Writes, M
<1>8. ptr_freeAllDown(D) = IF indices = {} THEN Kept(D) ELSE Copied(written[last])
  BY DEF ptr_freeAllDown, ResumedEntries, Resumed
<1> HIDE DEF last, indices, written
<1> QED
  BY <1>1, <1>2, <1>5, <1>7, <1>8, LoopIsFaithful DEF R

\* The loop of ptr_convexUnion leaves out the first and the last entry, which are on the
\* diagonal.
LEMMA ConvexUnionFaithful ==
  ASSUME NEW D, NEW B \in Nat, IsZone(D, B), NEW S, IsZone(S, B),
         dbm_convexUnion(D, S) # Empty
  PROVE  Faithful(ptr_convexUnion(D, S), dbm_convexUnion(D, S), D)
<1> DEFINE R == dbm_convexUnion(D, S)
           at == [a \in Clk |-> [b \in Clk |-> a * dim + b]]
           last == dim * dim - 2
           needed(i, j) == D[i][j] < S[i][j]
           write(E, i, j) == [E EXCEPT ![i][j] = RawMax(@, S[i][j])]
           neededAt(n) == needed(n \div dim, n % dim)
           writeAt(E, n) == write(E, n \div dim, n % dim)
           indices == {n \in 1 .. last : neededAt(n)}
           from == Least(indices)
           M(n) == Merged(D, R, at, n)
           IsRun(f) == f = [n \in from - 1 .. last |-> IF n < from THEN D ELSE writeAt(f[n - 1], n)]
           written == CHOOSE f : IsRun(f)
<1>1. IsMatrix(D) /\ D # Empty /\ 0 \in Clk
      /\ (\A a \in Clk : D[a][a] = S[a][a])
      /\ \A a, b \in Clk : D[a][b] \in Int /\ S[a][b] \in Int
  BY EmptyIsNegative, ZoneEntries DEF IsZone, WideMatrix, Closed, IsMatrix
<1>2. IsMatrix(R) /\ \A i, j \in Clk : R[i][j] = RawMax(D[i][j], S[i][j])
  BY <1>1 DEF dbm_convexUnion, Entrywise, IsMatrix
<1>3. last \in Int /\ dim * dim \in Int /\ 0 \in Clk
      /\ \A n \in 1 .. last : n \in Int /\ n \in 0 .. dim * dim - 1
  BY DimAssumption DEF Clk
<1>4. /\ \A a, b \in Clk : /\ at[a][b] \in 0 .. dim * dim - 1
                           /\ at[a][b] \div dim = a /\ at[a][b] % dim = b
      /\ \A n \in 0 .. dim * dim - 1 :
           n \div dim \in Clk /\ n % dim \in Clk /\ at[n \div dim][n % dim] = n
  BY EntryIndex
<1> HIDE DEF R, at
<1>5. Visits(D, R, at, 1, last, indices)
  <2>1. \A a, b \in Clk : R[a][b] # D[a][b] => at[a][b] \in indices
    <3> SUFFICES ASSUME NEW a \in Clk, NEW b \in Clk, R[a][b] # D[a][b]
                 PROVE  at[a][b] \in indices
      OBVIOUS
    <3>1. needed(a, b)
      BY <1>1, <1>2 DEF RawMax
    <3>2. at[a][b] \in 1 .. last
      <4>1. a # b
        BY <1>1, <1>2 DEF RawMax
      <4>2. at[a][b] # 0
        <5>1. at[0][0] = 0 /\ 0 \in Clk
          BY <1>3, DimAssumption DEF at
        <5> QED
          BY <1>4, <4>1, <5>1
      <4>3. at[a][b] # dim * dim - 1
        <5>1. at[dim - 1][dim - 1] = dim * dim - 1 /\ dim - 1 \in Clk
          BY DimAssumption DEF at, Clk
        <5> QED
          BY <1>4, <4>1, <5>1
      <4> QED
        BY <1>3, <1>4, <4>2, <4>3
    <3> QED
      BY <1>4, <3>1, <3>2
  <2>2. indices # {} => R # D
    <3> SUFFICES ASSUME NEW n \in indices PROVE R # D
      OBVIOUS
    <3>1. n \div dim \in Clk /\ n % dim \in Clk /\ needed(n \div dim, n % dim)
      BY <1>3, <1>4
    <3> QED
      BY <1>1, <1>2, <1>3, <3>1 DEF RawMax
  <2> QED
    BY <1>3, <1>4, <2>1, <2>2 DEF Visits
<1>6. ASSUME NEW n \in 1 .. last PROVE M(n) = writeAt(M(n - 1), n)
  <2> DEFINE F == M(n - 1)
             i == n \div dim
             j == n % dim
             E == write(F, i, j)
  <2>1. i \in Clk /\ j \in Clk /\ n \in Int /\ at[i][j] = n
        /\ \A a, b \in Clk : at[a][b] = n => a = i /\ b = j
    BY <1>3, <1>4
  <2>2. IsMatrix(F) /\ \A a, b \in Clk : F[a][b] = IF at[a][b] <= n - 1 THEN R[a][b] ELSE D[a][b]
    BY MergedEntries
  <2> HIDE DEF i, j
  <2>3. IsMatrix(E) /\ \A a, b \in Clk : E[a][b] = IF a = i /\ b = j THEN R[a][b] ELSE F[a][b]
    <3>1. F[i][j] = D[i][j]
      BY <1>1, <1>2, <1>3, <2>1, <2>2
    <3> HIDE DEF F
    <3>2. (E = F /\ F[i][j] = R[i][j]) \/ E = [F EXCEPT ![i][j] = R[i][j]]
      BY <1>1, <1>2, <2>1, <3>1
    <3> HIDE DEF E
    <3> QED
      BY <2>1, <2>2, <3>2 DEF IsMatrix
  <2> HIDE DEF E
  <2>4. \A a, b \in Clk : E[a][b] = IF at[a][b] = n THEN R[a][b] ELSE F[a][b]
    BY <2>1, <2>3
  <2>5. E = M(n)
    <3>1. IsMatrix(E) /\ n \in Int /\ \A a, b \in Clk : at[a][b] \in Int
      BY <1>3, <1>4, <2>1, <2>3
    <3> HIDE DEF F
    <3>2. \A a, b \in Clk : E[a][b] = IF at[a][b] = n THEN R[a][b] ELSE Merged(D, R, at, n - 1)[a][b]
      BY <2>4 DEF F
    <3> QED
      BY <3>1, <3>2, MergedStep, SMTT(30)
  <2> QED
    BY <2>5 DEF E, i, j
<1>7. indices # {} => Writes(written, D, R, at, from, last)
  <2> SUFFICES ASSUME indices # {} PROVE Writes(written, D, R, at, from, last)
    OBVIOUS
  <2>1. from \in 1 .. last /\ M(from - 1) = D
    BY <1>1, <1>2, <1>5, NothingBefore
  <2> HIDE DEF from, M, writeAt
  <2> DEFINE all == [n \in from - 1 .. last |-> M(n)]
  <2>2. IsRun(all)
    <3>1. ASSUME NEW n \in from - 1 .. last
          PROVE  M(n) = IF n < from THEN D ELSE writeAt(all[n - 1], n)
      <4>1. CASE n < from
        BY <1>3, <2>1, <4>1
      <4>2. CASE n >= from
        BY <1>3, <1>6, <2>1, <4>2
      <4> QED
        BY <1>3, <2>1, <4>1, <4>2
    <3> QED
      BY <3>1
  <2>3. IsRun(written)
    BY <2>2
  <2> HIDE DEF written
  <2>4. written[from - 1] = D /\ \A n \in from .. last : written[n] = writeAt(written[n - 1], n)
    BY <1>3, <2>1, <2>3
  <2>5. \A n \in from .. last : written[n - 1] = M(n - 1) => written[n] = M(n)
    BY <1>3, <1>6, <2>1, <2>4
  <2> QED
    BY <2>4, <2>5 DEF Writes, M
<1>8. ptr_convexUnion(D, S) = IF indices = {} THEN Kept(D) ELSE Copied(written[last])
  BY DEF ptr_convexUnion, ResumedEntries, Resumed
<1> HIDE DEF last, indices, written
<1> QED
  BY <1>1, <1>2, <1>5, <1>7, <1>8, LoopIsFaithful DEF R

\* The loop of ptr_relaxAll makes the strict bounds weak, and leaves infinity alone.
LEMMA RelaxAllFaithful ==
  ASSUME NEW D, NEW B \in Nat, IsZone(D, B),
         dbm_relaxAll(D) # Empty
  PROVE  Faithful(ptr_relaxAll(D), dbm_relaxAll(D), D)
<1> DEFINE R == dbm_relaxAll(D)
           at == [a \in Clk |-> [b \in Clk |-> a * dim + b]]
           last == dim * dim - 2
           needed(i, j) == dbm_rawIsStrict(D[i][j]) /\ D[i][j] # dbm_LS_INFINITY
           write(E, i, j) == IF E[i][j] = dbm_LS_INFINITY THEN E
                              ELSE [E EXCEPT ![i][j] = dbm_weakRaw(@)]
           neededAt(n) == needed(n \div dim, n % dim)
           writeAt(E, n) == write(E, n \div dim, n % dim)
           indices == {n \in 1 .. last : neededAt(n)}
           from == Least(indices)
           M(n) == Merged(D, R, at, n)
           IsRun(f) == f = [n \in from - 1 .. last |-> IF n < from THEN D ELSE writeAt(f[n - 1], n)]
           written == CHOOSE f : IsRun(f)
<1>1. IsMatrix(D) /\ D # Empty /\ 0 \in Clk
      /\ (\A a \in Clk : D[a][a] = dbm_LE_ZERO)
      /\ \A a, b \in Clk : D[a][b] \in Int
  BY EmptyIsNegative, ZoneEntries DEF IsZone, WideMatrix, Closed, IsMatrix
<1>2. IsMatrix(R) /\ \A i, j \in Clk : R[i][j] = IF D[i][j] = dbm_LS_INFINITY THEN D[i][j]
                                             ELSE dbm_weakRaw(D[i][j])
  BY <1>1 DEF dbm_relaxAll, Weakened, IsMatrix
<1>3. last \in Int /\ dim * dim \in Int /\ 0 \in Clk
      /\ \A n \in 1 .. last : n \in Int /\ n \in 0 .. dim * dim - 1
  BY DimAssumption DEF Clk
<1>4. /\ \A a, b \in Clk : /\ at[a][b] \in 0 .. dim * dim - 1
                           /\ at[a][b] \div dim = a /\ at[a][b] % dim = b
      /\ \A n \in 0 .. dim * dim - 1 :
           n \div dim \in Clk /\ n % dim \in Clk /\ at[n \div dim][n % dim] = n
  BY EntryIndex
<1> HIDE DEF R, at
<1>5. Visits(D, R, at, 1, last, indices)
  <2>1. \A a, b \in Clk : R[a][b] # D[a][b] => at[a][b] \in indices
    <3> SUFFICES ASSUME NEW a \in Clk, NEW b \in Clk, R[a][b] # D[a][b]
                 PROVE  at[a][b] \in indices
      OBVIOUS
    <3>1. needed(a, b)
      BY <1>1, <1>2 DEF dbm_weakRaw
    <3>2. at[a][b] \in 1 .. last
      <4>1. a # b
        BY <1>1, <1>2, Infinity DEF dbm_weakRaw, dbm_rawIsStrict
      <4>2. at[a][b] # 0
        <5>1. at[0][0] = 0 /\ 0 \in Clk
          BY <1>3, DimAssumption DEF at
        <5> QED
          BY <1>4, <4>1, <5>1
      <4>3. at[a][b] # dim * dim - 1
        <5>1. at[dim - 1][dim - 1] = dim * dim - 1 /\ dim - 1 \in Clk
          BY DimAssumption DEF at, Clk
        <5> QED
          BY <1>4, <4>1, <5>1
      <4> QED
        BY <1>3, <1>4, <4>2, <4>3
    <3> QED
      BY <1>4, <3>1, <3>2
  <2>2. indices # {} => R # D
    <3> SUFFICES ASSUME NEW n \in indices PROVE R # D
      OBVIOUS
    <3>1. n \div dim \in Clk /\ n % dim \in Clk /\ needed(n \div dim, n % dim)
      BY <1>3, <1>4
    <3> QED
      BY <1>1, <1>2, <1>3, <3>1 DEF dbm_weakRaw
  <2> QED
    BY <1>3, <1>4, <2>1, <2>2 DEF Visits
<1>6. ASSUME NEW n \in 1 .. last PROVE M(n) = writeAt(M(n - 1), n)
  <2> DEFINE F == M(n - 1)
             i == n \div dim
             j == n % dim
             E == write(F, i, j)
  <2>1. i \in Clk /\ j \in Clk /\ n \in Int /\ at[i][j] = n
        /\ \A a, b \in Clk : at[a][b] = n => a = i /\ b = j
    BY <1>3, <1>4
  <2>2. IsMatrix(F) /\ \A a, b \in Clk : F[a][b] = IF at[a][b] <= n - 1 THEN R[a][b] ELSE D[a][b]
    BY MergedEntries
  <2> HIDE DEF i, j
  <2>3. IsMatrix(E) /\ \A a, b \in Clk : E[a][b] = IF a = i /\ b = j THEN R[a][b] ELSE F[a][b]
    <3>1. F[i][j] = D[i][j]
      BY <1>1, <1>2, <1>3, <2>1, <2>2
    <3> HIDE DEF F
    <3>2. (E = F /\ F[i][j] = R[i][j]) \/ E = [F EXCEPT ![i][j] = R[i][j]]
      BY <1>1, <1>2, <2>1, <3>1
    <3> HIDE DEF E
    <3> QED
      BY <2>1, <2>2, <3>2 DEF IsMatrix
  <2> HIDE DEF E
  <2>4. \A a, b \in Clk : E[a][b] = IF at[a][b] = n THEN R[a][b] ELSE F[a][b]
    BY <2>1, <2>3
  <2>5. E = M(n)
    <3>1. IsMatrix(E) /\ n \in Int /\ \A a, b \in Clk : at[a][b] \in Int
      BY <1>3, <1>4, <2>1, <2>3
    <3> HIDE DEF F
    <3>2. \A a, b \in Clk : E[a][b] = IF at[a][b] = n THEN R[a][b] ELSE Merged(D, R, at, n - 1)[a][b]
      BY <2>4 DEF F
    <3> QED
      BY <3>1, <3>2, MergedStep, SMTT(30)
  <2> QED
    BY <2>5 DEF E, i, j
<1>7. indices # {} => Writes(written, D, R, at, from, last)
  <2> SUFFICES ASSUME indices # {} PROVE Writes(written, D, R, at, from, last)
    OBVIOUS
  <2>1. from \in 1 .. last /\ M(from - 1) = D
    BY <1>1, <1>2, <1>5, NothingBefore
  <2> HIDE DEF from, M, writeAt
  <2> DEFINE all == [n \in from - 1 .. last |-> M(n)]
  <2>2. IsRun(all)
    <3>1. ASSUME NEW n \in from - 1 .. last
          PROVE  M(n) = IF n < from THEN D ELSE writeAt(all[n - 1], n)
      <4>1. CASE n < from
        BY <1>3, <2>1, <4>1
      <4>2. CASE n >= from
        BY <1>3, <1>6, <2>1, <4>2
      <4> QED
        BY <1>3, <2>1, <4>1, <4>2
    <3> QED
      BY <3>1
  <2>3. IsRun(written)
    BY <2>2
  <2> HIDE DEF written
  <2>4. written[from - 1] = D /\ \A n \in from .. last : written[n] = writeAt(written[n - 1], n)
    BY <1>3, <2>1, <2>3
  <2>5. \A n \in from .. last : written[n - 1] = M(n - 1) => written[n] = M(n)
    BY <1>3, <1>6, <2>1, <2>4
  <2> QED
    BY <2>4, <2>5 DEF Writes, M
<1>8. ptr_relaxAll(D) = IF indices = {} THEN Kept(D) ELSE Copied(written[last])
  BY DEF ptr_relaxAll, ResumedEntries, Resumed
<1> HIDE DEF last, indices, written
<1> QED
  BY <1>1, <1>2, <1>5, <1>7, <1>8, LoopIsFaithful DEF R

-----------------------------------------------------------------------------
(* Relaxing.                                                                 *)

\* The bound of clock i on clock c is strict, and no path through another clock keeps it
\* strict.
Weakens(E, i, c) ==
  /\ E[i][c] < dbm_LS_INFINITY /\ dbm_rawIsStrict(E[i][c])
  /\ \A j \in Clk \ {c} :
       dbm_addRawRaw(E[i][j], Weakened(E)[j][c]) >= dbm_weakRaw(E[i][c])

\* These are the bounds that dbm_relaxDownClock changes, and it makes them weak.
LEMMA RelaxDownChanges ==
  ASSUME NEW D \in WideMatrix, NEW c \in Clk, NEW B \in Nat, Closed(D), Bounded(D, B),
         B < dbm_LE_OVERFLOW, NEW i \in Clk
  PROVE  LET R == dbm_relaxDownClock(D, c)
         IN  /\ Weakens(D, i, c) <=> R[i][c] # D[i][c]
             /\ R[i][c] # D[i][c] => R[i][c] = dbm_weakRaw(D[i][c])
<1> DEFINE R == dbm_relaxDownClock(D, c)
           W(j) == Weakened(D)[j][c]
           T == {dbm_weakRaw(D[i][c])} \cup {dbm_addRawRaw(D[i][j], W(j)) : j \in Clk \ {c}}
           x == D[i][c]
<1>1. RelaxedTo(R, D, c)
  BY RelaxDownIsRelaxed
<1>2. R[i][c] = IF x = dbm_LS_INFINITY \/ dbm_rawIsWeak(x) THEN x ELSE Least(T)
  BY DEF dbm_relaxDownClock, WideMatrix
<1>3. x \in Int /\ x <= dbm_LS_INFINITY /\ (dbm_rawIsStrict(x) <=> ~dbm_rawIsWeak(x))
      /\ dbm_LS_INFINITY \in Int
  BY WideEntry, Infinity DEF dbm_rawIsStrict, dbm_rawIsWeak
<1>4. x <= R[i][c] /\ (x # dbm_LS_INFINITY => R[i][c] <= dbm_weakRaw(x)) /\ R[i][c] \in Int
  BY <1>1 DEF RelaxedTo
<1>5. CASE x = dbm_LS_INFINITY \/ dbm_rawIsWeak(x)
  BY <1>2, <1>3, <1>5 DEF Weakens
<1>6. CASE ~(x = dbm_LS_INFINITY \/ dbm_rawIsWeak(x))
  <2>1. dbm_weakRaw(x) = x + 1
    BY <1>3, <1>6 DEF dbm_weakRaw
  <2>2. \A j \in Clk : W(j) \in Int /\ D[i][j] \in Int /\ D[j][c] \in Int /\ D[j][c] <= W(j)
                       /\ (W(j) # dbm_LS_INFINITY => D[j][c] # dbm_LS_INFINITY)
    BY WideEntry, WeakRaw DEF Weakened
  <2>3. ASSUME NEW j \in Clk
        PROVE  dbm_addRawRaw(D[i][j], W(j)) \in Int /\ x <= dbm_addRawRaw(D[i][j], W(j))
    <3>1. CASE D[i][j] = dbm_LS_INFINITY \/ W(j) = dbm_LS_INFINITY
      BY <1>3, <3>1 DEF dbm_addRawRaw
    <3>2. CASE ~(D[i][j] = dbm_LS_INFINITY \/ W(j) = dbm_LS_INFINITY)
      <4>1. x <= dbm_addFiniteFinite(D[i][j], D[j][c])
        BY <2>2, <3>2 DEF Closed, ShortcutVia
      <4>2. /\ dbm_addFiniteFinite(D[i][j], D[j][c]) <= dbm_addFiniteFinite(D[i][j], W(j))
            /\ dbm_addFiniteFinite(D[i][j], D[j][c]) \in Int
            /\ dbm_addFiniteFinite(D[i][j], W(j)) \in Int
        BY <2>2, SumLaws
      <4> HIDE DEF W, x
      <4> QED
        BY <1>3, <3>2, <4>1, <4>2 DEF dbm_addRawRaw
    <3> QED
      BY <3>1, <3>2
  <2>4. T \in SUBSET Int /\ T # {} /\ \A y \in T : x <= y
    <3> HIDE DEF W, x
    <3> QED
      BY <1>3, <2>1, <2>3 DEF x
  <2>5. R[i][c] \in T /\ \A y \in T : R[i][c] <= y
    <3> HIDE DEF T
    <3> QED
      BY <1>2, <1>3, <1>6, <2>4, LeastIsLeast
  <2>6. Weakens(D, i, c) <=> \A j \in Clk \ {c} : dbm_addRawRaw(D[i][j], W(j)) >= dbm_weakRaw(x)
    BY <1>3, <1>6 DEF Weakens
  <2>7. R[i][c] = x \/ R[i][c] = dbm_weakRaw(x)
    BY <1>3, <1>4, <1>6, <2>1
  <2>8. Weakens(D, i, c) => R[i][c] = dbm_weakRaw(x)
    <3> SUFFICES ASSUME Weakens(D, i, c) PROVE R[i][c] = dbm_weakRaw(x)
      OBVIOUS
    <3> HIDE DEF W, R, x
    <3>1. \A y \in T : y >= dbm_weakRaw(x)
      <4>1. x + 1 \in Int
        BY <1>3
      <4>2. \A y \in T : y = dbm_weakRaw(x) \/ \E j \in Clk \ {c} : y = dbm_addRawRaw(D[i][j], W(j))
        BY DEF x
      <4> HIDE DEF T
      <4> QED
        BY <2>1, <2>6, <4>1, <4>2
    <3> HIDE DEF T
    <3> QED
      BY <1>3, <2>1, <2>5, <2>7, <3>1
  <2>9. R[i][c] = dbm_weakRaw(x) => Weakens(D, i, c)
    <3> HIDE DEF W, R, x
    <3> QED
      BY <1>3, <2>1, <2>3, <2>5, <2>6, <2>7
  <2> QED
    BY <1>3, <2>1, <2>7, <2>8, <2>9
<1> QED
  BY <1>5, <1>6

\* It changes no other bounds, and no infinite ones.
LEMMA RelaxDownKeeps ==
  ASSUME NEW D \in WideMatrix, NEW c \in Clk, NEW B \in Nat, Closed(D), Bounded(D, B),
         B < dbm_LE_OVERFLOW
  PROVE  LET R == dbm_relaxDownClock(D, c)
         IN  /\ IsMatrix(R)
             /\ \A a, b \in Clk : b # c => R[a][b] = D[a][b]
             /\ \A a \in Clk : /\ D[a][c] = dbm_LS_INFINITY => R[a][c] = D[a][c]
                               /\ D[a][c] # dbm_LS_INFINITY => R[a][c] # dbm_LS_INFINITY
<1> DEFINE R == dbm_relaxDownClock(D, c)
<1>1. RelaxedTo(R, D, c)
  BY RelaxDownIsRelaxed
<1>2. \A a \in Clk : D[a][c] \in Int /\ D[a][c] <= dbm_LS_INFINITY /\ dbm_LS_INFINITY \in Int
  BY WideEntry, Infinity
<1> HIDE DEF R
<1>3. IsMatrix(R)
  BY <1>1 DEF RelaxedTo, IsMatrix
<1>4. \A a, b \in Clk : b # c => R[a][b] = D[a][b]
  BY <1>1 DEF RelaxedTo
<1>5. \A a \in Clk : /\ R[a][c] \in Int /\ D[a][c] <= R[a][c] /\ R[a][c] <= dbm_LS_INFINITY
                     /\ D[a][c] # dbm_LS_INFINITY => R[a][c] # dbm_LS_INFINITY
  BY <1>1 DEF RelaxedTo
<1> HIDE DEF dbm_LS_INFINITY
<1>6. \A a \in Clk : D[a][c] = dbm_LS_INFINITY => R[a][c] = D[a][c]
  BY <1>2, <1>5, SMT
<1> QED
  BY <1>3, <1>4, <1>5, <1>6 DEF R

\* It sees the same bounds in a matrix in which some of them are weak already.
LEMMA WeakensHalfway ==
  ASSUME NEW D \in WideMatrix, NEW c \in Clk, NEW i \in Clk, NEW E,
         \A a, b \in Clk :
           \/ E[a][b] = D[a][b]
           \/ b = c /\ a # i /\ D[a][c] # dbm_LS_INFINITY /\ E[a][c] # dbm_LS_INFINITY
                /\ E[a][c] = dbm_weakRaw(D[a][c])
  PROVE  Weakens(E, i, c) <=> Weakens(D, i, c)
<1>1. \A a, b \in Clk : D[a][b] \in Int
  BY WideEntry
<1>2. \A y \in Int : dbm_weakRaw(dbm_weakRaw(y)) = dbm_weakRaw(y)
  BY DEF dbm_weakRaw, dbm_rawIsStrict
<1>3. \A a \in Clk : Weakened(E)[a][c] = Weakened(D)[a][c]
  BY <1>1, <1>2 DEF Weakened
<1>4. E[i][c] = D[i][c]
  OBVIOUS
<1>5. \A j \in Clk \ {c} : E[i][j] = D[i][j]
  OBVIOUS
<1> QED
  BY <1>3, <1>4, <1>5 DEF Weakens

\* The loop over all clocks goes through these matrices if every step does.
LEMMA RelaxingRun ==
  ASSUME NEW D, NEW R, NEW at, NEW after, after[-1] = Merged(D, R, at, -1),
         \A n \in Clk : after[n - 1] = Merged(D, R, at, n - 1)
                          => after[n] = Merged(D, R, at, n)
  PROVE  \A n \in -1 .. dim - 1 : after[n] = Merged(D, R, at, n)
<1> DEFINE S == {m \in Nat : m - 1 <= dim - 1 => after[m - 1] = Merged(D, R, at, m - 1)}
<1>1. Clk = 0 .. dim - 1 /\ dim \in Int
  BY DimAssumption DEF Clk
<1>2. 0 \in S
  OBVIOUS
<1>3. ASSUME NEW m \in Nat, m \in S PROVE m + 1 \in S
  <2> SUFFICES ASSUME m <= dim - 1 PROVE after[m] = Merged(D, R, at, m)
    OBVIOUS
  <2>1. m \in Clk /\ after[m - 1] = Merged(D, R, at, m - 1)
    BY <1>1, <1>3
  <2> QED
    BY <2>1
<1> HIDE DEF S
<1>4. \A m \in Nat : m \in S
  BY <1>2, <1>3, Induction
<1> SUFFICES ASSUME NEW n \in -1 .. dim - 1 PROVE after[n] = Merged(D, R, at, n)
  OBVIOUS
<1>5. n + 1 \in Nat /\ (n + 1) - 1 = n /\ n <= dim - 1
  BY <1>1
<1> QED
  BY <1>4, <1>5 DEF S

\* The loop of ptr_relaxDownClock reads the matrix that it writes, and leaves what
\* dbm_relaxDownClock leaves.
LEMMA RelaxDownFaithful ==
  ASSUME NEW D, NEW B \in Nat, IsZone(D, B), B < dbm_LE_OVERFLOW, NEW c \in Clk,
         dbm_relaxDownClock(D, c) # Empty
  PROVE  Faithful(ptr_relaxDownClock(D, c), dbm_relaxDownClock(D, c), D)
<1> DEFINE R == dbm_relaxDownClock(D, c)
           at == [a \in Clk |-> [b \in Clk |-> a]]
           M(n) == Merged(D, R, at, n)
           weakens(E, i) == Weakens(E, i, c)
           weaken(E, i) == [E EXCEPT ![i][c] = dbm_weakRaw(@)]
           IsRun(f) == f = [n \in -1 .. dim - 1 |->
             IF n = -1 THEN D
             ELSE IF weakens(f[n - 1], n) THEN weaken(f[n - 1], n) ELSE f[n - 1]]
           after == CHOOSE f : IsRun(f)
           all == [n \in -1 .. dim - 1 |-> M(n)]
<1>1. IsMatrix(D) /\ D # Empty /\ D \in WideMatrix /\ Closed(D) /\ Bounded(D, B)
  BY EmptyIsNegative DEF IsZone, WideMatrix, Closed, IsMatrix
<1>2. IsMatrix(R) /\ (\A a, b \in Clk : b # c => R[a][b] = D[a][b])
      /\ \A a \in Clk : /\ D[a][c] = dbm_LS_INFINITY => R[a][c] = D[a][c]
                        /\ D[a][c] # dbm_LS_INFINITY => R[a][c] # dbm_LS_INFINITY
  BY <1>1, RelaxDownKeeps
<1>3. \A i \in Clk : /\ Weakens(D, i, c) <=> R[i][c] # D[i][c]
                     /\ R[i][c] # D[i][c] => R[i][c] = dbm_weakRaw(D[i][c])
  BY <1>1, RelaxDownChanges
<1>4. \A a, b \in Clk : at[a][b] = a
  OBVIOUS
<1>5. 0 \in Clk /\ (\A a \in Clk : a \in Int /\ a - 1 \in -1 .. dim - 1) /\ Clk = 0 .. dim - 1
      /\ dim - 1 \in Clk /\ dim \in Int /\ (-1) \in -1 .. dim - 1
      /\ \A n \in -1 .. dim - 1 : n # -1 => n \in Clk
  BY DimAssumption DEF Clk
<1> HIDE DEF R, at
<1>6. M(-1) = D /\ M(dim - 1) = R
  <2>1. IsMatrix(M(-1)) /\ \A a, b \in Clk : M(-1)[a][b] = D[a][b]
    BY <1>4, <1>5, MergedEntries
  <2>2. IsMatrix(M(dim - 1)) /\ \A a, b \in Clk : M(dim - 1)[a][b] = R[a][b]
    BY <1>4, <1>5, MergedEntries, SMTT(30)
  <2> HIDE DEF M
  <2> QED
    BY <1>1, <1>2, <2>1, <2>2, SameEntries
<1>7. ASSUME NEW n \in Clk
      PROVE  /\ Weakens(M(n - 1), n, c) <=> R[n][c] # D[n][c]
             /\ M(n) = IF Weakens(M(n - 1), n, c) THEN weaken(M(n - 1), n) ELSE M(n - 1)
  <2> DEFINE F == M(n - 1)
             E == weaken(F, n)
  <2>1. IsMatrix(F) /\ \A a, b \in Clk : F[a][b] = IF a <= n - 1 THEN R[a][b] ELSE D[a][b]
    BY <1>4, MergedEntries
  <2> HIDE DEF F
  <2>2. n \in Int /\ F[n][c] = D[n][c]
    BY <1>5, <2>1
  <2>3. \A a, b \in Clk :
          \/ F[a][b] = D[a][b]
          \/ b = c /\ a # n /\ D[a][c] # dbm_LS_INFINITY /\ F[a][c] # dbm_LS_INFINITY
               /\ F[a][c] = dbm_weakRaw(D[a][c])
    BY <1>2, <1>3, <1>5, <2>1, <2>2
  <2>4. Weakens(F, n, c) <=> R[n][c] # D[n][c]
    BY <1>1, <1>3, <2>3, WeakensHalfway
  <2>5. ASSUME R[n][c] # D[n][c] PROVE M(n) = E
    <3>1. IsMatrix(E) /\ \A a, b \in Clk : E[a][b] = IF a = n /\ b = c THEN dbm_weakRaw(D[n][c])
                                                     ELSE F[a][b]
      BY <2>1, <2>2 DEF IsMatrix
    <3> HIDE DEF E
    <3>2. \A a, b \in Clk : E[a][b] = IF at[a][b] = n THEN R[a][b] ELSE F[a][b]
      BY <1>2, <1>3, <1>4, <1>5, <2>1, <2>2, <2>5, <3>1
    <3> QED
      BY <1>4, <1>5, <3>1, <3>2, MergedStep DEF F
  <2>6. ASSUME R[n][c] = D[n][c] PROVE M(n) = F
    <3>1. \A a, b \in Clk : F[a][b] = IF at[a][b] = n THEN R[a][b] ELSE F[a][b]
      BY <1>2, <1>4, <1>5, <2>1, <2>2, <2>6
    <3> QED
      BY <1>4, <1>5, <2>1, <3>1, MergedStep DEF F
  <2> QED
    BY <2>4, <2>5, <2>6 DEF F
<1>8. IsRun(all)
  <2> HIDE DEF M, weaken
  <2>1. ASSUME NEW n \in -1 .. dim - 1
        PROVE  M(n) = IF n = -1 THEN D
                      ELSE IF weakens(all[n - 1], n) THEN weaken(all[n - 1], n) ELSE all[n - 1]
    <3>1. CASE n = -1
      BY <1>6, <3>1
    <3>2. CASE n # -1
      <4>1. n \in Clk /\ all[n - 1] = M(n - 1)
        BY <1>5, <3>2
      <4> HIDE DEF all
      <4> QED
        BY <1>7, <3>2, <4>1
    <3> QED
      BY <3>1, <3>2
  <2> QED
    BY <2>1
<1>9. IsRun(after)
  <2> HIDE DEF all
  <2> QED
    BY <1>8
<1> HIDE DEF after
<1>10. \A n \in -1 .. dim - 1 : after[n] = M(n)
  <2>1. after[-1] = D
    BY <1>5, <1>9
  <2>2. ASSUME NEW n \in Clk, after[n - 1] = M(n - 1) PROVE after[n] = M(n)
    <3>1. n \in -1 .. dim - 1 /\ n # -1
      BY <1>5
    <3> HIDE DEF M, weaken
    <3>2. after[n] = IF weakens(after[n - 1], n) THEN weaken(after[n - 1], n) ELSE after[n - 1]
      BY <1>9, <3>1
    <3> QED
      BY <1>7, <2>2, <3>2
  <2> QED
    BY <1>6, <2>1, <2>2, RelaxingRun
<1>11. ptr_relaxDownClock(D, c)
         = IF \E n \in Clk : weakens(after[n - 1], n) THEN Copied(after[dim - 1]) ELSE Kept(D)
  BY DEF ptr_relaxDownClock, Relaxed, Weakens, after
<1>12. (\E n \in Clk : weakens(after[n - 1], n)) <=> R # D
  <2>1. \A n \in Clk : weakens(after[n - 1], n) <=> R[n][c] # D[n][c]
    BY <1>5, <1>7, <1>10
  <2>2. R # D <=> \E n \in Clk : R[n][c] # D[n][c]
    BY <1>1, <1>2, SameEntries
  <2> QED
    BY <2>1, <2>2
<1>13. after[dim - 1] = R
  BY <1>5, <1>6, <1>10
<1> HIDE DEF weakens, after
<1> QED
  BY <1>1, <1>11, <1>12, <1>13, KeptOrCopied DEF R


\* The same with rows and columns exchanged.
WeakensUp(E, i, c) ==
  /\ E[c][i] < dbm_LS_INFINITY /\ dbm_rawIsStrict(E[c][i])
  /\ \A j \in Clk \ {c} :
       dbm_addRawRaw(E[j][i], Weakened(E)[c][j]) >= dbm_weakRaw(E[c][i])

\* It is the same in the transposed matrix.
LEMMA WeakensTransposed ==
  ASSUME NEW E, NEW c \in Clk, NEW i \in Clk
  PROVE  WeakensUp(E, i, c) <=> Weakens(Transposed(E), i, c)
<1>1. \A a, b \in Clk : Transposed(E)[a][b] = E[b][a]
  BY DEF Transposed
<1>2. \A a, b \in Clk : Weakened(Transposed(E))[a][b] = Weakened(E)[b][a]
  BY <1>1 DEF Weakened
<1>3. Clk \ {c} \in SUBSET Clk
  OBVIOUS
<1> QED
  BY <1>1, <1>2, <1>3 DEF Weakens, WeakensUp

\* It sees the same bounds in a matrix in which some of them are weak already.
LEMMA WeakensUpHalfway ==
  ASSUME NEW D \in WideMatrix, NEW c \in Clk, NEW i \in Clk, NEW E,
         \A a, b \in Clk :
           \/ E[a][b] = D[a][b]
           \/ a = c /\ b # i /\ D[c][b] # dbm_LS_INFINITY /\ E[c][b] # dbm_LS_INFINITY
                /\ E[c][b] = dbm_weakRaw(D[c][b])
  PROVE  WeakensUp(E, i, c) <=> WeakensUp(D, i, c)
<1> DEFINE S == Transposed(D)
           T == Transposed(E)
<1>1. S \in WideMatrix /\ \A a, b \in Clk : S[a][b] = D[b][a] /\ T[a][b] = E[b][a]
  BY TransposedMatrix DEF Transposed
<1> HIDE DEF S, T
<1>2. \A a, b \in Clk :
        \/ T[a][b] = S[a][b]
        \/ b = c /\ a # i /\ S[a][c] # dbm_LS_INFINITY /\ T[a][c] # dbm_LS_INFINITY
             /\ T[a][c] = dbm_weakRaw(S[a][c])
  BY <1>1
<1>3. Weakens(T, i, c) <=> Weakens(S, i, c)
  BY <1>1, <1>2, WeakensHalfway
<1> QED
  BY <1>3, WeakensTransposed DEF S, T

\* The loop of ptr_relaxUpClock reads the matrix that it writes, and leaves what
\* dbm_relaxUpClock leaves.
LEMMA RelaxUpFaithful ==
  ASSUME NEW D, NEW B \in Nat, IsZone(D, B), B < dbm_LE_OVERFLOW, NEW c \in Clk,
         dbm_relaxUpClock(D, c) # Empty
  PROVE  Faithful(ptr_relaxUpClock(D, c), dbm_relaxUpClock(D, c), D)
<1> DEFINE R == dbm_relaxUpClock(D, c)
           T == Transposed(D)
           at == [a \in Clk |-> [b \in Clk |-> b]]
           M(n) == Merged(D, R, at, n)
           weakens(E, i) == WeakensUp(E, i, c)
           weaken(E, i) == [E EXCEPT ![c][i] = dbm_weakRaw(@)]
           IsRun(f) == f = [n \in -1 .. dim - 1 |->
             IF n = -1 THEN D
             ELSE IF weakens(f[n - 1], n) THEN weaken(f[n - 1], n) ELSE f[n - 1]]
           after == CHOOSE f : IsRun(f)
           all == [n \in -1 .. dim - 1 |-> M(n)]
<1>1. IsMatrix(D) /\ D # Empty /\ D \in WideMatrix /\ Closed(D) /\ Bounded(D, B)
  BY EmptyIsNegative DEF IsZone, WideMatrix, Closed, IsMatrix
<1>2. /\ R = Transposed(dbm_relaxDownClock(T, c)) /\ T \in WideMatrix /\ Closed(T)
      /\ Bounded(T, B) /\ \A a, b \in Clk : T[a][b] = D[b][a]
      /\ \A a, b \in Clk : R[a][b] = dbm_relaxDownClock(T, c)[b][a]
  <2>1. R = Transposed(dbm_relaxDownClock(T, c))
    BY <1>1, RelaxUpIsTransposed
  <2>2. T \in WideMatrix /\ Closed(T) /\ \A a, b \in Clk : T[a][b] = D[b][a]
    BY <1>1, TransposedMatrix
  <2>3. Bounded(T, B)
    BY <1>1, TransposedMatrix
  <2> HIDE DEF R, T
  <2>4. \A a, b \in Clk : R[a][b] = dbm_relaxDownClock(T, c)[b][a]
    BY <2>1 DEF Transposed
  <2> QED
    BY <2>1, <2>2, <2>3, <2>4
<1>3. IsMatrix(R) /\ (\A a, b \in Clk : a # c => R[a][b] = D[a][b])
      /\ \A a \in Clk : /\ D[c][a] = dbm_LS_INFINITY => R[c][a] = D[c][a]
                        /\ D[c][a] # dbm_LS_INFINITY => R[c][a] # dbm_LS_INFINITY
  <2>1. IsMatrix(R)
    BY <1>2 DEF Transposed, IsMatrix
  <2> HIDE DEF R
  <2> QED
    BY <1>2, <2>1, RelaxDownKeeps
<1>4. \A i \in Clk : /\ WeakensUp(D, i, c) <=> R[c][i] # D[c][i]
                     /\ R[c][i] # D[c][i] => R[c][i] = dbm_weakRaw(D[c][i])
  <2>1. \A i \in Clk : WeakensUp(D, i, c) <=> Weakens(T, i, c)
    BY WeakensTransposed
  <2> HIDE DEF R, T
  <2> QED
    BY <1>2, <2>1, RelaxDownChanges
<1>5. \A a, b \in Clk : at[a][b] = b
  OBVIOUS
<1>6. 0 \in Clk /\ (\A a \in Clk : a \in Int /\ a - 1 \in -1 .. dim - 1) /\ Clk = 0 .. dim - 1
      /\ dim - 1 \in Clk /\ dim \in Int /\ (-1) \in -1 .. dim - 1
      /\ \A n \in -1 .. dim - 1 : n # -1 => n \in Clk
  BY DimAssumption DEF Clk
<1> HIDE DEF R, at
<1>7. M(-1) = D /\ M(dim - 1) = R
  <2>1. IsMatrix(M(-1)) /\ \A a, b \in Clk : M(-1)[a][b] = D[a][b]
    BY <1>5, <1>6, MergedEntries
  <2>2. IsMatrix(M(dim - 1)) /\ \A a, b \in Clk : M(dim - 1)[a][b] = R[a][b]
    BY <1>5, <1>6, MergedEntries, SMTT(30)
  <2> HIDE DEF M
  <2> QED
    BY <1>1, <1>3, <2>1, <2>2, SameEntries
<1>8. ASSUME NEW n \in Clk
      PROVE  /\ WeakensUp(M(n - 1), n, c) <=> R[c][n] # D[c][n]
             /\ M(n) = IF WeakensUp(M(n - 1), n, c) THEN weaken(M(n - 1), n) ELSE M(n - 1)
  <2> DEFINE F == M(n - 1)
             E == weaken(F, n)
  <2>1. IsMatrix(F) /\ \A a, b \in Clk : F[a][b] = IF b <= n - 1 THEN R[a][b] ELSE D[a][b]
    BY <1>5, MergedEntries
  <2> HIDE DEF F
  <2>2. n \in Int /\ F[c][n] = D[c][n]
    BY <1>6, <2>1
  <2>3. \A a, b \in Clk :
          \/ F[a][b] = D[a][b]
          \/ a = c /\ b # n /\ D[c][b] # dbm_LS_INFINITY /\ F[c][b] # dbm_LS_INFINITY
               /\ F[c][b] = dbm_weakRaw(D[c][b])
    BY <1>3, <1>4, <1>6, <2>1, <2>2
  <2>4. WeakensUp(F, n, c) <=> R[c][n] # D[c][n]
    BY <1>1, <1>4, <2>3, WeakensUpHalfway
  <2>5. ASSUME R[c][n] # D[c][n] PROVE M(n) = E
    <3>1. IsMatrix(E) /\ \A a, b \in Clk : E[a][b] = IF a = c /\ b = n THEN dbm_weakRaw(D[c][n])
                                                     ELSE F[a][b]
      <4>1. F = [a \in Clk |-> [b \in Clk |-> F[a][b]]]
        BY <2>1 DEF IsMatrix
      <4>2. E = [a \in Clk |-> [b \in Clk |-> IF a = c /\ b = n THEN dbm_weakRaw(F[c][n])
                                              ELSE F[a][b]]]
        BY <4>1
      <4> HIDE DEF E
      <4> QED
        BY <2>2, <4>2 DEF IsMatrix
    <3> HIDE DEF E
    <3>2. \A a, b \in Clk : E[a][b] = IF at[a][b] = n THEN R[a][b] ELSE F[a][b]
      BY <1>3, <1>4, <1>5, <1>6, <2>1, <2>2, <2>5, <3>1
    <3> QED
      BY <1>5, <1>6, <3>1, <3>2, MergedStep DEF F
  <2>6. ASSUME R[c][n] = D[c][n] PROVE M(n) = F
    <3>1. \A a, b \in Clk : F[a][b] = IF at[a][b] = n THEN R[a][b] ELSE F[a][b]
      BY <1>3, <1>5, <1>6, <2>1, <2>2, <2>6
    <3> QED
      BY <1>5, <1>6, <2>1, <3>1, MergedStep DEF F
  <2> QED
    BY <2>4, <2>5, <2>6 DEF F
<1>9. IsRun(all)
  <2> HIDE DEF M, weaken
  <2>1. ASSUME NEW n \in -1 .. dim - 1
        PROVE  M(n) = IF n = -1 THEN D
                      ELSE IF weakens(all[n - 1], n) THEN weaken(all[n - 1], n) ELSE all[n - 1]
    <3>1. CASE n = -1
      BY <1>7, <3>1
    <3>2. CASE n # -1
      <4>1. n \in Clk /\ all[n - 1] = M(n - 1)
        BY <1>6, <3>2
      <4> HIDE DEF all
      <4> QED
        BY <1>8, <3>2, <4>1
    <3> QED
      BY <3>1, <3>2
  <2> QED
    BY <2>1
<1>10. IsRun(after)
  <2> HIDE DEF all
  <2> QED
    BY <1>9
<1> HIDE DEF after
<1>11. \A n \in -1 .. dim - 1 : after[n] = M(n)
  <2>1. after[-1] = D
    BY <1>6, <1>10
  <2>2. ASSUME NEW n \in Clk, after[n - 1] = M(n - 1) PROVE after[n] = M(n)
    <3>1. n \in -1 .. dim - 1 /\ n # -1
      BY <1>6
    <3> HIDE DEF M, weaken
    <3>2. after[n] = IF weakens(after[n - 1], n) THEN weaken(after[n - 1], n) ELSE after[n - 1]
      BY <1>10, <3>1
    <3> QED
      BY <1>8, <2>2, <3>2
  <2> QED
    BY <1>7, <2>1, <2>2, RelaxingRun
<1>12. ptr_relaxUpClock(D, c)
         = IF \E n \in Clk : weakens(after[n - 1], n) THEN Copied(after[dim - 1]) ELSE Kept(D)
  BY DEF ptr_relaxUpClock, Relaxed, WeakensUp, after
<1>13. (\E n \in Clk : weakens(after[n - 1], n)) <=> R # D
  <2>1. \A n \in Clk : weakens(after[n - 1], n) <=> R[c][n] # D[c][n]
    BY <1>6, <1>8, <1>11
  <2>2. R # D <=> \E n \in Clk : R[c][n] # D[c][n]
    BY <1>1, <1>3, SameEntries
  <2> QED
    BY <2>1, <2>2
<1>14. after[dim - 1] = R
  BY <1>6, <1>7, <1>11
<1> HIDE DEF weakens, after
<1> QED
  BY <1>1, <1>12, <1>13, <1>14, KeptOrCopied DEF R

-----------------------------------------------------------------------------
(* Tightening.                                                               *)

\* update tells the updates apart, as dbm_update does.
LEMMA UpdateCallFaithful ==
  ASSUME NEW D, NEW B \in Nat, IsZone(D, B), NEW i \in Clocks, NEW j \in Clocks,
         NEW v \in Int, dbm_update(D, i, j, v) # Empty
  PROVE  Faithful(update(D, i, j, v), dbm_update(D, i, j, v), D)
<1> DEFINE R == dbm_updateIncrement(D, i, v)
<1>1. IsMatrix(D) /\ D # Empty /\ i \in Clk /\ 0 \in Clk /\ i # 0
  <2>1. i \in Clk /\ 0 \in Clk /\ i # 0
    BY DimAssumption DEF Clocks, Clk
  <2>2. IsMatrix(D) /\ D # Empty
    BY EmptyIsNegative DEF IsZone, WideMatrix, Closed, IsMatrix
  <2> QED
    BY <2>1, <2>2
<1>2. \A a, b \in Clk : D[a][b] \in Int
  BY WideEntry DEF IsZone
<1>3. D[0][i] < dbm_LS_INFINITY
  BY <1>1, <1>2, Infinity DEF IsZone
<1>4. CASE i = j
  <2>1. dbm_update(D, i, j, v) = R /\ R # Empty
    BY <1>4 DEF dbm_update
  <2>2. IsMatrix(R)
    BY DEF dbm_updateIncrement, IsMatrix
  <2>3. CASE v = 0
    <3>1. \A x \in Int : dbm_rawInc(x, 2 * 0) = x /\ dbm_rawDec(x, 2 * 0) = x
      BY DEF dbm_rawInc, dbm_rawDec
    <3>2. \A a, b \in Clk : R[a][b] = D[a][b]
      BY <1>2, <2>3, <3>1 DEF dbm_updateIncrement
    <3> HIDE DEF R
    <3>3. R = D
      BY <1>1, <2>2, <3>2, SameEntries
    <3> QED
      BY <1>1, <1>4, <2>1, <2>3, <3>3, KeptOrCopied DEF update
  <2>4. CASE v # 0
    <3>1. R[0][i] = D[0][i] - 2 * v
      BY <1>1, <1>3 DEF dbm_updateIncrement, dbm_rawDec
    <3>2. R[0][i] # D[0][i]
      BY <1>1, <1>2, <2>4, <3>1
    <3> QED
      BY <1>4, <2>1, <2>4, <3>2, KeptOrCopied DEF update
  <2> QED
    BY <2>3, <2>4
<1>5. CASE i # j /\ v = 0
  BY <1>5, UpdateClockFaithful DEF update, dbm_update
<1>6. CASE i # j /\ v # 0
  BY <1>6, UpdateFaithful DEF update
<1> QED
  BY <1>4, <1>5, <1>6

\* The closure of one new bound is a zone, in which this bound has changed.
LEMMA OneBoundChanges ==
  ASSUME NEW D, NEW B \in Nat, IsZone(D, B), 3 * B <= dbm_LE_OVERFLOW,
         NEW b \in Clk, NEW a \in Clk, b # a, NEW v \in Int, -B < v, v < B, v < D[b][a],
         ~TooTight([D EXCEPT ![b][a] = v], b, a)
  PROVE  LET E == dbm_closeij([D EXCEPT ![b][a] = v], b, a)
         IN  E # Empty /\ E # D
<1> DEFINE T == [D EXCEPT ![b][a] = v]
           E == dbm_closeij(T, b, a)
<1>1. D \in WideMatrix /\ Closed(D) /\ Bounded(D, B) /\ ZeroDiagonal(D)
  BY DEF IsZone, Closed
<1>2. T[b][a] = v /\ T[a][b] = D[a][b] /\ D[a][b] \in Int /\ D[b][a] \in Int
  BY <1>1, WideEntry DEF WideMatrix
<1> HIDE DEF T
<1>3. dbm_LE_ZERO <= dbm_addFiniteFinite(v, D[a][b])
  BY <1>2, NotTooTight DEF T
<1>4. ThroughEdge(E, D, b, a, v)
  BY <1>1, <1>3, CloseijIsThroughEdge DEF T
<1> HIDE DEF E
<1>5. Closed(E)
  BY <1>1, <1>3, <1>4, ThroughEdgeCloses
<1>6. E # Empty
  BY <1>5, EmptyIsNegative DEF Closed
<1>7. D[b][b] = dbm_LE_ZERO /\ D[a][a] = dbm_LE_ZERO /\ dbm_LE_ZERO # dbm_LS_INFINITY
  BY <1>1, Infinity DEF ZeroDiagonal
<1>8. E[b][a] <= dbm_addFiniteFinite(dbm_addFiniteFinite(D[b][b], v), D[a][a])
  BY <1>4, <1>7 DEF ThroughEdge
<1>9. E[b][a] <= v
  BY <1>7, <1>8, AddZero
<1>10. E[b][a] # D[b][a]
  BY <1>2, <1>4, <1>9 DEF ThroughEdge
<1> QED
  BY <1>6, <1>10 DEF E, T

\* ptr_constrain1 is dbm_constrain1, but for the copy.
LEMMA Constrain1Faithful ==
  ASSUME NEW D, NEW B \in Nat, IsZone(D, B), 3 * B <= dbm_LE_OVERFLOW, NEW c,
         IsConstraint(c, B)
  PROVE  Faithful(ptr_constrain1(D, c), dbm_constrain1(D, c), D)
<1> DEFINE T == [D EXCEPT ![c.i][c.j] = c.value]
           E == dbm_closeij(T, c.i, c.j)
<1>1. D \in WideMatrix /\ D # Empty /\ c.i \in Clk /\ c.j \in Clk /\ c.i # c.j
  BY EmptyIsNegative DEF IsZone, Closed, IsConstraint
<1>2. T[c.i][c.j] = c.value /\ T[c.j][c.i] = D[c.j][c.i]
  BY <1>1 DEF WideMatrix
<1>3. D[c.i][c.j] \in Int /\ c.value \in Int
  BY <1>1, WideEntry DEF IsConstraint
<1>4. CASE D[c.i][c.j] <= c.value
  BY <1>1, <1>4, KeptOrCopied DEF ptr_constrain1, dbm_constrain1
<1>5. CASE ~(D[c.i][c.j] <= c.value)
  <2>1. TooTight(T, c.i, c.j) <=> dbm_negRaw(c.value) >= D[c.j][c.i]
    BY <1>2 DEF TooTight
  <2>2. dbm_constrain1(D, c) = IF TooTight(T, c.i, c.j) THEN Empty ELSE E
    BY <1>5 DEF dbm_constrain1
  <2>3. ptr_constrain1(D, c) = IF dbm_negRaw(c.value) >= D[c.j][c.i] THEN Gone ELSE Copied(E)
    BY <1>5 DEF ptr_constrain1
  <2>4. ~TooTight(T, c.i, c.j) => E # Empty /\ E # D
    BY <1>3, <1>5, OneBoundChanges DEF IsConstraint
  <2> HIDE DEF E, T
  <2> QED
    BY <1>1, <2>1, <2>2, <2>3, <2>4, KeptOrCopied
<1> QED
  BY <1>4, <1>5

\* A closure for one clock leaves no bound looser.
LEMMA OnePassNoLooser ==
  ASSUME NEW T \in WideMatrix, NEW c \in Clk
  PROVE  LET E == dbm_close1(T, c) IN E \in WideMatrix /\ (E # Empty => NoLooser(E, T))
<1> DEFINE P == PassVia(T, c)
<1>1. dbm_close1(T, c) = ClosePass(T, c, {c})
  BY OnePass DEF dbm_close1
<1>2. P \in WideMatrix
  BY PassType
<1>3. ASSUME NEW a \in Clk, NEW b \in Clk PROVE P[a][b] <= T[a][b]
  <2>1. T[a][b] \in Int /\ T[a][c] \in Int /\ T[c][b] \in Int /\ P[a][b] \in Int
    BY <1>2, WideEntry
  <2>2. P[a][b] = T[a][b] \/ P[a][b] = RawMin(T[a][b], dbm_addRawRaw(T[a][c], T[c][b]))
    BY DEF PassVia, RowVia
  <2>3. \A y \in Int : RawMin(T[a][b], y) <= T[a][b]
    BY <2>1 DEF RawMin
  <2>4. dbm_addRawRaw(T[a][c], T[c][b]) \in Int
    BY <2>1, SumLaws, Infinity DEF dbm_addRawRaw
  <2> HIDE DEF P
  <2> QED
    BY <2>1, <2>2, <2>3, <2>4
<1> HIDE DEF P
<1>4. NoLooser(P, T)
  BY <1>3 DEF NoLooser
<1>5. NoLooser(T, T)
  BY WideEntry DEF NoLooser
<1> QED
  BY <1>1, <1>2, <1>4, <1>5, EmptyIsNegative DEF ClosePass, P

\* ptr_constrainClock tests the new bounds against each other before it writes them,
\* dbm_constrainClock when it writes them.
LEMMA ConstrainClockFaithful ==
  ASSUME NEW D, NEW B \in Nat, IsZone(D, B), NEW k \in Clocks, NEW value \in Int
  PROVE  Faithful(ptr_constrainClock(D, k, value), dbm_constrainClock(D, k, value), D)
<1> DEFINE upper == dbm_bound2raw(value, dbm_WEAK)
           lower == dbm_bound2raw(-value, dbm_WEAK)
           newUp == RawMin(D[k][0], upper)
           newLo == RawMin(D[0][k], lower)
           U == [D EXCEPT ![k][0] = newUp]
           L == [U EXCEPT ![0][k] = newLo]
           C == dbm_close1(L, 0)
           R == dbm_close1(C, k)
<1>1. D \in WideMatrix /\ D # Empty /\ k \in Clk /\ 0 \in Clk /\ k # 0
  BY EmptyIsNegative, DimAssumption DEF IsZone, Closed, Clocks, Clk
<1>2. upper \in Int /\ lower \in Int /\ D[k][0] \in Int /\ D[0][k] \in Int
  BY <1>1, WideEntry DEF dbm_bound2raw, dbm_WEAK
<1> HIDE DEF upper, lower
<1>3. /\ newUp \in Int /\ newUp <= D[k][0] /\ (newUp = D[k][0] <=> ~(D[k][0] > upper))
      /\ newLo \in Int /\ newLo <= D[0][k] /\ (newLo = D[0][k] <=> ~(D[0][k] > lower))
  BY <1>2 DEF RawMin
<1> HIDE DEF newUp, newLo
<1>4. Shaped(D)
  BY <1>1 DEF WideMatrix, Shaped
<1>5. Shaped(U) /\ \A i, j \in Clk : U[i][j] = IF i = k /\ j = 0 THEN newUp ELSE D[i][j]
  <2>1. Changed(U, D, k, 0, newUp)
    BY DEF Changed
  <2> HIDE DEF U
  <2> QED
    BY <1>1, <1>4, <2>1, ChangedEntry
<1>6. Shaped(L) /\ \A i, j \in Clk : L[i][j] = IF i = 0 /\ j = k THEN newLo ELSE U[i][j]
  <2>1. Changed(L, U, 0, k, newLo)
    BY DEF Changed
  <2> HIDE DEF L, U
  <2> QED
    BY <1>1, <1>5, <2>1, ChangedEntry
<1>7. /\ U[0][k] = D[0][k] /\ U[k][0] = newUp /\ L[0][k] = newLo /\ L[k][0] = newUp
      /\ L = [U EXCEPT ![0][k] = RawMin(@, lower)]
  <2> HIDE DEF U
  <2>1. U[0][k] = D[0][k] /\ U[k][0] = newUp
    BY <1>1, <1>5
  <2>2. newLo = RawMin(U[0][k], lower)
    BY <2>1 DEF newLo
  <2>3. L = [U EXCEPT ![0][k] = RawMin(U[0][k], lower)]
    BY <2>2
  <2> HIDE DEF L
  <2> QED
    BY <1>1, <1>5, <1>6, <2>1, <2>3
<1>8. /\ TooTight(U, k, 0) <=> 1 - newUp >= D[0][k]
      /\ TooTight(L, 0, k) <=> 1 - newLo >= newUp
      /\ dbm_negRaw(newUp) >= newLo <=> 1 - newUp >= newLo
  BY <1>7 DEF TooTight, dbm_negRaw
<1>9. dbm_constrainClock(D, k, value) =
        IF \/ D[k][0] > upper /\ TooTight(U, k, 0)
           \/ U[0][k] > lower /\ TooTight(L, 0, k)
        THEN Empty
        ELSE IF L = D THEN D ELSE IF C = Empty THEN Empty ELSE R
  BY <1>7 DEF dbm_constrainClock, newUp, upper, lower
<1>10. ptr_constrainClock(D, k, value) =
         IF newUp = D[k][0] /\ newLo = D[0][k] THEN Kept(D)
         ELSE IF dbm_negRaw(newUp) >= newLo \/ C = Empty THEN Gone
         ELSE CopiedOrGone(R)
  BY DEF ptr_constrainClock, newUp, newLo, upper, lower
<1>11. L = D <=> newUp = D[k][0] /\ newLo = D[0][k]
  <2> HIDE DEF L, U
  <2>1. newUp = D[k][0] /\ newLo = D[0][k] => \A i, j \in Clk : L[i][j] = D[i][j]
    BY <1>5, <1>6
  <2>2. IsMatrix(L) /\ IsMatrix(D)
    BY <1>4, <1>6 DEF Shaped, IsMatrix
  <2> QED
    BY <1>7, <2>1, <2>2, SameEntries
<1> HIDE DEF U, L
<1>12. \A i, j \in Clk : L[i][j] \in Int /\ L[i][j] <= D[i][j]
  BY <1>1, <1>3, <1>5, <1>6, WideEntry
<1>13. L \in WideMatrix
  <2>1. \A i, j \in Clk : D[i][j] \in Int /\ D[i][j] <= dbm_LS_INFINITY
    BY <1>1, WideEntry
  <2>2. \A i, j \in Clk : L[i][j] \in Int /\ L[i][j] <= dbm_LS_INFINITY
    BY <1>12, <2>1, Infinity
  <2> QED
    BY <1>6, <2>2, EntriesType DEF Shaped
<1>14. /\ C \in WideMatrix /\ (C # Empty => NoLooser(C, L))
       /\ R \in WideMatrix /\ (R # Empty => NoLooser(R, C))
  BY <1>1, <1>13, OnePassNoLooser
<1> HIDE DEF C, R
<1>15. C # Empty /\ R # Empty => R[k][0] <= newUp /\ R[0][k] <= newLo
  <2> SUFFICES ASSUME C # Empty, R # Empty PROVE R[k][0] <= newUp /\ R[0][k] <= newLo
    OBVIOUS
  <2>1. R[k][0] <= C[k][0] /\ C[k][0] <= L[k][0] /\ R[0][k] <= C[0][k] /\ C[0][k] <= L[0][k]
    BY <1>1, <1>14 DEF NoLooser
  <2>2. R[k][0] \in Int /\ C[k][0] \in Int /\ R[0][k] \in Int /\ C[0][k] \in Int
    BY <1>1, <1>14, WideEntry
  <2> QED
    BY <1>3, <1>7, <2>1, <2>2
<1>16. CASE newUp = D[k][0] /\ newLo = D[0][k]
  BY <1>1, <1>3, <1>7, <1>9, <1>10, <1>11, <1>16, KeptOrCopied
<1>17. CASE ~(newUp = D[k][0] /\ newLo = D[0][k]) /\ dbm_negRaw(newUp) >= newLo
  <2>1. \/ D[k][0] > upper /\ TooTight(U, k, 0)
        \/ U[0][k] > lower /\ TooTight(L, 0, k)
    BY <1>2, <1>3, <1>7, <1>8, <1>17
  <2> QED
    BY <1>1, <1>9, <1>10, <1>17, <2>1, KeptOrCopied
<1>18. CASE ~(newUp = D[k][0] /\ newLo = D[0][k]) /\ ~(dbm_negRaw(newUp) >= newLo)
  <2>1. ~TooTight(U, k, 0) /\ ~TooTight(L, 0, k)
    BY <1>2, <1>3, <1>7, <1>8, <1>18
  <2>2. dbm_constrainClock(D, k, value) = IF C = Empty THEN Empty ELSE R
    BY <1>9, <1>11, <1>18, <2>1
  <2>3. ptr_constrainClock(D, k, value) = IF C = Empty THEN Gone ELSE CopiedOrGone(R)
    BY <1>10, <1>18
  <2>4. C # Empty /\ R # Empty => R # D
    <3>1. newUp < D[k][0] \/ newLo < D[0][k]
      BY <1>2, <1>3, <1>18
    <3>2. R[k][0] \in Int /\ R[0][k] \in Int
      BY <1>1, <1>14, WideEntry
    <3> QED
      BY <1>2, <1>3, <1>15, <3>1, <3>2
  <2> QED
    BY <1>1, <2>2, <2>3, <2>4, KeptOrCopied DEF CopiedOrGone
<1> QED
  BY <1>16, <1>17, <1>18

\* ptr_intersection asks how the matrices relate and whether they exclude each other, and
\* closes only when neither answers.
LEMMA IntersectionFaithful ==
  ASSUME NEW D, NEW S, NEW B \in Nat, IsZone(D, B), IsZone(S, B),
         (dim + 2) * B <= dbm_LE_OVERFLOW
  PROVE  Faithful(ptr_intersection(D, S), dbm_intersection(D, S), D)
<1> DEFINE R == dbm_intersection(D, S)
           T == Entrywise(RawMin, D, S)
           relation == dbm_relation(D, S)
<1>1. /\ D \in WideMatrix /\ S \in WideMatrix /\ Bounded(S, B) /\ ZeroDiagonal(S)
      /\ D # Empty /\ S # Empty
  BY EmptyIsNegative DEF IsZone, Closed
<1>2. ClosedSomehow(R, T, D, B)
  BY <1>1, TightenedByWays DEF dbm_intersection
<1>3. /\ T \in WideMatrix /\ Bounded(T, B) /\ B \in Int /\ B <= dbm_LE_OVERFLOW
      /\ \A i, j \in Clk : T[i][j] = IF D[i][j] > S[i][j] THEN S[i][j] ELSE D[i][j]
  BY <1>1, SmallerBounds, RoomWithin
<1>4. \A i, j \in Clk : D[i][j] \in Int /\ S[i][j] \in Int
  BY <1>1, WideEntry
<1> HIDE DEF R, T
<1>5. Greatest(R, ClosedBelow(T))
  BY <1>2, SomehowIsGreatest
<1>6. \A X \in WideMatrix : ClosedBelow(X) \in SUBSET WideMatrix
  BY DEF ClosedBelow
<1>7. IsMatrix(T) /\ IsMatrix(D) /\ IsMatrix(S)
  BY <1>1, <1>3 DEF WideMatrix, IsMatrix
<1>8. dbm_isSubsetEq(S, D) => R = S
  <2> SUFFICES ASSUME dbm_isSubsetEq(S, D) PROVE R = S
    OBVIOUS
  <2>1. \A i, j \in Clk : T[i][j] = S[i][j]
    BY <1>3, <1>4 DEF dbm_isSubsetEq
  <2>2. T = S
    BY <1>7, <2>1, SameEntries
  <2>3. Greatest(S, ClosedBelow(T))
    BY <2>2, ZoneIsGreatest
  <2> QED
    BY <1>3, <1>5, <1>6, <2>3, GreatestIsOne
<1>9. dbm_isSubsetEq(D, S) => R = D
  <2> SUFFICES ASSUME dbm_isSubsetEq(D, S) PROVE R = D
    OBVIOUS
  <2>1. \A i, j \in Clk : T[i][j] = D[i][j]
    BY <1>3, <1>4 DEF dbm_isSubsetEq
  <2>2. T = D
    BY <1>7, <2>1, SameEntries
  <2>3. Greatest(D, ClosedBelow(T))
    BY <2>2, ZoneIsGreatest
  <2> QED
    BY <1>3, <1>5, <1>6, <2>3, GreatestIsOne
<1>10. ~dbm_haveIntersection(D, S) => R = Empty
  <2> SUFFICES ASSUME ~dbm_haveIntersection(D, S) PROVE R = Empty
    OBVIOUS
  <2>1. PICK i, j \in Clk : \/ dbm_negRaw(D[i][j]) >= S[j][i]
                            \/ dbm_negRaw(S[i][j]) >= D[j][i]
    <3>1. PICK i \in Clk \ {0} : \E j \in 0 .. i - 1 :
            \/ ~(dbm_negRaw(D[i][j]) < S[j][i])
            \/ ~(dbm_negRaw(S[i][j]) < D[j][i])
      BY DEF dbm_haveIntersection
    <3>2. PICK j \in 0 .. i - 1 :
            \/ ~(dbm_negRaw(D[i][j]) < S[j][i])
            \/ ~(dbm_negRaw(S[i][j]) < D[j][i])
      BY <3>1
    <3>3. i \in Clk /\ j \in Clk
      BY DimAssumption DEF Clk
    <3> QED
      BY <1>4, <3>2, <3>3 DEF dbm_negRaw
  <2>2. /\ T[i][j] \in Int /\ T[j][i] \in Int
        /\ T[i][j] <= D[i][j] /\ T[i][j] <= S[i][j] /\ T[j][i] <= D[j][i] /\ T[j][i] <= S[j][i]
    BY <1>3, <1>4
  <2>3. TooTight(T, i, j)
    BY <1>4, <2>1, <2>2 DEF TooTight, dbm_negRaw
  <2>4. ClosedBelow(T) = {}
    BY <1>3, <2>3, TooTightHasNone
  <2> QED
    BY <1>5, <2>4 DEF Greatest
<1>11. relation = "different" /\ R # Empty => R # D
  <2> SUFFICES ASSUME relation = "different", R # Empty, R = D PROVE FALSE
    OBVIOUS
  <2>1. NoLooser(D, T)
    BY <1>5 DEF Greatest, ClosedBelow
  <2>2. dbm_isSubsetEq(D, S)
    BY <1>3, <1>4, <2>1 DEF NoLooser, dbm_isSubsetEq
  <2> QED
    BY <2>2 DEF dbm_relation
<1>12. CASE relation = "different"
  <2>1. ptr_intersection(D, S) = IF ~dbm_haveIntersection(D, S) THEN Gone ELSE CopiedOrGone(R)
    BY <1>12 DEF ptr_intersection, R
  <2> QED
    BY <1>1, <1>10, <1>11, <1>12, <2>1, KeptOrCopied DEF CopiedOrGone, R
<1>13. CASE relation = "superset"
  <2>1. D # S /\ dbm_isSubsetEq(S, D)
    BY <1>13 DEF dbm_relation
  <2>2. ptr_intersection(D, S) = Copied(S)
    BY <1>13 DEF ptr_intersection
  <2> QED
    BY <1>1, <1>8, <2>1, <2>2, KeptOrCopied DEF R
<1>14. CASE relation = "subset" \/ relation = "equal"
  <2>1. D = S \/ dbm_isSubsetEq(D, S)
    BY <1>14 DEF dbm_relation
  <2>2. dbm_isSubsetEq(D, D)
    BY <1>4 DEF dbm_isSubsetEq
  <2>3. ptr_intersection(D, S) = Kept(D)
    BY <1>14 DEF ptr_intersection
  <2> QED
    BY <1>1, <1>9, <2>1, <2>2, <2>3, KeptOrCopied DEF R
<1> QED
  BY <1>12, <1>13, <1>14 DEF dbm_relation

\* The closed matrices of a zone that obey the constraints.
ClosedObeying(D, cs) ==
  {F \in WideMatrix : Closed(F) /\ NoLooser(F, D) /\ Obeys(F, cs, Len(cs))}

\* dbm_constrainN leaves the greatest of them.
LEMMA ConstrainNGreatest ==
  ASSUME NEW D, NEW B \in Nat, IsZone(D, B), (dim + 2) * B <= dbm_LE_OVERFLOW,
         NEW cs, Len(cs) \in Nat, \A n \in 1 .. Len(cs) : IsConstraint(cs[n], B)
  PROVE  Greatest(dbm_constrainN(D, cs), ClosedObeying(D, cs))
<1> DEFINE E == dbm_constrainN(D, cs)
<1>1. PICK T :
        /\ (E = Empty /\ T = Empty) \/ ClosedSomehow(E, T, D, B)
        /\ \A F \in WideMatrix :
             Closed(F) => (NoLooser(F, T) <=> NoLooser(F, D) /\ Obeys(F, cs, Len(cs)))
  BY ConstrainWays
<1> HIDE DEF E
<1>2. ClosedBelow(T) = ClosedObeying(D, cs)
  BY <1>1 DEF ClosedBelow, ClosedObeying
<1>3. CASE E = Empty /\ T = Empty
  <2>1. 0 \in Clk /\ Empty[0][0] = -1
    BY DimAssumption DEF Clk, Empty
  <2>2. ~(dbm_LE_ZERO <= -1)
    BY DEF dbm_LE_ZERO
  <2>3. \A F \in WideMatrix : ~(Closed(F) /\ NoLooser(F, Empty))
    BY <2>1, <2>2 DEF Closed, ZeroDiagonal, NoLooser
  <2> QED
    BY <1>2, <1>3, <2>3 DEF Greatest, ClosedBelow, E
<1>4. CASE ClosedSomehow(E, T, D, B)
  <2>1. Greatest(E, ClosedBelow(T))
    BY <1>4, SomehowIsGreatest
  <2> QED
    BY <1>2, <2>1 DEF E
<1> QED
  BY <1>1, <1>3, <1>4

\* One constraint of ptr_constrainN, tested already.
Written(E, c) == [E EXCEPT ![c.i][c.j] = RawMin(@, c.value)]

\* The entries after that.
LEMMA WrittenEntries ==
  ASSUME NEW E \in WideMatrix, NEW c, c.i \in Clk, c.j \in Clk, c.value \in Int
  PROVE  /\ Written(E, c) \in WideMatrix
         /\ \A a, b \in Clk : Written(E, c)[a][b] = IF a = c.i /\ b = c.j
                                                    THEN RawMin(E[a][b], c.value) ELSE E[a][b]
<1> DEFINE F == Written(E, c)
           x == RawMin(E[c.i][c.j], c.value)
<1>1. Shaped(E)
  BY DEF WideMatrix, Shaped
<1>2. Changed(F, E, c.i, c.j, x)
  BY DEF Changed, Written
<1> HIDE DEF F, x
<1>3. Shaped(F) /\ \A a, b \in Clk : F[a][b] = IF a = c.i /\ b = c.j THEN x ELSE E[a][b]
  BY <1>1, <1>2, ChangedEntry
<1>4. x \in Int /\ x <= dbm_LS_INFINITY
  BY WideEntry, Infinity DEF x, RawMin
<1>5. \A a, b \in Clk : F[a][b] \in Int /\ F[a][b] <= dbm_LS_INFINITY
  BY <1>3, <1>4, WideEntry
<1>6. F \in WideMatrix
  BY <1>3, <1>5, EntriesType DEF Shaped
<1> QED
  BY <1>3, <1>6 DEF F, x

\* The constraints that are not satisfied by the whole zone.
Good(D, cs) == {k \in DOMAIN cs : D[cs[k].i][cs[k].j] > cs[k].value}

\* The matrices after each constraint, when those in good are written.
IsWriting(f, D, cs, good) ==
  f = [n \in 0 .. Len(cs) |->
         IF n = 0 THEN D ELSE IF n \in good THEN Written(f[n - 1], cs[n]) ELSE f[n - 1]]

\* There are such matrices.
LEMMA WritingRuns ==
  ASSUME NEW D \in WideMatrix, NEW B \in Nat, NEW cs, Len(cs) \in Nat, NEW good,
         \A n \in 1 .. Len(cs) : IsConstraint(cs[n], B)
  PROVE  \E f : IsWriting(f, D, cs, good)
<1> DEFINE len == Len(cs)
           step == [p \in Nat \X WideMatrix |->
                      IF p[1] \in 1 .. len /\ p[1] \in good THEN Written(p[2], cs[p[1]])
                      ELSE p[2]]
<1>1. step \in [Nat \X WideMatrix -> WideMatrix]
  <2>1. ASSUME NEW n \in 1 .. len, NEW E \in WideMatrix PROVE Written(E, cs[n]) \in WideMatrix
    BY WrittenEntries DEF IsConstraint
  <2> QED
    BY <2>1
<1>2. \A n \in 1 .. len, E \in WideMatrix :
        step[<<n, E>>] = IF n \in good THEN Written(E, cs[n]) ELSE E
  OBVIOUS
<1> HIDE DEF step
<1>3. PICK f \in [0 .. len -> WideMatrix] : Runs(f, len, D, step)
  <2>1. len \in Nat
    OBVIOUS
  <2> HIDE DEF len
  <2> QED
    BY <1>1, <2>1, Recursion
<1>4. ASSUME NEW n \in 0 .. len, n # 0
      PROVE  step[<<n, f[n - 1]>>] = IF n \in good THEN Written(f[n - 1], cs[n]) ELSE f[n - 1]
  <2>1. n \in 1 .. len /\ n - 1 \in 0 .. len
    BY <1>4
  <2> QED
    BY <1>2, <2>1
<1>5. [n \in 0 .. len |-> IF n = 0 THEN D ELSE step[<<n, f[n - 1]>>]]
        = [n \in 0 .. len |-> IF n = 0 THEN D
             ELSE IF n \in good THEN Written(f[n - 1], cs[n]) ELSE f[n - 1]]
  BY <1>4
<1> QED
  BY <1>3, <1>5 DEF Runs, IsWriting

\* The last of them has the smaller bounds: the closed matrices below it are those of the
\* zone that obey the constraints.
LEMMA WritingEnds ==
  ASSUME NEW D, NEW B \in Nat, IsZone(D, B), NEW cs, Len(cs) \in Nat,
         DOMAIN cs = 1 .. Len(cs), \A n \in 1 .. Len(cs) : IsConstraint(cs[n], B),
         NEW written \in [0 .. Len(cs) -> WideMatrix], written[0] = D,
         \A n \in 1 .. Len(cs) : written[n] = IF n \in Good(D, cs)
                                              THEN Written(written[n - 1], cs[n])
                                              ELSE written[n - 1]
  PROVE  LET T == written[Len(cs)]
         IN  /\ Tighter(T, D, UNION {{cs[k].i, cs[k].j} : k \in Good(D, cs)}) /\ Bounded(T, B)
             /\ \A F \in WideMatrix :
                  NoLooser(F, T) <=> NoLooser(F, D) /\ Obeys(F, cs, Len(cs))
<1> DEFINE len == Len(cs)
           good == Good(D, cs)
           touched == UNION {{cs[k].i, cs[k].j} : k \in good}
           Holds(T, n) ==
             /\ Tighter(T, D, touched) /\ Bounded(T, B)
             /\ \A F \in WideMatrix : NoLooser(F, T) <=> NoLooser(F, D) /\ Obeys(F, cs, n)
           S == {n \in Nat : n <= len => Holds(written[n], n)}
<1>1. D \in WideMatrix /\ ZeroDiagonal(D) /\ Bounded(D, B)
  BY DEF IsZone, Closed
<1>2. \A i, j \in Clk : D[i][j] \in Int
  BY <1>1, WideEntry
<1>3. \A k \in good : cs[k].i \in touched /\ cs[k].j \in touched
  OBVIOUS
<1>4. \A k \in 1 .. len : k \notin good => D[cs[k].i][cs[k].j] <= cs[k].value
  BY <1>2 DEF Good, IsConstraint
<1> HIDE DEF touched, good
<1>5. 0 \in S
  <2>1. NoLooser(D, D)
    BY <1>2 DEF NoLooser
  <2>2. Tighter(D, D, touched)
    BY <1>1, <2>1 DEF Tighter
  <2>3. \A F \in WideMatrix : Obeys(F, cs, 0)
    BY DEF Obeys
  <2> QED
    BY <1>1, <2>2, <2>3
<1>6. ASSUME NEW m \in Nat, m \in S PROVE m + 1 \in S
  <2> DEFINE n == m + 1
             c == cs[n]
             E == written[m]
             T == written[n]
  <2> SUFFICES ASSUME n <= len PROVE Holds(T, n)
    OBVIOUS
  <2>1. /\ n \in 1 .. len /\ n - 1 = m /\ m \in 0 .. len /\ m <= len
        /\ T = IF n \in good THEN Written(E, c) ELSE E
        /\ T \in WideMatrix /\ E \in WideMatrix /\ IsConstraint(c, B) /\ Holds(E, m)
    BY <1>6 DEF good
  <2>2. \A F : Obeys(F, cs, n) <=> Obeys(F, cs, m) /\ F[c.i][c.j] <= c.value
    <3>1. \A k : k \in 1 .. n <=> k \in 1 .. m \/ k = n
      BY <2>1
    <3> QED
      BY <3>1 DEF Obeys
  <2>3. n \in good => c.i \in touched /\ c.j \in touched
    BY <1>3
  <2>4. n \notin good => D[c.i][c.j] <= c.value
    BY <1>4, <2>1
  <2> HIDE DEF T, E, c, n
  <2>5. /\ c.i \in Clk /\ c.j \in Clk /\ c.i # c.j
        /\ c.value \in Int /\ -B < c.value /\ c.value < B
    BY <2>1 DEF IsConstraint
  <2>6. CASE n \notin good
    <3>1. \A F \in WideMatrix : NoLooser(F, D) => F[c.i][c.j] <= c.value
      <4>1. ASSUME NEW F \in WideMatrix, NoLooser(F, D) PROVE F[c.i][c.j] <= c.value
        <5>1. F[c.i][c.j] \in Int /\ F[c.i][c.j] <= D[c.i][c.j]
          BY <2>5, <4>1, WideEntry DEF NoLooser
        <5> QED
          BY <1>2, <2>4, <2>5, <2>6, <5>1
      <4> QED
        BY <4>1
    <3> QED
      BY <2>1, <2>2, <2>6, <3>1
  <2>7. CASE n \in good
    <3>1. \A a, b \in Clk : T[a][b] = IF a = c.i /\ b = c.j THEN RawMin(E[a][b], c.value)
                                      ELSE E[a][b]
      BY <2>1, <2>5, <2>7, WrittenEntries
    <3>2. \A a, b \in Clk : E[a][b] \in Int /\ T[a][b] \in Int
      BY <2>1, WideEntry
    <3>3. \A a, b \in Clk : T[a][b] <= E[a][b] /\ (T[a][b] = E[a][b] \/ T[a][b] = c.value)
      BY <2>5, <3>1, <3>2 DEF RawMin
    <3>4. ZeroDiagonal(T)
      BY <2>1, <2>5, <3>1 DEF ZeroDiagonal, Tighter
    <3>5. NoLooser(T, D)
      <4>1. \A a, b \in Clk : E[a][b] <= D[a][b]
        BY <2>1 DEF Tighter, NoLooser
      <4> QED
        BY <1>2, <3>2, <3>3, <4>1 DEF NoLooser
    <3>6. \A a, b \in Clk : a \notin touched \/ b \notin touched => T[a][b] = D[a][b]
      BY <2>1, <2>3, <2>7, <3>1 DEF Tighter
    <3>7. Bounded(T, B)
      BY <2>1, <2>5, <3>3 DEF Bounded
    <3>8. ASSUME NEW F \in WideMatrix
          PROVE  NoLooser(F, T) <=> NoLooser(F, E) /\ F[c.i][c.j] <= c.value
      <4>1. \A a, b \in Clk : F[a][b] \in Int
        BY WideEntry
      <4>2. \A a, b \in Clk : F[a][b] <= T[a][b]
                                <=> /\ F[a][b] <= E[a][b]
                                    /\ a = c.i /\ b = c.j => F[a][b] <= c.value
        BY <2>5, <3>1, <3>2, <4>1 DEF RawMin
      <4> QED
        BY <2>5, <4>2 DEF NoLooser
    <3>9. \A F \in WideMatrix : NoLooser(F, T) <=> NoLooser(F, D) /\ Obeys(F, cs, n)
      BY <2>1, <2>2, <3>8
    <3>10. Tighter(T, D, touched)
      BY <2>1, <3>4, <3>5, <3>6 DEF Tighter
    <3> QED
      BY <3>7, <3>9, <3>10
  <2> QED
    BY <2>6, <2>7
<1> HIDE DEF S
<1>7. \A n \in Nat : n \in S
  BY <1>5, <1>6, Induction
<1>8. len \in S
  BY <1>7
<1>9. len \in Nat /\ len <= len
  OBVIOUS
<1>10. Holds(written[len], len)
  <2> HIDE DEF Holds, len
  <2> QED
    BY <1>8, <1>9 DEF S
<1> QED
  BY <1>10 DEF touched, good

\* A zone with one tightened bound, before it is closed.
LEMMA OneBoundWritten ==
  ASSUME NEW D \in WideMatrix, NEW i \in Clk, NEW j \in Clk, i # j, NEW v \in Int,
         v < D[i][j], NEW B \in Nat, Bounded(D, B), -B < v, v < B
  PROVE  LET V == [D EXCEPT ![i][j] = v]
         IN  /\ V \in WideMatrix /\ Bounded(V, B) /\ V[i][j] = v /\ V[j][i] = D[j][i]
             /\ \A F \in WideMatrix : NoLooser(F, V) <=> NoLooser(F, D) /\ F[i][j] <= v
<1> DEFINE V == [D EXCEPT ![i][j] = v]
<1>1. Changed(V, D, i, j, v) /\ Shaped(D)
  BY DEF Changed, WideMatrix, Shaped
<1> HIDE DEF V
<1>2. Shaped(V) /\ \A a, b \in Clk : V[a][b] = IF a = i /\ b = j THEN v ELSE D[a][b]
  BY <1>1, ChangedEntry
<1>3. \A a, b \in Clk : D[a][b] \in Int /\ D[a][b] <= dbm_LS_INFINITY
  BY WideEntry
<1>4. \A a, b \in Clk : V[a][b] \in Int /\ V[a][b] <= D[a][b]
  BY <1>2, <1>3
<1>5. V \in WideMatrix
  <2>1. \A a, b \in Clk : V[a][b] \in Int /\ V[a][b] <= dbm_LS_INFINITY
    BY <1>3, <1>4, Infinity
  <2> QED
    BY <1>2, <2>1, EntriesType DEF Shaped
<1>6. Bounded(V, B)
  BY <1>2 DEF Bounded
<1>7. ASSUME NEW F \in WideMatrix
      PROVE  NoLooser(F, V) <=> NoLooser(F, D) /\ F[i][j] <= v
  <2>1. \A a, b \in Clk : F[a][b] \in Int
    BY WideEntry
  <2>2. \A a, b \in Clk : F[a][b] <= V[a][b]
                            <=> F[a][b] <= D[a][b] /\ (a = i /\ b = j => F[a][b] <= v)
    BY <1>2, <1>3, <2>1
  <2> QED
    BY <2>2 DEF NoLooser
<1> QED
  BY <1>2, <1>5, <1>6, <1>7 DEF V

\* ptr_constrainN writes the bounds that tighten the zone before it closes the matrix, and
\* tests none of them against another one.
LEMMA ConstrainNFaithful ==
  ASSUME NEW D, NEW B \in Nat, IsZone(D, B), (dim + 2) * B <= dbm_LE_OVERFLOW,
         NEW cs, Len(cs) \in Nat, DOMAIN cs = 1 .. Len(cs),
         \A n \in 1 .. Len(cs) : IsConstraint(cs[n], B)
  PROVE  Faithful(ptr_constrainN(D, cs), dbm_constrainN(D, cs), D)
<1> DEFINE R == dbm_constrainN(D, cs)
           len == Len(cs)
           good == Good(D, cs)
           one == CHOOSE k \in good : TRUE
           written == CHOOSE f : IsWriting(f, D, cs, good)
           T == written[len]
           touched == UNION {{cs[k].i, cs[k].j} : k \in good}
<1>1. /\ D \in WideMatrix /\ D # Empty /\ Bounded(D, B) /\ len \in Nat
      /\ 3 * B <= dbm_LE_OVERFLOW /\ (dim + 1) * B <= dbm_LE_OVERFLOW /\ B <= dbm_LE_OVERFLOW
  BY EmptyIsNegative, RoomWithin, Infinity DEF IsZone, Closed
<1>2. \A k \in good : /\ k \in 1 .. len /\ cs[k].i \in Clk /\ cs[k].j \in Clk
                      /\ cs[k].i # cs[k].j /\ cs[k].value \in Int /\ -B < cs[k].value
                      /\ cs[k].value < B /\ cs[k].value < D[cs[k].i][cs[k].j]
                      /\ D[cs[k].i][cs[k].j] \in Int /\ D[cs[k].j][cs[k].i] \in Int
  BY <1>1, WideEntry DEF Good, IsConstraint
<1>3. \A k \in 1 .. len : k \notin good => D[cs[k].i][cs[k].j] <= cs[k].value
  BY <1>1, WideEntry DEF Good, IsConstraint
<1>4. Greatest(R, ClosedObeying(D, cs)) /\ ClosedObeying(D, cs) \in SUBSET WideMatrix
  BY ConstrainNGreatest DEF ClosedObeying
<1>5. IsWriting(written, D, cs, good)
  <2>1. \E f : IsWriting(f, D, cs, good)
    BY <1>1, WritingRuns
  <2> HIDE DEF good
  <2> QED
    BY <2>1
<1>6. ptr_constrainN(D, cs) =
        IF \E k \in good : dbm_negRaw(cs[k].value) >= D[cs[k].j][cs[k].i] THEN Gone
        ELSE IF good = {} THEN Kept(D)
        ELSE IF Cardinality(good) = 1 THEN Copied(dbm_closeij(T, cs[one].i, cs[one].j))
        ELSE CopiedOrGone(CloseVia(T, touched))
  BY DEF ptr_constrainN, Good, Written, dbm_closex, IsWriting
<1> HIDE DEF written, good
<1>7. written[0] = D /\ \A n \in 1 .. len : written[n] = IF n \in good
                                                           THEN Written(written[n - 1], cs[n])
                                                           ELSE written[n - 1]
  <2>1. 0 \in 0 .. len /\ \A n \in 1 .. len : n \in 0 .. len /\ n # 0
    BY <1>1
  <2> QED
    BY <1>5, <2>1 DEF IsWriting
<1>8. written \in [0 .. len -> WideMatrix]
  <2> DEFINE S == {n \in Nat : n <= len => written[n] \in WideMatrix}
  <2>1. 0 \in S
    BY <1>1, <1>7
  <2>2. ASSUME NEW m \in Nat, m \in S PROVE m + 1 \in S
    <3> DEFINE n == m + 1
    <3> SUFFICES ASSUME n <= len PROVE written[n] \in WideMatrix
      OBVIOUS
    <3>1. n \in 1 .. len /\ n - 1 = m /\ written[m] \in WideMatrix
      BY <1>1, <2>2
    <3> HIDE DEF n, len
    <3>2. n \in good => Written(written[m], cs[n]) \in WideMatrix
      BY <1>2, <3>1, WrittenEntries
    <3> QED
      BY <1>7, <3>1, <3>2
  <2> HIDE DEF S
  <2>3. \A n \in Nat : n \in S
    BY <2>1, <2>2, Induction
  <2>4. \A n \in 0 .. len : written[n] \in WideMatrix
    BY <1>1, <2>3 DEF S
  <2>5. written = [n \in 0 .. len |-> written[n]]
    BY <1>5 DEF IsWriting
  <2> QED
    BY <2>4, <2>5
<1>9. /\ Tighter(T, D, touched) /\ Bounded(T, B) /\ T \in WideMatrix
      /\ \A F \in WideMatrix : NoLooser(F, T) <=> NoLooser(F, D) /\ Obeys(F, cs, len)
  <2> HIDE DEF T
  <2>1. /\ Tighter(T, D, touched) /\ Bounded(T, B)
        /\ \A F \in WideMatrix : NoLooser(F, T) <=> NoLooser(F, D) /\ Obeys(F, cs, len)
    BY <1>7, <1>8, WritingEnds DEF T, good
  <2> QED
    BY <2>1 DEF Tighter
<1> HIDE DEF T, R
<1>10. ClosedBelow(T) = ClosedObeying(D, cs)
  BY <1>9 DEF ClosedBelow, ClosedObeying
<1>11. \A F \in ClosedObeying(D, cs), k \in good :
         /\ F[cs[k].i][cs[k].j] <= cs[k].value /\ F[cs[k].i][cs[k].j] \in Int
         /\ F[cs[k].j][cs[k].i] <= D[cs[k].j][cs[k].i] /\ F[cs[k].j][cs[k].i] \in Int
  BY <1>2, WideEntry DEF ClosedObeying, Obeys, NoLooser
<1>12. good # {} /\ R # Empty => R # D
  <2> SUFFICES ASSUME NEW k \in good, R # Empty, R = D PROVE FALSE
    OBVIOUS
  <2>1. R \in ClosedObeying(D, cs)
    BY <1>4 DEF Greatest
  <2> QED
    BY <1>2, <1>11, <2>1
<1>13. CASE \E k \in good : dbm_negRaw(cs[k].value) >= D[cs[k].j][cs[k].i]
  <2>1. PICK k \in good : dbm_negRaw(cs[k].value) >= D[cs[k].j][cs[k].i]
    BY <1>13
  <2>2. PICK i \in Clk, j \in Clk, v \in Int : cs[k].i = i /\ cs[k].j = j /\ cs[k].value = v
    BY <1>2
  <2> DEFINE V == [D EXCEPT ![i][j] = v]
  <2>3. /\ i # j /\ -B < v /\ v < B /\ v < D[i][j] /\ D[i][j] \in Int /\ D[j][i] \in Int
        /\ 1 - v >= D[j][i]
    BY <1>2, <2>1, <2>2 DEF dbm_negRaw
  <2>5. /\ V \in WideMatrix /\ Bounded(V, B) /\ V[i][j] = v /\ V[j][i] = D[j][i]
        /\ \A F \in WideMatrix : NoLooser(F, V) <=> NoLooser(F, D) /\ F[i][j] <= v
    BY <1>1, <2>3, OneBoundWritten
  <2> HIDE DEF V
  <2>9. TooTight(V, i, j)
    BY <2>3, <2>5 DEF TooTight, dbm_negRaw
  <2>10. ClosedBelow(V) = {}
    BY <1>1, <2>5, <2>9, TooTightHasNone
  <2>11. ClosedObeying(D, cs) \in SUBSET ClosedBelow(V)
    <3>1. ASSUME NEW F \in ClosedObeying(D, cs) PROVE NoLooser(F, V)
      <4>1. F[i][j] <= v
        BY <1>11, <2>1, <2>2
      <4>2. F \in WideMatrix /\ NoLooser(F, D)
        BY DEF ClosedObeying
      <4> QED
        BY <2>5, <4>1, <4>2
    <3> QED
      BY <3>1 DEF ClosedObeying, ClosedBelow
  <2>12. R = Empty
    BY <1>4, <2>10, <2>11 DEF Greatest
  <2> QED
    BY <1>1, <1>6, <1>13, <2>12, KeptOrCopied DEF R
<1>14. CASE ~(\E k \in good : dbm_negRaw(cs[k].value) >= D[cs[k].j][cs[k].i]) /\ good = {}
  <2>1. ASSUME NEW F \in WideMatrix, NoLooser(F, D) PROVE Obeys(F, cs, len)
    <3>1. ASSUME NEW k \in 1 .. len PROVE F[cs[k].i][cs[k].j] <= cs[k].value
      <4>1. /\ cs[k].i \in Clk /\ cs[k].j \in Clk /\ cs[k].value \in Int
            /\ D[cs[k].i][cs[k].j] <= cs[k].value
        BY <1>3, <1>14 DEF IsConstraint
      <4>2. /\ F[cs[k].i][cs[k].j] <= D[cs[k].i][cs[k].j] /\ F[cs[k].i][cs[k].j] \in Int
            /\ D[cs[k].i][cs[k].j] \in Int
        BY <1>1, <2>1, <4>1, WideEntry DEF NoLooser
      <4> QED
        BY <4>1, <4>2
    <3> QED
      BY <3>1 DEF Obeys
  <2>2. ClosedObeying(D, cs) = ClosedBelow(D)
    BY <2>1 DEF ClosedObeying, ClosedBelow
  <2>3. R = D
    BY <1>4, <2>2, ZoneIsGreatest, GreatestIsOne
  <2> QED
    BY <1>1, <1>6, <1>14, <2>3, KeptOrCopied DEF R
<1>15. CASE /\ ~(\E k \in good : dbm_negRaw(cs[k].value) >= D[cs[k].j][cs[k].i])
            /\ good # {} /\ Cardinality(good) = 1
  <2>1. IsFiniteSet(good)
    <3>1. good \in SUBSET (1 .. len)
      BY <1>2
    <3>2. len \in Int /\ 1 \in Int
      BY <1>1
    <3> HIDE DEF len
    <3>3. IsFiniteSet(1 .. len)
      BY <3>2, FS_Interval
    <3> QED
      BY <3>1, <3>3, FS_Subset
  <2>2. one \in good /\ good = {one}
    <3>1. \E q : good = {q}
      BY <1>15, <2>1, FS_Singleton
    <3> QED
      BY <3>1
  <2> HIDE DEF one
  <2>3. PICK i \in Clk, j \in Clk, v \in Int :
          cs[one].i = i /\ cs[one].j = j /\ cs[one].value = v
    BY <1>2, <2>2
  <2> DEFINE V == [D EXCEPT ![i][j] = v]
  <2>4. /\ i # j /\ -B < v /\ v < B /\ v < D[i][j] /\ D[i][j] \in Int /\ D[j][i] \in Int
        /\ ~(1 - v >= D[j][i])
    BY <1>2, <1>15, <2>2, <2>3 DEF dbm_negRaw
  <2>6. /\ V \in WideMatrix /\ Bounded(V, B) /\ V[i][j] = v /\ V[j][i] = D[j][i]
        /\ \A F \in WideMatrix : NoLooser(F, V) <=> NoLooser(F, D) /\ F[i][j] <= v
    BY <1>1, <2>4, OneBoundWritten
  <2>7. ~TooTight(V, i, j)
    BY <2>4, <2>6 DEF TooTight, dbm_negRaw
  <2>8. Greatest(dbm_closeij(V, i, j), ClosedBelow(V)) /\ dbm_closeij(V, i, j) # Empty
        /\ dbm_closeij(V, i, j) # D
    BY <1>1, <2>4, <2>7, CloseOneIsGreatest, OneBoundChanges
  <2> HIDE DEF V
  <2>9. \A a, b \in Clk : D[a][b] \in Int /\ D[a][b] <= dbm_LS_INFINITY
    BY <1>1, WideEntry
  <2>10. V \in WideMatrix
    BY <2>6
  <2>11. ASSUME NEW F \in WideMatrix
         PROVE  NoLooser(F, V) <=> NoLooser(F, D) /\ Obeys(F, cs, len)
    <3>1. \A a, b \in Clk : F[a][b] \in Int
      BY WideEntry
    <3>2. NoLooser(F, V) <=> NoLooser(F, D) /\ F[i][j] <= v
      BY <2>6
    <3>3. ASSUME NoLooser(F, D), F[i][j] <= v PROVE Obeys(F, cs, len)
      <4>1. ASSUME NEW k \in 1 .. len PROVE F[cs[k].i][cs[k].j] <= cs[k].value
        <5>1. CASE k = one
          BY <2>3, <3>3, <5>1
        <5>2. CASE k # one
          <6>1. /\ cs[k].i \in Clk /\ cs[k].j \in Clk /\ cs[k].value \in Int
                /\ D[cs[k].i][cs[k].j] <= cs[k].value
            BY <1>3, <2>2, <5>2 DEF IsConstraint
          <6>2. F[cs[k].i][cs[k].j] <= D[cs[k].i][cs[k].j]
            BY <3>3, <6>1 DEF NoLooser
          <6> QED
            BY <2>9, <3>1, <6>1, <6>2
        <5> QED
          BY <5>1, <5>2
      <4> QED
        BY <4>1 DEF Obeys
    <3>4. Obeys(F, cs, len) => F[i][j] <= v
      BY <1>2, <2>2, <2>3 DEF Obeys
    <3> QED
      BY <3>2, <3>3, <3>4
  <2>12. T = V
    <3>1. NoLooser(T, T) /\ NoLooser(V, V)
      BY <1>9, <2>10, WideEntry DEF NoLooser
    <3>2. NoLooser(T, V) /\ NoLooser(V, T)
      BY <1>9, <2>10, <2>11, <3>1
    <3> QED
      BY <1>9, <2>10, <3>2, NoLooserBoth
  <2>13. R = dbm_closeij(V, i, j)
    BY <1>4, <1>10, <2>8, <2>12, GreatestIsOne
  <2>14. ptr_constrainN(D, cs) = Copied(dbm_closeij(V, i, j))
    BY <1>6, <1>15, <2>3, <2>12
  <2> QED
    BY <2>8, <2>13, <2>14, KeptOrCopied DEF R
<1>16. CASE /\ ~(\E k \in good : dbm_negRaw(cs[k].value) >= D[cs[k].j][cs[k].i])
            /\ good # {} /\ Cardinality(good) # 1
  <2>1. touched \in SUBSET Clk
    BY <1>2
  <2> HIDE DEF touched
  <2>2. Greatest(CloseVia(T, touched), ClosedBelow(T))
    BY <1>1, <1>9, <2>1, CloseIsGreatest
  <2>3. R = CloseVia(T, touched)
    BY <1>4, <1>10, <2>2, GreatestIsOne
  <2>4. ptr_constrainN(D, cs) = CopiedOrGone(R)
    BY <1>6, <1>16, <2>3
  <2> QED
    BY <1>1, <1>12, <1>16, <2>4, KeptOrCopied DEF CopiedOrGone, R
<1> QED
  BY <1>13, <1>14, <1>15, <1>16

-----------------------------------------------------------------------------
(* The constraints of intersectionAxis.                                      *)

\* The index of a cell in a table of h rows of width w, and the cell of an index.
LEMMA CellIndex ==
  ASSUME NEW w \in Nat, NEW h \in Nat
  PROVE  /\ \A r \in 0 .. h - 1, q \in 0 .. w - 1 :
              /\ r * w + q \in 0 .. h * w - 1
              /\ (r * w + q) \div w = r /\ (r * w + q) % w = q
         /\ \A n \in 0 .. h * w - 1 :
              n \div w \in 0 .. h - 1 /\ n % w \in 0 .. w - 1
<1>1. ASSUME NEW r \in 0 .. h - 1, NEW q \in 0 .. w - 1
      PROVE  /\ r * w + q \in 0 .. h * w - 1
             /\ (r * w + q) \div w = r /\ (r * w + q) % w = q
  <2>1. r \in Int /\ q \in Int /\ 0 <= r /\ r <= h - 1 /\ 0 <= q /\ q <= w - 1
        /\ r * w \in Int /\ w > 0
    OBVIOUS
  <2>2. 0 <= r * w /\ r * w <= (h - 1) * w /\ (h - 1) * w = h * w - w
    BY <2>1
  <2>3. r * w + q \in 0 .. h * w - 1
    BY <2>1, <2>2
  <2>4. (r * w + q) \div w = r /\ (r * w + q) % w = q
    BY <2>1
  <2> QED
    BY <2>3, <2>4
<1>2. ASSUME NEW n \in 0 .. h * w - 1
      PROVE  n \div w \in 0 .. h - 1 /\ n % w \in 0 .. w - 1
  <2>1. w > 0 /\ h * w \in Int
    <3>1. w = 0 => h * w = 0
      OBVIOUS
    <3> QED
      BY <3>1
  <2>2. n \in Int /\ n \div w \in Int /\ n % w \in 0 .. w - 1
        /\ n = w * (n \div w) + (n % w)
    BY <2>1
  <2>3. 0 <= n \div w /\ n \div w <= h - 1
    BY <2>1, <2>2
  <2> QED
    BY <2>2, <2>3
<1> QED
  BY <1>1, <1>2

\* The n-th clock that is not c, and the place of a clock among those that are not c.
Skip(c, n) == IF n < c THEN n ELSE n + 1
Place(c, k) == IF k < c THEN k ELSE k - 1

\* The sequence of the constraints.
LEMMA AxisCells ==
  ASSUME NEW x \in Clocks
  PROVE  LET cs == axis(x)
             h == dim - 1
             w == dim - 2
         IN  /\ w \in Nat /\ h \in Nat /\ h * w \in Nat
             /\ DOMAIN cs = 1 .. h * w /\ Len(cs) = h * w
             /\ \A n \in 1 .. h * w :
                  cs[n] = [i |-> Skip(x, (n - 1) \div w),
                           j |-> Skip(x, Skip((n - 1) \div w, (n - 1) % w)),
                           value |-> dbm_LE_ZERO]
<1> DEFINE h == dim - 1
           w == dim - 2
           cs == axis(x)
<1>1. dim \in Nat /\ x \in 0 .. dim - 1 /\ x # 0
  BY DimAssumption DEF Clocks, Clk
<1>2. w \in Nat /\ h \in Nat /\ h * w \in Nat
  BY <1>1
<1>3. cs = [n \in 1 .. h * w |->
             [i |-> Skip(x, (n - 1) \div w),
              j |-> Skip(x, Skip((n - 1) \div w, (n - 1) % w)),
              value |-> dbm_LE_ZERO]]
  BY DEF axis, Skip
<1> HIDE DEF cs, h, w
<1>4. DOMAIN cs = 1 .. h * w
  BY <1>3
<1>5. Len(cs) = h * w
  <2> DEFINE m == h * w
  <2>1. m \in Nat /\ DOMAIN cs = 1 .. m
    BY <1>2, <1>4
  <2>2. cs = [n \in 1 .. m |-> cs[n]]
    BY <1>3
  <2> HIDE DEF m
  <2>3. Len([n \in 1 .. m |-> cs[n]]) = m
    BY <2>1
  <2> QED
    BY <2>2, <2>3 DEF m
<1> QED
  BY <1>2, <1>3, <1>4, <1>5 DEF cs, h, w

\* They are one for each pair of clocks that are not x.
LEMMA AxisPairs ==
  ASSUME NEW x \in Clocks
  PROVE  LET cs == axis(x)
         IN  /\ Len(cs) \in Nat /\ DOMAIN cs = 1 .. Len(cs)
             /\ \A n \in 1 .. Len(cs) :
                  /\ cs[n].i \in Clk \ {x} /\ cs[n].j \in Clk \ {x} /\ cs[n].i # cs[n].j
                  /\ cs[n].value = dbm_LE_ZERO
             /\ \A a, b \in Clk \ {x} : a # b =>
                  \E n \in 1 .. Len(cs) : cs[n].i = a /\ cs[n].j = b
<1> DEFINE h == dim - 1
           w == dim - 2
           cs == axis(x)
<1>1. /\ w \in Nat /\ h \in Nat /\ h * w \in Nat
      /\ DOMAIN cs = 1 .. h * w /\ Len(cs) = h * w
      /\ \A n \in 1 .. h * w :
           cs[n] = [i |-> Skip(x, (n - 1) \div w),
                    j |-> Skip(x, Skip((n - 1) \div w, (n - 1) % w)),
                    value |-> dbm_LE_ZERO]
  BY AxisCells
<1>2. h = w + 1 /\ Clk = 0 .. h /\ x \in 1 .. h
  BY <1>1, DimAssumption DEF Clk, Clocks
<1> HIDE DEF cs, h, w
<1>3. ASSUME NEW n \in 1 .. h * w
      PROVE  /\ cs[n].i \in Clk \ {x} /\ cs[n].j \in Clk \ {x} /\ cs[n].i # cs[n].j
             /\ cs[n].value = dbm_LE_ZERO
  <2> DEFINE r == (n - 1) \div w
             q == (n - 1) % w
  <2>1. r \in 0 .. h - 1 /\ q \in 0 .. w - 1
    <3>1. n - 1 \in 0 .. h * w - 1
      BY <1>1
    <3> QED
      BY <1>1, <3>1, CellIndex
  <2>2. cs[n] = [i |-> Skip(x, r), j |-> Skip(x, Skip(r, q)), value |-> dbm_LE_ZERO]
    BY <1>1
  <2> HIDE DEF r, q
  <2>3. Skip(r, q) \in 0 .. h - 1 /\ Skip(r, q) # r
    BY <1>1, <1>2, <2>1 DEF Skip
  <2>4. \A m \in 0 .. h - 1 : Skip(x, m) \in 0 .. h /\ Skip(x, m) # x
    BY <1>1, <1>2 DEF Skip
  <2>5. \A m, p \in 0 .. h - 1 : m # p => Skip(x, m) # Skip(x, p)
    BY <1>1, <1>2 DEF Skip
  <2> QED
    BY <1>2, <2>1, <2>2, <2>3, <2>4, <2>5
<1>4. ASSUME NEW a \in Clk \ {x}, NEW b \in Clk \ {x}, a # b
      PROVE  \E n \in 1 .. h * w : cs[n].i = a /\ cs[n].j = b
  <2> DEFINE r == Place(x, a)
             q == Place(r, Place(x, b))
             m == r * w + q
  <2>1. r \in 0 .. h - 1 /\ Place(x, b) \in 0 .. h - 1 /\ Place(x, b) # r
        /\ Skip(x, r) = a /\ Skip(x, Place(x, b)) = b
    BY <1>1, <1>2, <1>4, SMTT(30) DEF Skip, Place
  <2>2. q \in 0 .. w - 1 /\ Skip(r, q) = Place(x, b)
    BY <1>1, <1>2, <2>1, SMTT(30) DEF Skip, Place
  <2> HIDE DEF r, q
  <2>3. m \in 0 .. h * w - 1 /\ m \div w = r /\ m % w = q
    BY <1>1, <2>1, <2>2, CellIndex
  <2> HIDE DEF m
  <2>4. m + 1 \in 1 .. h * w /\ (m + 1) - 1 = m
    BY <1>1, <2>3
  <2>5. cs[m + 1] = [i |-> Skip(x, m \div w), j |-> Skip(x, Skip(m \div w, m % w)),
                     value |-> dbm_LE_ZERO]
    BY <1>1, <2>4
  <2> QED
    BY <2>1, <2>2, <2>3, <2>4, <2>5
<1> QED
  BY <1>1, <1>3, <1>4 DEF cs

\* The matrix of the axis of x: the other clocks are at most each other, and so at most 0.
AxisMatrix(x) ==
  [i \in Clk |-> [j \in Clk |->
     IF i = x /\ j # x THEN dbm_LS_INFINITY ELSE dbm_LE_ZERO]]

\* A closed matrix below a zone satisfies the constraints of the axis if it is below the
\* matrix of the axis.
LEMMA AxisBelow ==
  ASSUME NEW D, NEW B \in Nat, IsZone(D, B), dbm_LE_ZERO < B, NEW x \in Clocks,
         NEW F \in WideMatrix, Closed(F)
  PROVE  LET cs == axis(x)
         IN  NoLooser(F, D) /\ Obeys(F, cs, Len(cs))
               <=> NoLooser(F, Entrywise(RawMin, D, AxisMatrix(x)))
<1> DEFINE cs == axis(x)
           A == AxisMatrix(x)
           T == Entrywise(RawMin, D, A)
<1>1. /\ Len(cs) \in Nat /\ DOMAIN cs = 1 .. Len(cs)
      /\ \A n \in 1 .. Len(cs) :
           /\ cs[n].i \in Clk \ {x} /\ cs[n].j \in Clk \ {x} /\ cs[n].i # cs[n].j
           /\ cs[n].value = dbm_LE_ZERO
      /\ \A a, b \in Clk \ {x} : a # b =>
           \E n \in 1 .. Len(cs) : cs[n].i = a /\ cs[n].j = b
  BY AxisPairs
<1>2. \A i, j \in Clk : A[i][j] = IF i = x /\ j # x THEN dbm_LS_INFINITY ELSE dbm_LE_ZERO
  BY DEF AxisMatrix
<1>3. \A i, j \in Clk : T[i][j] = RawMin(D[i][j], A[i][j])
  BY DEF Entrywise
<1>4. /\ \A i, j \in Clk : D[i][j] \in Int /\ D[i][j] <= dbm_LS_INFINITY
      /\ \A j \in Clk : D[0][j] <= dbm_LE_ZERO
      /\ 0 \in Clk /\ x \in Clk /\ x # 0
  BY ZoneEntries DEF Clocks
<1>5. /\ \A i, j \in Clk : F[i][j] \in Int /\ F[i][j] <= dbm_LS_INFINITY
      /\ \A i \in Clk : F[i][i] = dbm_LE_ZERO
      /\ \A i, k, j \in Clk : F[i][k] # dbm_LS_INFINITY /\ F[k][j] # dbm_LS_INFINITY
           => F[i][j] <= dbm_addFiniteFinite(F[i][k], F[k][j])
  BY DEF WideMatrix, Closed, ZeroDiagonal, ShortcutVia
<1> HIDE DEF cs, A, T
<1>6. ASSUME NoLooser(F, D), Obeys(F, cs, Len(cs)) PROVE NoLooser(F, T)
  <2>1. \A i, j \in Clk : F[i][j] <= D[i][j]
    BY <1>6 DEF NoLooser
  <2>2. \A i, j \in Clk \ {x} : F[i][j] <= dbm_LE_ZERO
    <3>1. ASSUME NEW i \in Clk \ {x}, NEW j \in Clk \ {x}, i # j
          PROVE  F[i][j] <= dbm_LE_ZERO
      <4>1. PICK n \in 1 .. Len(cs) : cs[n].i = i /\ cs[n].j = j
        BY <1>1, <3>1
      <4>2. F[cs[n].i][cs[n].j] <= cs[n].value /\ cs[n].value = dbm_LE_ZERO
        BY <1>1, <1>6 DEF Obeys
      <4> QED
        BY <4>1, <4>2
    <3>2. \A i \in Clk : F[i][i] <= dbm_LE_ZERO
      BY <1>5, Infinity
    <3> QED
      BY <3>1, <3>2
  <2>3. ASSUME NEW i \in Clk \ {x} PROVE F[i][x] <= dbm_LE_ZERO
    <3>1. F[0][x] <= dbm_LE_ZERO /\ F[i][0] <= dbm_LE_ZERO
          /\ F[0][x] \in Int /\ F[i][0] \in Int /\ F[i][x] \in Int
      BY <1>4, <1>5, <2>1, <2>2
    <3>2. F[i][x] <= dbm_addFiniteFinite(F[i][0], F[0][x])
      BY <1>4, <1>5, <3>1, Infinity
    <3>3. dbm_addFiniteFinite(F[i][0], F[0][x]) <= dbm_LE_ZERO
          /\ dbm_addFiniteFinite(F[i][0], F[0][x]) \in Int
      <4>1. \A v, w \in Int : v <= 1 /\ w <= 1 =>
              /\ v + w - (IF dbm_rawIsWeak(v) \/ dbm_rawIsWeak(w) THEN 1 ELSE 0) <= 1
              /\ v + w - (IF dbm_rawIsWeak(v) \/ dbm_rawIsWeak(w) THEN 1 ELSE 0) \in Int
        BY DEF dbm_rawIsWeak
      <4> QED
        BY <3>1, <4>1, Infinity DEF dbm_addFiniteFinite
    <3> QED
      BY <3>1, <3>2, <3>3, Infinity
  <2>4. \A i, j \in Clk : F[i][j] <= A[i][j]
    <3> SUFFICES ASSUME NEW i \in Clk, NEW j \in Clk PROVE F[i][j] <= A[i][j]
      OBVIOUS
    <3>1. CASE i = x /\ j # x
      BY <1>2, <1>5, <3>1
    <3>2. CASE i = x /\ j = x
      BY <1>2, <1>5, <3>2, Infinity
    <3>3. CASE i # x /\ j = x
      BY <1>2, <2>3, <3>3
    <3>4. CASE i # x /\ j # x
      BY <1>2, <2>2, <3>4
    <3> QED
      BY <3>1, <3>2, <3>3, <3>4
  <2> QED
    BY <1>3, <2>1, <2>4 DEF NoLooser, RawMin
<1>7. ASSUME NoLooser(F, T) PROVE NoLooser(F, D) /\ Obeys(F, cs, Len(cs))
  <2>1. \A i, j \in Clk : A[i][j] \in Int
    BY <1>2, Infinity
  <2>2. \A i, j \in Clk : F[i][j] <= D[i][j] /\ F[i][j] <= A[i][j]
    <3> SUFFICES ASSUME NEW i \in Clk, NEW j \in Clk
                 PROVE  F[i][j] <= D[i][j] /\ F[i][j] <= A[i][j]
      OBVIOUS
    <3>1. F[i][j] <= RawMin(D[i][j], A[i][j])
      BY <1>3, <1>7 DEF NoLooser
    <3> QED
      BY <1>4, <1>5, <2>1, <3>1 DEF RawMin
  <2>3. Obeys(F, cs, Len(cs))
    <3> SUFFICES ASSUME NEW n \in 1 .. Len(cs)
                 PROVE  F[cs[n].i][cs[n].j] <= cs[n].value
      BY DEF Obeys
    <3>1. cs[n].i \in Clk /\ cs[n].j \in Clk /\ cs[n].i # x /\ cs[n].value = dbm_LE_ZERO
      BY <1>1
    <3>2. F[cs[n].i][cs[n].j] <= A[cs[n].i][cs[n].j]
      BY <2>2, <3>1
    <3>3. A[cs[n].i][cs[n].j] = dbm_LE_ZERO
      BY <1>2, <3>1
    <3> QED
      BY <3>1, <3>2, <3>3
  <2> QED
    BY <2>2, <2>3 DEF NoLooser
<1> QED
  BY <1>6, <1>7 DEF cs, T, A

\* intersectionAxis leaves a legal matrix, the one that the intersection with the matrix
\* of the axis leaves.
LEMMA IntersectionAxisResult ==
  ASSUME NEW D, IsZone(D, Before), NEW x \in Clocks
  PROVE  /\ Legal(intersectionAxis(D, x))
         /\ intersectionAxis(D, x) = dbm_intersection(D, AxisMatrix(x))
<1> DEFINE cs == axis(x)
           A == AxisMatrix(x)
           E == dbm_constrainN(D, cs)
<1>1. Len(cs) \in Nat /\ \A n \in 1 .. Len(cs) : IsConstraint(cs[n], Before)
  <2>1. /\ Len(cs) \in Nat /\ DOMAIN cs = 1 .. Len(cs)
        /\ \A n \in 1 .. Len(cs) :
             /\ cs[n].i \in Clk \ {x} /\ cs[n].j \in Clk \ {x} /\ cs[n].i # cs[n].j
             /\ cs[n].value = dbm_LE_ZERO
        /\ \A a, b \in Clk \ {x} : a # b =>
             \E n \in 1 .. Len(cs) : cs[n].i = a /\ cs[n].j = b
    BY AxisPairs
  <2> HIDE DEF cs
  <2> QED
    BY <2>1, Bounds, Infinity DEF IsConstraint
<1>2. Before \in Nat /\ (dim + 2) * Before <= dbm_LE_OVERFLOW /\ (dim + 2) * Before <= After
      /\ (dim + 2) * Before \in Int /\ dbm_LE_ZERO < Before
  BY Bounds
<1> HIDE DEF cs
<1>3. Legal(E)
  <2>1. E = Empty \/ IsZone(E, (dim + 2) * Before)
    BY <1>1, <1>2, ConstrainCloses
  <2> HIDE DEF E
  <2> QED
    BY <1>2, <2>1, LegalWithin
<1>4. Greatest(E, ClosedObeying(D, cs))
  BY <1>1, <1>2, ConstrainNGreatest
<1>5. A \in WideMatrix /\ Bounded(A, Before) /\ ZeroDiagonal(A)
  <2>1. A = [i \in Clk |-> [j \in Clk |-> A[i][j]]]
        /\ \A i, j \in Clk : A[i][j] = IF i = x /\ j # x THEN dbm_LS_INFINITY ELSE dbm_LE_ZERO
    BY DEF AxisMatrix
  <2> HIDE DEF A
  <2>2. \A i, j \in Clk : A[i][j] \in {y \in Int : y <= dbm_LS_INFINITY}
    BY <2>1, Infinity
  <2>3. A \in WideMatrix
    BY <2>1, <2>2 DEF WideMatrix
  <2>4. Bounded(A, Before)
    BY <1>2, <2>1, Infinity DEF Bounded
  <2>5. ZeroDiagonal(A)
    BY <2>1 DEF ZeroDiagonal
  <2> QED
    BY <2>3, <2>4, <2>5
<1> HIDE DEF A, E
<1> DEFINE T == Entrywise(RawMin, D, A)
<1>6. Greatest(dbm_intersection(D, A), ClosedBelow(T))
  <2>1. ClosedSomehow(TightenedBy(D, A), T, D, Before)
    BY <1>2, <1>5, TightenedByWays
  <2> HIDE DEF T
  <2> QED
    BY <1>2, <2>1, SomehowIsGreatest DEF dbm_intersection
<1>7. ClosedObeying(D, cs) = ClosedBelow(T)
  <2>1. \A F \in WideMatrix : Closed(F) =>
          (NoLooser(F, D) /\ Obeys(F, cs, Len(cs)) <=> NoLooser(F, T))
    BY <1>2, AxisBelow DEF cs, A
  <2> HIDE DEF T
  <2> QED
    BY <2>1 DEF ClosedObeying, ClosedBelow
<1>8. E = dbm_intersection(D, A)
  BY <1>4, <1>6, <1>7, GreatestIsOne DEF ClosedBelow
<1> QED
  BY <1>3, <1>8 DEF E, A, cs, intersectionAxis

-----------------------------------------------------------------------------
(* Widening. *)

\* A weak raw, widened.
Wider(v) == IF dbm_rawIsWeak(v) THEN v + 1 ELSE v

\* Widening keeps the order of a bound and the path that implies it; and so it does when
\* the first step of both is made strict instead.
LEMMA WiderPath ==
  ASSUME NEW v \in Int, NEW w \in Int, NEW u \in Int, u <= dbm_addFiniteFinite(v, w)
  PROVE  /\ Wider(u) <= dbm_addFiniteFinite(Wider(v), Wider(w))
         /\ dbm_strictRaw(u) <= dbm_addFiniteFinite(dbm_strictRaw(v), Wider(w))
         /\ u <= dbm_addFiniteFinite(Wider(v), Wider(w))
BY DEF Wider, dbm_addFiniteFinite, dbm_strictRaw, dbm_rawIsWeak

\* A raw changes by at most one.
LEMMA WiderNear ==
  ASSUME NEW v \in Int
  PROVE  /\ Wider(v) \in Int /\ v <= Wider(v) /\ Wider(v) <= v + 1
         /\ dbm_strictRaw(v) \in Int /\ v - 1 <= dbm_strictRaw(v) /\ dbm_strictRaw(v) <= v
BY DEF Wider, dbm_strictRaw, dbm_rawIsWeak

\* The widened zone of an unbounded one is a zone: no path goes through the reference
\* clock, whose bounds are the only ones that get tighter.
LEMMA DriftWidenIsZone ==
  ASSUME NEW D, NEW B \in Nat, IsZone(D, B), B <= dbm_LE_OVERFLOW, dbm_isUnbounded(D)
  PROVE  IsZone(driftWiden(D), B + 1)
<1> DEFINE E == driftWiden(D)
<1>1. /\ \A i, j \in Clk : D[i][j] \in Int /\ D[i][j] <= dbm_LS_INFINITY
      /\ \A i, j \in Clk : D[i][j] # dbm_LS_INFINITY => -B < D[i][j] /\ D[i][j] < B
      /\ \A i \in Clk : D[i][i] = dbm_LE_ZERO
      /\ \A j \in Clk : D[0][j] <= dbm_LE_ZERO /\ D[0][j] # dbm_LS_INFINITY
      /\ \A i, k, j \in Clk : D[i][k] # dbm_LS_INFINITY /\ D[k][j] # dbm_LS_INFINITY
           => /\ D[i][j] # dbm_LS_INFINITY
              /\ D[i][j] <= dbm_addFiniteFinite(D[i][k], D[k][j])
      /\ 0 \in Clk
  BY ZoneEntries
<1>2. \A i \in Clk : i # 0 => D[i][0] = dbm_LS_INFINITY
  BY DEF dbm_isUnbounded
<1>3. /\ E = [i \in Clk |-> [j \in Clk |-> E[i][j]]]
      /\ \A i, j \in Clk :
           E[i][j] = IF i = j THEN D[i][j]
                     ELSE IF i = 0 THEN dbm_strictRaw(D[0][j]) ELSE Wider(D[i][j])
  BY DEF driftWiden, Wider, dbm_strictRaw
<1> HIDE DEF E
<1>4. Wider(dbm_LS_INFINITY) = dbm_LS_INFINITY /\ dbm_LS_INFINITY \in Int
  BY SMT DEF Wider, dbm_rawIsWeak, dbm_LS_INFINITY
<1>5. \A i, j \in Clk : E[i][j] \in Int /\ (D[i][j] # dbm_LS_INFINITY =>
        -(B + 1) < E[i][j] /\ E[i][j] < B + 1 /\ E[i][j] < dbm_LS_INFINITY)
  <2> SUFFICES ASSUME NEW i \in Clk, NEW j \in Clk
               PROVE  E[i][j] \in Int /\ (D[i][j] # dbm_LS_INFINITY =>
                        -(B + 1) < E[i][j] /\ E[i][j] < B + 1 /\ E[i][j] < dbm_LS_INFINITY)
    OBVIOUS
  <2>1. E[i][j] \in Int /\ D[i][j] - 1 <= E[i][j] /\ E[i][j] <= D[i][j] + 1
    BY <1>1, <1>3, WiderNear
  <2> QED
    BY <1>1, <2>1, Infinity
<1>6. \A i, j \in Clk : D[i][j] = dbm_LS_INFINITY => i # 0 /\ i # j /\ E[i][j] = dbm_LS_INFINITY
  BY <1>1, <1>3, <1>4, Infinity
<1>7. \A i \in Clk : E[i][i] = dbm_LE_ZERO
  BY <1>1, <1>3
<1>8. \A j \in Clk : E[0][j] <= dbm_LE_ZERO
  <2> SUFFICES ASSUME NEW j \in Clk PROVE E[0][j] <= dbm_LE_ZERO
    OBVIOUS
  <2>1. CASE j = 0
    BY <1>1, <1>7, <2>1, Infinity
  <2>2. CASE j # 0
    <3>1. E[0][j] = dbm_strictRaw(D[0][j]) /\ D[0][j] <= dbm_LE_ZERO /\ D[0][j] \in Int
      BY <1>1, <1>3, <2>2
    <3> QED
      BY <3>1, WiderNear, Infinity
  <2> QED
    BY <2>1, <2>2
<1>9. ASSUME NEW i \in Clk, NEW k \in Clk, NEW j \in Clk,
             E[i][k] # dbm_LS_INFINITY, E[k][j] # dbm_LS_INFINITY
      PROVE  E[i][j] # dbm_LS_INFINITY /\ E[i][j] <= dbm_addFiniteFinite(E[i][k], E[k][j])
  <2>1. D[i][k] # dbm_LS_INFINITY /\ D[k][j] # dbm_LS_INFINITY
    BY <1>6, <1>9
  <2>2. D[i][j] # dbm_LS_INFINITY /\ D[i][j] <= dbm_addFiniteFinite(D[i][k], D[k][j])
    BY <1>1, <2>1
  <2>3. E[i][j] # dbm_LS_INFINITY
    BY <1>5, <2>2, Infinity
  <2>4. E[i][j] \in Int /\ E[i][k] \in Int /\ E[k][j] \in Int
        /\ D[i][j] \in Int /\ D[i][k] \in Int /\ D[k][j] \in Int
    BY <1>1, <1>5
  <2>5. CASE i = k \/ k = j
    <3>1. dbm_addFiniteFinite(E[i][k], E[k][j]) = E[i][j]
      BY <1>7, <2>4, <2>5, AddZero
    <3> QED
      BY <2>3, <2>4, <3>1
  <2>6. CASE i # k /\ k # j
    <3>1. k # 0 /\ j # 0
      BY <1>2, <2>1, <2>6
    <3>2. E[k][j] = Wider(D[k][j])
      BY <1>3, <2>6, <3>1
    <3>3. CASE i = 0
      <4>1. E[i][k] = dbm_strictRaw(D[i][k]) /\ E[i][j] = dbm_strictRaw(D[i][j])
        BY <1>3, <2>6, <3>1, <3>3
      <4> QED
        BY <2>2, <2>3, <2>4, <3>2, <4>1, WiderPath
    <3>4. CASE i # 0
      <4>1. E[i][k] = Wider(D[i][k]) /\ (E[i][j] = Wider(D[i][j]) \/ E[i][j] = D[i][j])
        BY <1>3, <2>6, <3>4
      <4> QED
        BY <2>2, <2>3, <2>4, <3>2, <4>1, WiderPath
    <3> QED
      BY <3>3, <3>4
  <2> QED
    BY <2>5, <2>6
<1>10. \A i, j \in Clk :
         /\ E[i][j] \in Int /\ E[i][j] <= dbm_LS_INFINITY
         /\ E[i][j] # dbm_LS_INFINITY => -(B + 1) < E[i][j] /\ E[i][j] < B + 1
  BY <1>4, <1>5, <1>6, Infinity
<1> QED
  BY <1>3, <1>7, <1>8, <1>9, <1>10, ZoneFromEntries DEF E

-----------------------------------------------------------------------------
(* The calls. *)

\* The calls that have a path of their own for a shared block.
OwnPaths ==
  {"dbm_up", "dbm_down", "dbm_freeClock", "dbm_freeUp", "dbm_freeDown", "dbm_freeAllUp",
   "dbm_freeAllDown", "dbm_updateValue", "dbm_update", "dbm_swapClocks", "dbm_constrain1",
   "dbm_constrainClock", "dbm_constrainN", "dbm_intersection", "dbm_convexUnion",
   "dbm_relaxAll", "dbm_relaxDownClock", "dbm_relaxUpClock"}

\* The path that each of them takes; the other calls make the block private.
LEMMA Paths ==
  /\ call'.op = "dbm_up" => Outcome' = ptr_up(zone')
  /\ call'.op = "dbm_down" => Outcome' = ptr_down(zone')
  /\ call'.op = "dbm_freeClock" => Outcome' = ptr_freeClock(zone', call'.k)
  /\ call'.op = "dbm_freeUp" => Outcome' = ptr_freeUp(zone', call'.k)
  /\ call'.op = "dbm_freeDown" => Outcome' = ptr_freeDown(zone', call'.k)
  /\ call'.op = "dbm_freeAllUp" => Outcome' = ptr_freeAllUp(zone')
  /\ call'.op = "dbm_freeAllDown" => Outcome' = ptr_freeAllDown(zone')
  /\ call'.op = "dbm_updateValue" => Outcome' = ptr_updateValue(zone', call'.k, call'.value)
  /\ call'.op = "dbm_update" => Outcome' = update(zone', call'.i, call'.j, call'.value)
  /\ call'.op = "dbm_swapClocks" => Outcome' = ptr_swapClocks(zone', call'.x, call'.y)
  /\ call'.op = "dbm_constrain1" => Outcome' = ptr_constrain1(zone', call'.c)
  /\ call'.op = "dbm_constrainClock"
       => Outcome' = ptr_constrainClock(zone', call'.k, call'.value)
  /\ call'.op = "dbm_constrainN" => Outcome' = ptr_constrainN(zone', call'.cs)
  /\ call'.op = "dbm_intersection" => Outcome' = ptr_intersection(zone', call'.src)
  /\ call'.op = "dbm_convexUnion" => Outcome' = ptr_convexUnion(zone', call'.src)
  /\ call'.op = "dbm_relaxAll" => Outcome' = ptr_relaxAll(zone')
  /\ call'.op = "dbm_relaxDownClock" => Outcome' = ptr_relaxDownClock(zone', call'.k)
  /\ call'.op = "dbm_relaxUpClock" => Outcome' = ptr_relaxUpClock(zone', call'.k)
  /\ call'.op \notin OwnPaths
       => Outcome' = [block |-> IF dbm' = Empty THEN "none" ELSE "private", dbm |-> dbm']
BY DEF Outcome, OwnPaths

\* A call whose path is faithful does the same to both handles, and copies the block only
\* for a change.
LEMMA FaithfulCall ==
  ASSUME NEW c, NEW E, NEW O, Call(c, E), c.op # "intersectionAxis",
         Outcome' = O, Faithful(O, E, zone)
  PROVE  SameResult' /\ CopiesOnlyChanges'
<1>1. call' = c /\ dbm' = E /\ zone' = zone
  BY DEF Call
<1>2. Outcome'.dbm = dbm' /\ (Outcome'.block = "none" <=> dbm' = Empty)
      /\ (Outcome'.block = "copy" => Outcome'.dbm # zone')
  BY <1>1 DEF Faithful
<1>3. call'.op # "intersectionAxis"
  BY <1>1
<1> QED
  BY <1>2, <1>3 DEF SameResult, CopiesOnlyChanges

\* So does a call that first makes the block private.
LEMMA PrivateCall ==
  ASSUME call'.op \notin OwnPaths, call'.op # "intersectionAxis"
  PROVE  SameResult' /\ CopiesOnlyChanges'
<1>1. Outcome' = [block |-> IF dbm' = Empty THEN "none" ELSE "private", dbm |-> dbm']
  BY Paths
<1>2. Outcome'.dbm = dbm' /\ (Outcome'.block = "none" <=> dbm' = Empty)
      /\ Outcome'.block # "copy"
  BY <1>1
<1> QED
  BY <1>2 DEF SameResult, CopiesOnlyChanges

\* A zone is not the empty one.
LEMMA NotEmpty ==
  ASSUME NEW D, NEW B, IsZone(D, B)
  PROVE  D # Empty
BY EmptyIsNegative DEF IsZone, Closed

\* Delays.
LEMMA DelayCalls ==
  ASSUME IsZone(zone, Before), Delay
  PROVE  SameResult' /\ CopiesOnlyChanges'
<1>1. CASE Call([op |-> "dbm_up"], dbm_up(zone))
  <2>1. Outcome' = ptr_up(zone)
    BY <1>1, Paths DEF Call
  <2>2. Faithful(ptr_up(zone), dbm_up(zone), zone)
    BY Bounds, UpIsZone, NotEmpty, UpFaithful
  <2> QED
    BY <1>1, <2>1, <2>2, FaithfulCall
<1>2. CASE Call([op |-> "dbm_down"], dbm_down(zone))
  <2>1. Outcome' = ptr_down(zone)
    BY <1>2, Paths DEF Call
  <2>2. Faithful(ptr_down(zone), dbm_down(zone), zone)
    BY Bounds, DownIsZone, NotEmpty, DownFaithful
  <2> QED
    BY <1>2, <2>1, <2>2, FaithfulCall
<1> QED
  BY <1>1, <1>2 DEF Delay

\* Freeing of one clock.
LEMMA FreeCalls ==
  ASSUME IsZone(zone, Before), Free
  PROVE  SameResult' /\ CopiesOnlyChanges'
<1>1. PICK k \in Clocks :
        \/ Call([op |-> "dbm_freeClock", k |-> k], dbm_freeClock(zone, k))
        \/ Call([op |-> "dbm_freeUp", k |-> k], dbm_freeUp(zone, k))
        \/ Call([op |-> "dbm_freeDown", k |-> k], dbm_freeDown(zone, k))
  BY DEF Free
<1>2. CASE Call([op |-> "dbm_freeClock", k |-> k], dbm_freeClock(zone, k))
  <2>1. Outcome' = ptr_freeClock(zone, k)
    BY <1>2, Paths DEF Call
  <2>2. dbm_freeClock(zone, k) # Empty
    BY Bounds, FreeClockIsZone, NotEmpty DEF Clocks
  <2>3. Faithful(ptr_freeClock(zone, k), dbm_freeClock(zone, k), zone)
    BY <2>2, Bounds, FreeClockFaithful
  <2> QED
    BY <1>2, <2>1, <2>3, FaithfulCall
<1>3. CASE Call([op |-> "dbm_freeUp", k |-> k], dbm_freeUp(zone, k))
  <2>1. Outcome' = ptr_freeUp(zone, k)
    BY <1>3, Paths DEF Call
  <2>2. dbm_freeUp(zone, k) # Empty
    BY Bounds, FreeUpIsZone, NotEmpty DEF Clocks
  <2>3. Faithful(ptr_freeUp(zone, k), dbm_freeUp(zone, k), zone)
    BY <2>2, Bounds, FreeUpFaithful
  <2> QED
    BY <1>3, <2>1, <2>3, FaithfulCall
<1>4. CASE Call([op |-> "dbm_freeDown", k |-> k], dbm_freeDown(zone, k))
  <2>1. Outcome' = ptr_freeDown(zone, k)
    BY <1>4, Paths DEF Call
  <2>2. dbm_freeDown(zone, k) # Empty
    BY Bounds, FreeDownIsZone, NotEmpty DEF Clocks
  <2>3. Faithful(ptr_freeDown(zone, k), dbm_freeDown(zone, k), zone)
    BY <2>2, Bounds, FreeDownFaithful
  <2> QED
    BY <1>4, <2>1, <2>3, FaithfulCall
<1> QED
  BY <1>1, <1>2, <1>3, <1>4

\* Freeing of all clocks.
LEMMA FreeAllCalls ==
  ASSUME IsZone(zone, Before), FreeAll
  PROVE  SameResult' /\ CopiesOnlyChanges'
<1>1. CASE Call([op |-> "dbm_freeAllUp"], dbm_freeAllUp(zone))
  <2>1. Outcome' = ptr_freeAllUp(zone)
    BY <1>1, Paths DEF Call
  <2>2. Faithful(ptr_freeAllUp(zone), dbm_freeAllUp(zone), zone)
    BY Bounds, FreeAllUpIsZone, NotEmpty, FreeAllUpFaithful
  <2> QED
    BY <1>1, <2>1, <2>2, FaithfulCall
<1>2. CASE Call([op |-> "dbm_freeAllDown"], dbm_freeAllDown(zone))
  <2>1. Outcome' = ptr_freeAllDown(zone)
    BY <1>2, Paths DEF Call
  <2>2. Faithful(ptr_freeAllDown(zone), dbm_freeAllDown(zone), zone)
    BY Bounds, FreeAllDownIsZone, NotEmpty, FreeAllDownFaithful
  <2> QED
    BY <1>2, <2>1, <2>2, FaithfulCall
<1> QED
  BY <1>1, <1>2 DEF FreeAll

\* Assignments of values.
LEMMA UpdateValueCalls ==
  ASSUME IsZone(zone, Before), UpdateValue
  PROVE  SameResult' /\ CopiesOnlyChanges'
<1>1. PICK k \in Clocks, v \in Times :
        v >= 0 /\ Call([op |-> "dbm_updateValue", k |-> k, value |-> v],
                       dbm_updateValue(zone, k, v))
  BY DEF UpdateValue
<1>2. k \in Clk \ {0} /\ v \in Nat /\ 2 * v <= Before
  BY <1>1, TimesAssumption, Bounds DEF Before, Clocks
<1>3. Outcome' = ptr_updateValue(zone, k, v)
  BY <1>1, Paths DEF Call
<1>4. Faithful(ptr_updateValue(zone, k, v), dbm_updateValue(zone, k, v), zone)
  BY <1>2, Bounds, UpdateValueIsZone, NotEmpty, UpdateValueFaithful
<1> QED
  BY <1>1, <1>3, <1>4, FaithfulCall

\* Assignments of clocks.
LEMMA UpdateCalls ==
  ASSUME IsZone(zone, Before), Update
  PROVE  SameResult' /\ CopiesOnlyChanges'
<1>1. PICK i \in Clocks, j \in Clocks, v \in Times :
        /\ dbm_raw2bound(zone[0][j]) <= v
        /\ Call([op |-> "dbm_update", i |-> i, j |-> j, value |-> v],
                dbm_update(zone, i, j, v))
  BY DEF Update
<1>2. Outcome' = update(zone, i, j, v)
  BY <1>1, Paths DEF Call
<1>3. dbm_update(zone, i, j, v) # Empty
  <2>1. v \in Int /\ -Before <= 2 * v /\ 2 * v <= Before
    BY TimesAssumption, Bounds DEF Before
  <2>2. i \in Clk \ {0} /\ j \in Clk \ {0}
    BY DEF Clocks
  <2>3. IsZone(dbm_update(zone, i, j, v), 2 * Before)
    BY <1>1, <2>1, <2>2, Bounds, UpdateIsZone
  <2> QED
    BY <2>3, NotEmpty
<1>4. v \in Int
  BY TimesAssumption, Bounds
<1>5. Faithful(update(zone, i, j, v), dbm_update(zone, i, j, v), zone)
  BY <1>3, <1>4, Bounds, UpdateCallFaithful
<1> QED
  BY <1>1, <1>2, <1>5, FaithfulCall

\* Swaps, which may copy the block for nothing.
LEMMA SwapCalls ==
  ASSUME IsZone(zone, Before), SwapClocks
  PROVE  SameResult' /\ CopiesOnlyChanges'
<1>1. PICK x \in Clocks, y \in Clocks :
        Call([op |-> "dbm_swapClocks", x |-> x, y |-> y], dbm_swapClocks(zone, x, y))
  BY DEF SwapClocks
<1>2. Outcome' = ptr_swapClocks(zone, x, y)
  BY <1>1, Paths DEF Call
<1>3. dbm_swapClocks(zone, x, y) # Empty
  BY Bounds, SwapClocksIsZone, NotEmpty DEF Clocks
<1>4. ptr_swapClocks(zone, x, y).dbm = dbm_swapClocks(zone, x, y)
      /\ ptr_swapClocks(zone, x, y).block # "none"
  BY <1>3, Bounds, SwapClocksFaithful
<1>5. dbm' = dbm_swapClocks(zone, x, y) /\ call'.op = "dbm_swapClocks"
  BY <1>1 DEF Call
<1> QED
  BY <1>2, <1>3, <1>4, <1>5 DEF SameResult, CopiesOnlyChanges

\* One constraint.
LEMMA Constrain1Calls ==
  ASSUME IsZone(zone, Before), Constrain1
  PROVE  SameResult' /\ CopiesOnlyChanges'
<1>1. PICK c \in Constraints :
        Call([op |-> "dbm_constrain1", c |-> c], dbm_constrain1(zone, c))
  BY DEF Constrain1
<1>2. Outcome' = ptr_constrain1(zone, c)
  BY <1>1, Paths DEF Call
<1>3. Faithful(ptr_constrain1(zone, c), dbm_constrain1(zone, c), zone)
  BY Bounds, ConstraintBounds, Constrain1Faithful
<1> QED
  BY <1>1, <1>2, <1>3, FaithfulCall

\* A clock held at a value.
LEMMA ConstrainClockCalls ==
  ASSUME IsZone(zone, Before), ConstrainClock
  PROVE  SameResult' /\ CopiesOnlyChanges'
<1>1. PICK k \in Clocks, v \in Times :
        v >= 0 /\ Call([op |-> "dbm_constrainClock", k |-> k, value |-> v],
                       dbm_constrainClock(zone, k, v))
  BY DEF ConstrainClock
<1>2. Outcome' = ptr_constrainClock(zone, k, v)
  BY <1>1, Paths DEF Call
<1>3. v \in Int
  BY TimesAssumption, Bounds
<1>4. Faithful(ptr_constrainClock(zone, k, v), dbm_constrainClock(zone, k, v), zone)
  BY <1>3, Bounds, ConstrainClockFaithful
<1> QED
  BY <1>1, <1>2, <1>4, FaithfulCall

\* Two constraints.
LEMMA ConstrainNCalls ==
  ASSUME IsZone(zone, Before), ConstrainN
  PROVE  SameResult' /\ CopiesOnlyChanges'
<1>1. PICK c \in Pairs, d \in Pairs :
        Call([op |-> "dbm_constrainN", cs |-> <<c, d>>], dbm_constrainN(zone, <<c, d>>))
  BY DEF ConstrainN
<1> DEFINE cs == <<c, d>>
<1>2. Len(cs) = 2 /\ DOMAIN cs = 1 .. 2 /\ cs[1] = c /\ cs[2] = d
  OBVIOUS
<1>3. IsConstraint(c, Before) /\ IsConstraint(d, Before)
  BY PairsAssumption, ConstraintBounds
<1>4. \A n \in 1 .. Len(cs) : IsConstraint(cs[n], Before)
  BY <1>2, <1>3
<1>5. Len(cs) \in Nat /\ DOMAIN cs = 1 .. Len(cs)
  BY <1>2
<1>6. Call([op |-> "dbm_constrainN", cs |-> cs], dbm_constrainN(zone, cs))
  BY <1>1
<1> HIDE DEF cs
<1>7. Outcome' = ptr_constrainN(zone, cs)
  BY <1>6, Paths DEF Call
<1>8. Faithful(ptr_constrainN(zone, cs), dbm_constrainN(zone, cs), zone)
  BY <1>4, <1>5, Bounds, ConstrainNFaithful
<1> QED
  BY <1>6, <1>7, <1>8, FaithfulCall

\* Intersections.
LEMMA IntersectionCalls ==
  ASSUME IsZone(zone, Before), Intersection
  PROVE  SameResult' /\ CopiesOnlyChanges'
<1>1. PICK S \in Others :
        Call([op |-> "dbm_intersection", src |-> S], dbm_intersection(zone, S))
  BY DEF Intersection
<1>2. Outcome' = ptr_intersection(zone, S)
  BY <1>1, Paths DEF Call
<1>3. Faithful(ptr_intersection(zone, S), dbm_intersection(zone, S), zone)
  BY Bounds, OthersAreZones, IntersectionFaithful
<1> QED
  BY <1>1, <1>2, <1>3, FaithfulCall

\* Convex unions.
LEMMA ConvexUnionCalls ==
  ASSUME IsZone(zone, Before), ConvexUnion
  PROVE  SameResult' /\ CopiesOnlyChanges'
<1>1. PICK S \in Others :
        Call([op |-> "dbm_convexUnion", src |-> S], dbm_convexUnion(zone, S))
  BY DEF ConvexUnion
<1>2. Outcome' = ptr_convexUnion(zone, S)
  BY <1>1, Paths DEF Call
<1>3. IsZone(S, Before) /\ Before \in Nat
  BY OthersAreZones, Bounds
<1>4. Faithful(ptr_convexUnion(zone, S), dbm_convexUnion(zone, S), zone)
  BY <1>3, ConvexUnionIsZone, NotEmpty, ConvexUnionFaithful
<1> QED
  BY <1>1, <1>2, <1>4, FaithfulCall

\* Relaxations.
LEMMA RelaxCalls ==
  ASSUME IsZone(zone, Before), Relax
  PROVE  SameResult' /\ CopiesOnlyChanges'
<1>1. Before \in Nat /\ Before < dbm_LE_OVERFLOW
  BY Bounds
<1>2. CASE Call([op |-> "dbm_relaxAll"], dbm_relaxAll(zone))
  <2>1. Outcome' = ptr_relaxAll(zone)
    BY <1>2, Paths DEF Call
  <2>2. dbm_relaxAll(zone) # Empty
    BY Bounds, WeakenedIsZone, NotEmpty DEF dbm_relaxAll
  <2>3. Faithful(ptr_relaxAll(zone), dbm_relaxAll(zone), zone)
    BY <1>1, <2>2, RelaxAllFaithful
  <2> QED
    BY <1>2, <2>1, <2>3, FaithfulCall
<1>3. ASSUME NEW k \in Clk,
             Call([op |-> "dbm_relaxDownClock", k |-> k], dbm_relaxDownClock(zone, k))
      PROVE  SameResult' /\ CopiesOnlyChanges'
  <2>1. Outcome' = ptr_relaxDownClock(zone, k)
    BY <1>3, Paths DEF Call
  <2>2. dbm_relaxDownClock(zone, k) # Empty
    BY Bounds, RelaxDownIsZone, NotEmpty
  <2>3. Faithful(ptr_relaxDownClock(zone, k), dbm_relaxDownClock(zone, k), zone)
    BY <1>1, <2>2, RelaxDownFaithful
  <2> QED
    BY <1>3, <2>1, <2>3, FaithfulCall
<1>4. ASSUME NEW k \in Clk,
             Call([op |-> "dbm_relaxUpClock", k |-> k], dbm_relaxUpClock(zone, k))
      PROVE  SameResult' /\ CopiesOnlyChanges'
  <2>1. Outcome' = ptr_relaxUpClock(zone, k)
    BY <1>4, Paths DEF Call
  <2>2. dbm_relaxUpClock(zone, k) # Empty
    BY Bounds, RelaxUpIsZone, NotEmpty
  <2>3. Faithful(ptr_relaxUpClock(zone, k), dbm_relaxUpClock(zone, k), zone)
    BY <1>1, <2>2, RelaxUpFaithful
  <2> QED
    BY <1>4, <2>1, <2>3, FaithfulCall
<1> QED
  BY <1>2, <1>3, <1>4 DEF Relax

\* intersectionAxis works in a private block, and keeps the invariant.
LEMMA AxisCalls ==
  ASSUME Inv, IntersectionAxis
  PROVE  Inv' /\ SameResult' /\ CopiesOnlyChanges'
<1>1. PICK x \in Clocks :
        Call([op |-> "intersectionAxis", x |-> x], intersectionAxis(zone, x))
  BY DEF IntersectionAxis
<1>2. call'.op = "intersectionAxis" /\ call'.x = x /\ zone' = zone
      /\ dbm' = intersectionAxis(zone, x)
  BY <1>1 DEF Call
<1>3. /\ Legal(intersectionAxis(zone, x))
      /\ intersectionAxis(zone, x) = dbm_intersection(zone, AxisMatrix(x))
  BY IntersectionAxisResult DEF Inv
<1>4. Outcome' = [block |-> IF dbm' = Empty THEN "none" ELSE "private", dbm |-> dbm']
  BY <1>2, Paths DEF OwnPaths
<1>5. Outcome'.dbm = dbm' /\ (Outcome'.block = "none" <=> dbm' = Empty)
      /\ Outcome'.block # "copy"
  BY <1>4
<1>6. dbm' = dbm_intersection(zone', [i \in Clk |-> [j \in Clk |->
               IF i = call'.x /\ j # call'.x THEN dbm_LS_INFINITY ELSE dbm_LE_ZERO]])
  BY <1>2, <1>3 DEF AxisMatrix
<1> QED
  BY <1>1, <1>3, <1>5, <1>6, CallKeeps DEF SameResult, CopiesOnlyChanges

\* So does driftWiden.
LEMMA DriftCalls ==
  ASSUME Inv, DriftWiden
  PROVE  Inv' /\ SameResult' /\ CopiesOnlyChanges'
<1>1. dbm_isUnbounded(zone) /\ Call([op |-> "driftWiden"], driftWiden(zone))
  BY DEF DriftWiden
<1>2. Before \in Nat /\ Before <= dbm_LE_OVERFLOW /\ Before + 1 <= After /\ Before + 1 \in Int
  BY Bounds, Infinity
<1>3. Legal(driftWiden(zone))
  <2>1. IsZone(zone, Before)
    BY DEF Inv
  <2>2. IsZone(driftWiden(zone), Before + 1)
    BY <1>1, <1>2, <2>1, DriftWidenIsZone
  <2> QED
    BY <1>2, <2>2, LegalWithin
<1>4. call'.op = "driftWiden"
  BY <1>1 DEF Call
<1>5. SameResult' /\ CopiesOnlyChanges'
  BY <1>4, PrivateCall DEF OwnPaths
<1> QED
  BY <1>1, <1>3, <1>5, CallKeeps

\* The calls of dbm.c, on the one handle and the other.
LEMMA NextSame ==
  ASSUME Inv, Next
  PROVE  SameResult' /\ CopiesOnlyChanges'
<1>1. IsZone(zone, Before)
  BY DEF Inv
<1>2. CASE Constrain1 \/ ConstrainN \/ ConstrainClock \/ Intersection
  BY <1>1, <1>2, Constrain1Calls, ConstrainNCalls, ConstrainClockCalls, IntersectionCalls
<1>3. CASE Delay \/ Free \/ FreeAll
  BY <1>1, <1>3, DelayCalls, FreeCalls, FreeAllCalls
<1>4. CASE UpdateValue \/ Update \/ SwapClocks
  BY <1>1, <1>4, UpdateValueCalls, UpdateCalls, SwapCalls
<1>5. CASE ConvexUnion \/ Relax
  BY <1>1, <1>5, ConvexUnionCalls, RelaxCalls
<1>6. CASE RelaxedIntersection \/ Tighten \/ DelayStopped \/ Reset
  <2>1. call'.op \in {"dbm_relaxedIntersection", "dbm_tightenDown", "dbm_tightenUp",
                      "dbm_up_stop", "dbm_down_stop", "dbm_init", "dbm_zero"}
    BY <1>6 DEF RelaxedIntersection, Tighten, DelayStopped, Reset, Call
  <2> QED
    BY <2>1, PrivateCall DEF OwnPaths
<1>7. CASE ShrinkExpand \/ UpdateDBM \/ Return
  <2>1. call'.op \in {"dbm_shrinkExpand", "dbm_updateDBM", "none"}
    BY <1>7 DEF ShrinkExpand, UpdateDBM, Return, NoCall, Call
  <2> QED
    BY <2>1, PrivateCall DEF OwnPaths
<1>8. CASE ConstrainInTurn
  <2>1. PICK cs : Call([op |-> "dbm_constrain", cs |-> cs], dbm_constrainThenClose(zone, cs))
    BY <1>8 DEF ConstrainInTurn
  <2>2. call'.op = "dbm_constrain"
    BY <2>1 DEF Call
  <2> QED
    BY <2>2, PrivateCall DEF OwnPaths
<1> QED
  BY <1>2, <1>3, <1>4, <1>5, <1>6, <1>7, <1>8 DEF Next

\* What holds of every state of the two handles: the invariant of the zone, which the calls
\* of dbm_t only keep as well, and the two properties.
HandleInv == Inv /\ SameResult /\ CopiesOnlyChanges

\* It holds initially, between calls.
LEMMA InitHandle == Init => HandleInv
<1> SUFFICES ASSUME Init PROVE HandleInv
  OBVIOUS
<1>1. Inv
  BY InitInv
<1>2. call.op = "none" /\ dbm # Empty
  BY <1>1 DEF Init, NoCall, Inv
<1>3. Outcome = [block |-> IF dbm = Empty THEN "none" ELSE "private", dbm |-> dbm]
  BY <1>2 DEF Outcome
<1>4. Outcome.dbm = dbm /\ Outcome.block = "private"
  BY <1>2, <1>3
<1> QED
  BY <1>1, <1>2, <1>4 DEF HandleInv, SameResult, CopiesOnlyChanges

\* Every behaviour of the two handles keeps it.
THEOREM HandlesAgree == HandleSpec => []HandleInv
<1>1. HandleInv /\ [Next \/ IntersectionAxis \/ DriftWiden]_vars => HandleInv'
  <2> SUFFICES ASSUME HandleInv, [Next \/ IntersectionAxis \/ DriftWiden]_vars
               PROVE  HandleInv'
    OBVIOUS
  <2>1. CASE Next
    BY <2>1, NextKeeps, NextSame DEF HandleInv
  <2>2. CASE IntersectionAxis
    BY <2>2, AxisCalls DEF HandleInv
  <2>3. CASE DriftWiden
    BY <2>3, DriftCalls DEF HandleInv
  <2>4. CASE UNCHANGED vars
    <3>1. zone' = zone /\ call' = call /\ dbm' = dbm /\ ret' = ret
      BY <2>4 DEF vars
    <3>2. Inv'
      BY <3>1 DEF HandleInv, Inv
    <3>3. Outcome' = Outcome
      BY <3>1 DEF Outcome
    <3>4. SameResult' /\ CopiesOnlyChanges'
      BY <3>1, <3>3 DEF HandleInv, SameResult, CopiesOnlyChanges
    <3> QED
      BY <3>2, <3>4 DEF HandleInv
  <2> QED
    BY <2>1, <2>2, <2>3, <2>4
<1> QED
  BY <1>1, InitHandle, PTL DEF HandleSpec

\* A call leaves the same matrix whether the block of the handle is shared or not, and
\* intersectionAxis is the intersection with the matrix of the axis.
THEOREM AlwaysSameResult == HandleSpec => []SameResult
<1>1. HandleInv => SameResult
  BY DEF HandleInv
<1> QED
  BY <1>1, HandlesAgree, PTL

\* A block that is shared is only copied by a call that changes the matrix, or swaps clocks.
THEOREM AlwaysCopiesOnlyChanges == HandleSpec => []CopiesOnlyChanges
<1>1. HandleInv => CopiesOnlyChanges
  BY DEF HandleInv
<1> QED
  BY <1>1, HandlesAgree, PTL

\* With the calls of dbm_t too, every call leaves a valid matrix or none.
THEOREM HandlesCanonical == HandleSpec => []Canonical
<1>1. HandleInv => Canonical
  BY InvCanonical DEF HandleInv
<1> QED
  BY <1>1, HandlesAgree, PTL
=============================================================================
