----------------------------- MODULE BuiltinProofs -----------------------------
(***************************************************************************)
(* Proofs about the builtin handler's part of Collectors.                  *)
(***************************************************************************)
EXTENDS Collectors, InductionLemmas

-----------------------------------------------------------------------------
(* What the parsers compute. Their loops are recursive functions, whose      *)
(* defining equations hold because such functions exist.                     *)

LEMMA SumsFacts ==
  ASSUME NEW n \in Nat, NEW a \in [1..n -> Int]
  PROVE  /\ B!Sums(a) \in [0..n -> Int] /\ Len(a) = n
         /\ B!Sums(a)[0] = 0
         /\ \A i \in 1..n : B!Sums(a)[i] = B!Sums(a)[i - 1] + a[i]
  <1> DEFINE Defines(f) == f = [i \in 0..n |-> IF i = 0 THEN 0 ELSE f[i - 1] + a[i]]
             step == [p \in (1..n) \X Int |-> p[2] + a[p[1]]]
  <1>1. Len(a) = n
    OBVIOUS
  <1>2. B!Sums(a) = CHOOSE f : Defines(f)
    BY <1>1 DEF B!Sums
  <1>3. \E f : Defines(f)
    <2>1. step \in [(1..n) \X Int -> Int]
      OBVIOUS
    <2>2. \A i \in 1..n, c \in Int : step[<<i, c>>] = c + a[i]
      OBVIOUS
    <2> HIDE DEF step
    <2>3. PICK f : Follows(f, n, Int, 0, step)
      <3>1. 0 \in Int
        OBVIOUS
      <3> QED
        BY <2>1, <3>1, Recursion, Zenon
    <2>4. \A i \in 1..n : f[i] = f[i - 1] + a[i]
      <3>1. \A i \in 1..n : f[i - 1] \in Int
        BY <2>3 DEF Follows
      <3> QED
        BY <2>2, <2>3, <3>1 DEF Follows
    <2>5. Defines(f)
      <3>1. f = [i \in 0..n |-> f[i]]
        BY <2>3 DEF Follows
      <3>2. \A i \in 0..n : f[i] = IF i = 0 THEN 0 ELSE f[i - 1] + a[i]
        BY <2>3, <2>4 DEF Follows
      <3> QED
        BY <3>1, <3>2, Zenon
    <2> HIDE DEF Defines
    <2> QED
      BY <2>5
  <1>4. Defines(B!Sums(a))
    <2> HIDE DEF Defines
    <2> QED
      BY <1>2, <1>3
  <1>5. B!Sums(a)[0] = 0 /\ \A i \in 1..n : B!Sums(a)[i] = B!Sums(a)[i - 1] + a[i]
    BY <1>4
  <1>6. \A i \in 0..n : i \in {j \in 0..n : B!Sums(a)[j] \in Int}
    <2> DEFINE P == {j \in 0..n : B!Sums(a)[j] \in Int}
    <2>1. 0 \in P
      BY <1>5
    <2>2. ASSUME NEW i \in 1..n, i - 1 \in P PROVE i \in P
      BY <1>5, <2>2
    <2> HIDE DEF P
    <2>3. \A i \in 0..n : i \in P
      BY <2>1, <2>2, Upwards
    <2> QED
      BY <2>3 DEF P
  <1> QED
    BY <1>1, <1>4, <1>5, <1>6

LEMMA AddInequalities ==
  ASSUME NEW x \in Int, NEW y \in Int, NEW z \in Int, x + y <= z,
         NEW u \in Int, NEW v \in Int, NEW w \in Int, u + v <= w
  PROVE  (x + u) + (y + v) <= z + w
  OBVIOUS

\* Sums of numbers that add up, or do not exceed the third, do so as well.
LEMMA SumsMonotone ==
  ASSUME NEW n \in Nat, NEW a \in [1..n -> Int], NEW b \in [1..n -> Int], NEW c \in [1..n -> Int],
         \A i \in 1..n : a[i] + b[i] <= c[i]
  PROVE  B!Sums(a)[n] + B!Sums(b)[n] <= B!Sums(c)[n]
  <1> DEFINE P == {i \in 0..n : B!Sums(a)[i] + B!Sums(b)[i] <= B!Sums(c)[i]}
  <1>1. 0 \in P
    <2>1. B!Sums(a)[0] = 0 /\ B!Sums(b)[0] = 0 /\ B!Sums(c)[0] = 0
      BY SumsFacts, Zenon
    <2> QED
      BY <2>1
  <1>2. ASSUME NEW i \in 1..n, i - 1 \in P PROVE i \in P
    <2>1. /\ B!Sums(a)[i - 1] \in Int /\ B!Sums(b)[i - 1] \in Int /\ B!Sums(c)[i - 1] \in Int
          /\ B!Sums(a)[i] = B!Sums(a)[i - 1] + a[i]
          /\ B!Sums(b)[i] = B!Sums(b)[i - 1] + b[i]
          /\ B!Sums(c)[i] = B!Sums(c)[i - 1] + c[i]
      <3>1. i - 1 \in 0..n
        OBVIOUS
      <3>2. /\ B!Sums(a) \in [0..n -> Int] /\ B!Sums(b) \in [0..n -> Int] /\ B!Sums(c) \in [0..n -> Int]
            /\ B!Sums(a)[i] = B!Sums(a)[i - 1] + a[i]
            /\ B!Sums(b)[i] = B!Sums(b)[i - 1] + b[i]
            /\ B!Sums(c)[i] = B!Sums(c)[i - 1] + c[i]
        BY SumsFacts, Zenon
      <3> QED
        BY <3>1, <3>2
    <2>2. a[i] \in Int /\ b[i] \in Int /\ c[i] \in Int /\ a[i] + b[i] <= c[i]
      OBVIOUS
    <2>3. B!Sums(a)[i - 1] + B!Sums(b)[i - 1] <= B!Sums(c)[i - 1]
      BY <1>2
    <2>4. B!Sums(a)[i] + B!Sums(b)[i] <= B!Sums(c)[i]
      <3>1. (B!Sums(a)[i - 1] + a[i]) + (B!Sums(b)[i - 1] + b[i]) <= B!Sums(c)[i - 1] + c[i]
        BY <2>1, <2>2, <2>3, AddInequalities
      <3> QED
        BY <2>1, <3>1, Zenon
    <2> QED
      BY <2>4
  <1> HIDE DEF P
  <1>3. n \in P
    <2>1. \A i \in 0..n : i \in P
      BY <1>1, <1>2, Upwards
    <2> QED
      BY <2>1
  <1> QED
    BY <1>3 DEF P

\* The lines of a text: a function from 1..m.
LEMMA LinesOf ==
  ASSUME NEW S, NEW text \in B!Texts(S)
  PROVE  \E m \in Nat : B!Lines(text) \in [1..m -> S]
  <1>1. CASE text = None
    <2>1. <<>> \in [1..0 -> S]
      OBVIOUS
    <2> QED
      BY <1>1, <2>1 DEF B!Lines
  <1>2. CASE text # None
    BY <1>2 DEF B!Lines, B!Texts, B!Option, B!SeqOf
  <1> QED
    BY <1>1, <1>2

LEMMA DiskAddsUp ==
  ASSUME NEW rows \in B!Texts(B!Option(B!Filesystems))
  PROVE  B!Total(B!Lines(rows), "used") + B!Total(B!Lines(rows), "available")
           <= B!Total(B!Lines(rows), "total")
  <1> DEFINE lines == B!Lines(rows)
             column(key) == [i \in DOMAIN lines |-> IF lines[i] = None THEN 0 ELSE lines[i][key]]
  <1>1. PICK m \in Nat : lines \in [1..m -> B!Option(B!Filesystems)]
    BY LinesOf
  <1> HIDE DEF lines
  <1>2. \A i \in DOMAIN lines : lines[i] # None =>
          /\ lines[i].used \in Int /\ lines[i].available \in Int /\ lines[i].total \in Int
          /\ lines[i].used + lines[i].available <= lines[i].total
    <2>1. ASSUME NEW row \in B!Filesystems
          PROVE  /\ row.used \in Int /\ row.available \in Int /\ row.total \in Int
                 /\ row.used + row.available <= row.total
      BY NumbersAssumption DEF B!Filesystems
    <2>2. \A i \in DOMAIN lines : lines[i] # None => lines[i] \in B!Filesystems
      BY <1>1 DEF B!Option
    <2> QED
      BY <2>1, <2>2
  <1>3. /\ column("used") \in [1..m -> Int] /\ column("available") \in [1..m -> Int]
        /\ column("total") \in [1..m -> Int]
        /\ \A i \in 1..m : column("used")[i] + column("available")[i] <= column("total")[i]
    <2>1. DOMAIN lines = 1..m
      BY <1>1
    <2> QED
      BY <1>2, <2>1
  <1>4. \A key : B!Total(lines, key) = B!Sums(column(key))[Len(column(key))]
    BY DEF B!Total
  <1> HIDE DEF column
  <1>5. B!Sums(column("used"))[m] + B!Sums(column("available"))[m] <= B!Sums(column("total"))[m]
    BY <1>3, SumsMonotone
  <1>6. Len(column("used")) = m /\ Len(column("available")) = m /\ Len(column("total")) = m
    BY <1>3, SumsFacts
  <1> QED
    BY <1>4, <1>5, <1>6 DEF lines

\* A text without lines has the total 0.
LEMMA NothingToSum == \A key : B!Total(<<>>, key) = 0
  <1> SUFFICES ASSUME NEW key PROVE B!Total(<<>>, key) = 0
    OBVIOUS
  <1> DEFINE column == [i \in DOMAIN <<>> |-> IF <<>>[i] = None THEN 0 ELSE <<>>[i][key]]
  <1>1. column \in [1..0 -> Int]
    OBVIOUS
  <1>2. B!Total(<<>>, key) = B!Sums(column)[Len(column)]
    BY DEF B!Total
  <1> HIDE DEF column
  <1> QED
    BY <1>1, <1>2, SumsFacts

\* The value of the last line of a key is a number.
LEMMA MemoryNumbers ==
  ASSUME NEW text \in B!Texts(B!MemoryLines), NEW key
  PROVE  B!MemoryLine(B!Lines(text), key) \in Int
  <1> DEFINE lines == B!Lines(text)
             at == {i \in DOMAIN lines : lines[i].key = key /\ lines[i].value # None}
  <1>1. PICK m \in Nat : lines \in [1..m -> B!MemoryLines]
    BY LinesOf
  <1> HIDE DEF lines
  <1>2. \A i \in at : lines[i].value \in Int
    BY <1>1, NumbersAssumption DEF B!MemoryLines, B!Option
  <1>3. at \in SUBSET (0..m)
    BY <1>1
  <1>4. B!MemoryLine(lines, key)
          = IF at = {} THEN 0 ELSE lines[CHOOSE i \in at : \A j \in at : j <= i].value
    BY DEF B!MemoryLine
  <1> HIDE DEF at
  <1>5. CASE at = {}
    BY <1>4, <1>5 DEF lines
  <1>6. CASE at # {}
    <2>1. \E i \in at : \A j \in at : j <= i
      BY <1>3, <1>6, GreatestNumber
    <2>2. (CHOOSE i \in at : \A j \in at : j <= i) \in at
      BY <2>1
    <2> QED
      BY <1>2, <1>4, <1>6, <2>2 DEF lines
  <1> QED
    BY <1>5, <1>6

LEMMA SameCard == \A S : B!Cardinality(S) = Cardinality(S)
  BY Zenon DEF B!Cardinality, Cardinality

\* Users are not more than their sessions.
LEMMA UsersBound ==
  ASSUME NEW who \in B!Texts(Users)
  PROVE  B!Cardinality(B!ToSet(B!Lines(who))) <= Len(B!Lines(who))
  <1> DEFINE lines == B!Lines(who)
  <1>1. PICK m \in Nat : lines \in [1..m -> Users]
    BY LinesOf
  <1> HIDE DEF lines
  <1>2. Len(lines) = m
    BY <1>1
  <1>3. lines \in Surjection(1..m, B!ToSet(lines))
    BY <1>1 DEF Surjection, B!ToSet
  <1>4. IsFiniteSet(1..m) /\ Cardinality(1..m) = m
    BY FS_Interval
  <1>5. Cardinality(B!ToSet(lines)) <= m
    BY <1>3, <1>4, FS_Surjection
  <1> QED
    BY <1>2, <1>5, SameCard DEF lines

\* What the loop of _count_check_update does with a line.
Kinds == {"package", "obsoleting", "blank"}
Locals == [count : Nat, obsoleting : BOOLEAN]
Counted(line, before) ==
  IF line = "blank" THEN [count |-> before.count, obsoleting |-> FALSE]
  ELSE IF line = "obsoleting" THEN [count |-> before.count, obsoleting |-> TRUE]
  ELSE IF before.obsoleting THEN before
  ELSE [count |-> before.count + 1, obsoleting |-> FALSE]

LEMMA CountsFacts ==
  ASSUME NEW n \in Nat, NEW lines \in [1..n -> Kinds]
  PROVE  /\ B!Counts(lines) \in [0..n -> Locals] /\ Len(lines) = n
         /\ B!Counts(lines)[0] = [count |-> 0, obsoleting |-> FALSE]
         /\ \A i \in 1..n : B!Counts(lines)[i] = Counted(lines[i], B!Counts(lines)[i - 1])
  <1> DEFINE start == [count |-> 0, obsoleting |-> FALSE]
             Defines(f) == f = [i \in 0..n |-> IF i = 0 THEN start ELSE Counted(lines[i], f[i - 1])]
             step == [p \in (1..n) \X Locals |-> Counted(lines[p[1]], p[2])]
  <1>1. Len(lines) = n
    OBVIOUS
  <1>2. B!Counts(lines) = CHOOSE f : Defines(f)
    BY <1>1, Zenon DEF B!Counts, Counted
  <1>3. start \in Locals /\ \A line : \A before \in Locals : Counted(line, before) \in Locals
    BY DEF Locals, Counted
  <1>4. \E f : Defines(f)
    <2>1. step \in [(1..n) \X Locals -> Locals]
      BY <1>3
    <2>2. \A i \in 1..n, c \in Locals : step[<<i, c>>] = Counted(lines[i], c)
      OBVIOUS
    <2> HIDE DEF step, start
    <2>3. PICK f : Follows(f, n, Locals, start, step)
      BY <1>3, <2>1, Recursion, Zenon
    <2>4. \A i \in 1..n : f[i] = Counted(lines[i], f[i - 1])
      <3>1. \A i \in 1..n : f[i - 1] \in Locals
        BY <2>3 DEF Follows
      <3> QED
        BY <2>2, <2>3, <3>1 DEF Follows
    <2>5. Defines(f)
      <3>1. f = [i \in 0..n |-> f[i]]
        BY <2>3 DEF Follows
      <3>2. \A i \in 0..n : f[i] = IF i = 0 THEN start ELSE Counted(lines[i], f[i - 1])
        BY <2>3, <2>4 DEF Follows
      <3> QED
        BY <3>1, <3>2, Zenon
    <2> HIDE DEF Defines
    <2> QED
      BY <2>5
  <1>5. Defines(B!Counts(lines))
    <2> HIDE DEF Defines
    <2> QED
      BY <1>2, <1>4
  <1> HIDE DEF start
  <1>6. /\ B!Counts(lines)[0] = start
        /\ \A i \in 1..n : B!Counts(lines)[i] = Counted(lines[i], B!Counts(lines)[i - 1])
    BY <1>5
  <1>7. \A i \in 0..n : B!Counts(lines)[i] \in Locals
    <2> DEFINE P == {j \in 0..n : B!Counts(lines)[j] \in Locals}
    <2>1. 0 \in P
      BY <1>3, <1>6
    <2>2. ASSUME NEW i \in 1..n, i - 1 \in P PROVE i \in P
      BY <1>3, <1>6, <2>2
    <2> HIDE DEF P
    <2>3. \A i \in 0..n : i \in P
      BY <2>1, <2>2, Upwards
    <2> QED
      BY <2>3 DEF P
  <1> QED
    BY <1>1, <1>5, <1>6, <1>7 DEF start

\* The loop counts the packages that no block of obsoleting packages holds.
Obsoletes(lines, k) ==
  \E h \in 1..k : lines[h] = "obsoleting" /\ \A b \in h..k : lines[b] # "blank"
Upgrades(lines, m) == {k \in 1..m : lines[k] = "package" /\ ~Obsoletes(lines, k)}

LEMMA CountsUpgrades ==
  ASSUME NEW n \in Nat, NEW lines \in [1..n -> Kinds]
  PROVE  B!CountCheckUpdate(lines) = Cardinality(Upgrades(lines, n))
  <1> DEFINE at == B!Counts(lines)
             P == {i \in 0..n : /\ IsFiniteSet(Upgrades(lines, i))
                                /\ at[i].count = Cardinality(Upgrades(lines, i))
                                /\ at[i].obsoleting <=> Obsoletes(lines, i)}
  <1>1. /\ at \in [0..n -> Locals] /\ Len(lines) = n
        /\ at[0] = [count |-> 0, obsoleting |-> FALSE]
        /\ \A i \in 1..n : at[i] = Counted(lines[i], at[i - 1])
    BY CountsFacts, Zenon
  <1> HIDE DEF at
  <1>2. 0 \in P
    <2>1. Upgrades(lines, 0) = {} /\ ~Obsoletes(lines, 0)
      BY DEF Upgrades, Obsoletes
    <2>2. IsFiniteSet({}) /\ Cardinality({}) = 0
      BY FS_EmptySet
    <2>3. at[0].count = 0 /\ at[0].obsoleting = FALSE
      BY <1>1
    <2>4. IsFiniteSet(Upgrades(lines, 0)) /\ at[0].count = Cardinality(Upgrades(lines, 0))
      BY <2>1, <2>2, <2>3, Zenon
    <2>5. at[0].obsoleting <=> Obsoletes(lines, 0)
      BY <2>1, <2>3, Zenon
    <2> QED
      BY <2>4, <2>5
  <1>3. ASSUME NEW i \in 1..n, i - 1 \in P PROVE i \in P
    <2>1. /\ i - 1 \in 0..n /\ at[i - 1] \in Locals /\ at[i] = Counted(lines[i], at[i - 1])
          /\ lines[i] \in Kinds
      BY <1>1
    <2>2. /\ IsFiniteSet(Upgrades(lines, i - 1))
          /\ at[i - 1].count = Cardinality(Upgrades(lines, i - 1))
          /\ at[i - 1].obsoleting <=> Obsoletes(lines, i - 1)
      BY <1>3
    <2>3. CASE lines[i] = "blank"
      <3>1. ~Obsoletes(lines, i)
        BY <2>3 DEF Obsoletes
      <3>2. Upgrades(lines, i) = Upgrades(lines, i - 1)
        BY <2>3 DEF Upgrades
      <3>3. at[i] = [count |-> at[i - 1].count, obsoleting |-> FALSE]
        BY <2>1, <2>3 DEF Counted
      <3> QED
        BY <2>2, <3>1, <3>2, <3>3
    <2>4. CASE lines[i] = "obsoleting"
      <3>1. Obsoletes(lines, i)
        BY <2>4 DEF Obsoletes
      <3>2. Upgrades(lines, i) = Upgrades(lines, i - 1)
        BY <2>4 DEF Upgrades
      <3>3. at[i] = [count |-> at[i - 1].count, obsoleting |-> TRUE]
        BY <2>1, <2>4 DEF Counted
      <3> QED
        BY <2>2, <3>1, <3>2, <3>3
    <2>5. CASE lines[i] = "package"
      <3>1. Obsoletes(lines, i) <=> Obsoletes(lines, i - 1)
        BY <2>5 DEF Obsoletes
      <3>2. CASE Obsoletes(lines, i - 1)
        <4>1. Upgrades(lines, i) = Upgrades(lines, i - 1)
          BY <3>1, <3>2 DEF Upgrades
        <4>2. at[i] = at[i - 1]
          BY <2>1, <2>2, <2>5, <3>2 DEF Counted
        <4> QED
          BY <2>2, <3>1, <4>1, <4>2
      <3>3. CASE ~Obsoletes(lines, i - 1)
        <4>1. Upgrades(lines, i) = Upgrades(lines, i - 1) \union {i} /\ i \notin Upgrades(lines, i - 1)
          BY <2>5, <3>1, <3>3 DEF Upgrades
        <4>2. at[i] = [count |-> at[i - 1].count + 1, obsoleting |-> FALSE]
          BY <2>1, <2>2, <2>5, <3>3 DEF Counted
        <4>3. /\ IsFiniteSet(Upgrades(lines, i))
              /\ Cardinality(Upgrades(lines, i)) = Cardinality(Upgrades(lines, i - 1)) + 1
          <5> DEFINE U == Upgrades(lines, i - 1)
          <5> HIDE DEF U
          <5>1. IsFiniteSet(U)
            BY <2>2 DEF U
          <5>2. /\ IsFiniteSet(U \union {i})
                /\ Cardinality(U \union {i}) = IF i \in U THEN Cardinality(U) ELSE Cardinality(U) + 1
            BY <5>1, FS_AddElement, Zenon
          <5> QED
            BY <4>1, <5>2, Zenon DEF U
        <4>4. at[i].count = at[i - 1].count + 1 /\ at[i].obsoleting = FALSE
          BY <4>2
        <4>5. at[i].count = Cardinality(Upgrades(lines, i))
          BY <2>2, <4>3, <4>4, Zenon
        <4>6. at[i].obsoleting <=> Obsoletes(lines, i)
          BY <3>1, <3>3, <4>4
        <4>7. i \in 0..n
          OBVIOUS
        <4> QED
          BY <4>3, <4>5, <4>6, <4>7, Zenon
      <3> QED
        BY <3>2, <3>3
    <2> QED
      BY <2>1, <2>3, <2>4, <2>5 DEF Kinds
  <1> HIDE DEF P
  <1>4. n \in P
    <2>1. \A i \in 0..n : i \in P
      BY <1>2, <1>3, Upwards
    <2> QED
      BY <2>1
  <1> QED
    BY <1>1, <1>4 DEF P, at, B!CountCheckUpdate

-----------------------------------------------------------------------------
(* Builtin: the sources are visited in their order, and none is skipped that *)
(* a metric asks for.                                                        *)

Order == 1..11

LEMMA SourceFacts ==
  /\ DOMAIN B!Sources = Order /\ Len(B!Sources) = 11
  /\ B!ToSet(B!Sources) = {B!Sources[i] : i \in Order}
  /\ \A i, j \in Order : B!Sources[i] = B!Sources[j] => i = j
  /\ \A i \in Order : B!Sources[i] \notin {"verify", "done", "raised", "timings"}
  BY DEF B!Sources, B!ToSet, Order

\* What After finds: the next source that is wanted, or "done" if there is none.
LEMMA FromFacts ==
  ASSUME NEW i \in 1..12
  PROVE  \/ B!From(i) = "done" /\ \A j \in i..11 : ~B!Wanted(B!Sources[j])
         \/ \E j \in i..11 : /\ B!From(i) = B!Sources[j] /\ B!Wanted(B!Sources[j])
                            /\ \A k \in i..(j - 1) : ~B!Wanted(B!Sources[k])
  <1> DEFINE ahead == {j \in i..11 : B!Wanted(B!Sources[j])}
  <1>1. B!From(i) = IF ahead = {} THEN "done"
                    ELSE B!Sources[CHOOSE j \in ahead : \A k \in ahead : j <= k]
    BY SourceFacts DEF B!From
  <1>2. CASE ahead = {}
    BY <1>1, <1>2
  <1>3. CASE ahead # {}
    <2>1. PICK m \in ahead : \A k \in ahead : m <= k
      BY <1>3, LeastNumber
    <2>2. PICK j \in ahead : /\ \A k \in ahead : j <= k
                             /\ B!From(i) = B!Sources[j]
      BY <1>1, <1>3, <2>1
    <2>3. \A k \in i..(j - 1) : ~B!Wanted(B!Sources[k])
      BY <2>2
    <2> QED
      BY <2>2, <2>3
  <1> QED
    BY <1>2, <1>3

LEMMA AfterFacts ==
  ASSUME NEW p \in Order
  PROVE  B!After(B!Sources[p]) = B!From(p + 1)
  <1>1. (CHOOSE i \in DOMAIN B!Sources : B!Sources[i] = B!Sources[p]) = p
    BY SourceFacts
  <1> QED
    BY <1>1 DEF B!After

\* The source whose visit gives a metric its result.
SourceOf(n) == IF input[n].source = "timings" THEN "runtime"
               ELSE IF input[n].source = "users" /\ B!Item(n) = "by_user" THEN "uids"
               ELSE input[n].source

Visited == {readings[i].source : i \in DOMAIN readings}

\* Everything wanted before the p-th source is visited, once, and nothing else.
Reached(p) ==
  /\ IF p = 12 THEN phase = "done" ELSE phase = B!Sources[p] /\ B!Wanted(B!Sources[p])
  /\ \A j \in 1..(p - 1) : B!Wanted(B!Sources[j]) => B!Sources[j] \in Visited
  /\ \A i \in DOMAIN readings : \E j \in 1..(p - 1) :
       readings[i].source = B!Sources[j] /\ B!Wanted(B!Sources[j])
  /\ \A i, j \in DOMAIN readings : readings[i].source = readings[j].source => i = j
  /\ DOMAIN results = {n \in DOMAIN input : SourceOf(n) \in Visited}
  /\ Len(readings) < p

BInv ==
  /\ input \in BuiltinConfigs
  /\ \E S : readings \in Seq(S)
  /\ phase = "verify" => readings = <<>> /\ results = <<>>
  /\ phase = "raised" => readings = <<>> /\ results = <<>> /\ ~B!Verified(input)
  /\ phase \notin {"verify", "raised"} => B!Verified(input) /\ \E p \in 1..12 : Reached(p)

\* Every metric of an accepted config has a source, and it is wanted.
LEMMA HasSource ==
  ASSUME B!Verified(input), NEW n \in DOMAIN input
  PROVE  \E i \in Order : SourceOf(n) = B!Sources[i] /\ B!Wanted(B!Sources[i])
  <1>1. input[n].source \in B!Known
    BY DEF B!Verified
  <1>2. SourceOf(n) \in B!ToSet(B!Sources)
    <2>1. {"runtime", "uids"} \subseteq B!ToSet(B!Sources)
      BY SourceFacts DEF Order, B!Sources
    <2> QED
      BY <1>1, <2>1 DEF B!Known, SourceOf
  <1>3. B!Wanted(SourceOf(n))
    BY <1>1, Zenon DEF B!Wanted, SourceOf, B!Of, B!Known
  <1> QED
    BY <1>2, <1>3, SourceFacts

LEMMA VisitFacts ==
  ASSUME BInv, NEW source, NEW text, NEW samples, B!Visit(source, text, samples),
         source \in B!ToSet(B!Sources)
  PROVE  /\ \E p \in Order : Reached(p) /\ source = B!Sources[p] /\ B!Wanted(source)
         /\ \E S : readings' \in Seq(S)
         /\ Len(readings) \in Nat /\ Len(readings') = Len(readings) + 1
         /\ DOMAIN readings = 1..Len(readings) /\ DOMAIN readings' = 1..(Len(readings) + 1)
         /\ \A k \in DOMAIN readings : readings'[k] = readings[k]
         /\ readings'[Len(readings) + 1] = [source |-> source, text |-> text]
         /\ source \notin Visited
  <1> DEFINE r == [source |-> source, text |-> text]
  <1>1. phase = source /\ readings' = Append(readings, r)
    BY DEF B!Visit
  <1>2. PICK i \in Order : source = B!Sources[i]
    BY SourceFacts
  <1>3. PICK p \in 1..12 : Reached(p)
    BY <1>1, <1>2, SourceFacts DEF BInv
  <1>4. p \in Order /\ source = B!Sources[p] /\ B!Wanted(source)
    BY <1>1, <1>2, <1>3, SourceFacts DEF Reached, Order
  <1>5. source \notin Visited
    <2> SUFFICES ASSUME NEW k \in DOMAIN readings, readings[k].source = source
                 PROVE  FALSE
      BY DEF Visited
    <2>1. PICK j \in 1..(p - 1) : readings[k].source = B!Sources[j]
      BY <1>3 DEF Reached
    <2>2. j \in Order /\ p \in Order /\ j # p
      BY <1>4 DEF Order
    <2>3. B!Sources[j] = B!Sources[p]
      BY <2>1, <1>4
    <2> QED
      BY <2>2, <2>3, SourceFacts
  <1>6. PICK S : readings \in Seq(S)
    BY DEF BInv
  <1> HIDE DEF r
  <1>7. /\ Append(readings, r) \in Seq(S \union {r})
        /\ Len(readings) \in Nat /\ DOMAIN readings = 1..Len(readings)
        /\ Len(Append(readings, r)) = Len(readings) + 1
        /\ DOMAIN Append(readings, r) = 1..(Len(readings) + 1)
        /\ \A k \in 1..Len(readings) : Append(readings, r)[k] = readings[k]
        /\ Append(readings, r)[Len(readings) + 1] = r
    BY <1>6, Appended
  <1>8. \E p0 \in Order : Reached(p0) /\ source = B!Sources[p0] /\ B!Wanted(source)
    BY <1>3, <1>4
  <1> QED
    BY <1>1, <1>5, <1>7, <1>8, Zenon DEF r

LEMMA VisitStep ==
  ASSUME BInv, NEW source, NEW text, NEW samples, B!Visit(source, text, samples),
         source \in B!ToSet(B!Sources),
         DOMAIN samples = {n \in DOMAIN input : SourceOf(n) = source}
  PROVE  BInv'
  <1>1. /\ phase = source /\ phase' = B!After(source) /\ input' = input
        /\ DOMAIN results' = DOMAIN samples \union DOMAIN results
    BY DEF B!Visit
  <1>2. PICK i \in Order : source = B!Sources[i]
    BY SourceFacts
  <1>3. PICK p \in Order : Reached(p) /\ source = B!Sources[p] /\ B!Wanted(source)
    BY VisitFacts
  <1>4. p \in Order /\ p \in 1..12 /\ source = B!Sources[p] /\ B!Wanted(source)
    BY <1>3 DEF Order
  <1>5. /\ \E S : readings' \in Seq(S)
        /\ DOMAIN readings = 1..Len(readings) /\ DOMAIN readings' = 1..(Len(readings) + 1)
        /\ Len(readings) \in Nat /\ Len(readings') = Len(readings) + 1
        /\ \A k \in DOMAIN readings : readings'[k] = readings[k]
        /\ readings'[Len(readings) + 1].source = source
    <2>1. readings'[Len(readings) + 1] = [source |-> source, text |-> text]
      BY VisitFacts, Zenon
    <2>2. readings'[Len(readings) + 1].source = source
      BY <2>1
    <2> QED
      BY <2>2, VisitFacts, Zenon
  <1>6. Visited' = Visited \union {source}
    BY <1>5 DEF Visited
  <1>7. /\ \A j \in Order : B!Wanted(B!Sources[j])' = B!Wanted(B!Sources[j])
        /\ \A n : SourceOf(n)' = SourceOf(n)
        /\ B!Verified(input)' = B!Verified(input)
    BY <1>1 DEF B!Wanted, B!Of, B!Item, SourceOf, B!Verified
  <1>8. source \notin Visited
    BY VisitFacts
  <1>9. \A k, l \in DOMAIN readings' : readings'[k].source = readings'[l].source => k = l
    BY <1>3, <1>5, <1>8 DEF Reached, Visited
  <1>10. DOMAIN results' = {n \in DOMAIN input : SourceOf(n) \in Visited'}
    BY <1>1, <1>3, <1>6 DEF Reached
  <1>11. B!Verified(input)
    BY <1>1, <1>2, SourceFacts DEF BInv
  <1>12. ASSUME NEW q \in (p + 1)..12,
                \A k \in (p + 1)..(q - 1) : ~B!Wanted(B!Sources[k]),
                IF q = 12 THEN phase' = "done" ELSE phase' = B!Sources[q] /\ B!Wanted(B!Sources[q])
         PROVE  Reached(q)'
    <2>1. \A j \in 1..(q - 1) : B!Wanted(B!Sources[j])' => B!Sources[j] \in Visited'
      BY <1>3, <1>4, <1>6, <1>7, <1>12 DEF Reached, Order
    <2>2. \A k \in DOMAIN readings' : \E j \in 1..(q - 1) :
             readings'[k].source = B!Sources[j] /\ B!Wanted(B!Sources[j])'
      <3>1. SUFFICES ASSUME NEW k \in DOMAIN readings'
                     PROVE  \E j \in Order : /\ j \in 1..(q - 1)
                                             /\ readings'[k].source = B!Sources[j]
                                             /\ B!Wanted(B!Sources[j])
        BY <1>7
      <3>2. CASE k \in DOMAIN readings
        <4>1. PICK j \in 1..(p - 1) : readings[k].source = B!Sources[j] /\ B!Wanted(B!Sources[j])
          BY <1>3, <3>2 DEF Reached
        <4>2. readings'[k] = readings[k]
          BY <1>5, <3>2
        <4>3. j \in Order /\ j \in 1..(q - 1)
          BY <1>4 DEF Order
        <4> QED
          BY <4>1, <4>2, <4>3
      <3>3. CASE k = Len(readings) + 1
        <4>1. readings'[k].source = B!Sources[p] /\ B!Wanted(B!Sources[p]) /\ p \in Order
          BY <1>4, <1>5, <3>3
        <4>2. p \in 1..(q - 1)
          BY <1>4 DEF Order
        <4> QED
          BY <4>1, <4>2
      <3> QED
        BY <1>5, <3>1, <3>2, <3>3
    <2>3. IF q = 12 THEN phase' = "done" ELSE phase' = B!Sources[q] /\ B!Wanted(B!Sources[q])'
      BY <1>4, <1>7, <1>12 DEF Order
    <2>4. Len(readings') < q
      <3>1. Len(readings) < p
        BY <1>3 DEF Reached
      <3> QED
        BY <1>5, <3>1 DEF Order
    <2> QED
      BY <1>1, <1>7, <1>9, <1>10, <2>1, <2>2, <2>3, <2>4 DEF Reached
  <1>13. \E q \in 1..12 : Reached(q)'
    <2>1. p + 1 \in 1..12 /\ phase' = B!From(p + 1)
      <3>1. p + 1 \in 1..12
        BY <1>4 DEF Order
      <3>2. B!After(B!Sources[p]) = B!From(p + 1)
        BY <1>4, AfterFacts
      <3> QED
        BY <1>1, <1>4, <3>1, <3>2
    <2>2. CASE phase' = "done" /\ \A j \in (p + 1)..11 : ~B!Wanted(B!Sources[j])
      BY <1>4, <1>12, <2>2 DEF Order
    <2>3. CASE \E j \in (p + 1)..11 : /\ phase' = B!Sources[j] /\ B!Wanted(B!Sources[j])
                                      /\ \A k \in (p + 1)..(j - 1) : ~B!Wanted(B!Sources[k])
      BY <1>4, <1>12, <2>3 DEF Order
    <2> QED
      BY <2>1, <2>2, <2>3, FromFacts
  <1>14. phase' \notin {"verify", "raised"}
    BY <1>13, SourceFacts DEF Reached, Order
  <1> QED
    BY <1>1, <1>5, <1>7, <1>11, <1>13, <1>14 DEF BInv

-----------------------------------------------------------------------------
(* What the results of a metric are, given what its source held.           *)

Fits(source, item, text, value) ==
  /\ source = "runtime" =>
       /\ text \in B!RuntimeStates
       /\ item = "scrapes" => value = text.scrapes
       /\ item = "scrape" => value = IF text.timings = None THEN 0 ELSE text.timings
  /\ source = "users" =>
       /\ text \in B!Texts(Users)
       /\ value = IF item = "count" THEN B!Cardinality(B!ToSet(B!Lines(text))) ELSE Len(B!Lines(text))
  /\ source = "packages" => text.run \in B!Runs /\ value = B!CountUpgradable(text.manager, text.run)
  /\ source = "reboot" /\ ~text.flag /\ text.code # 1 => value = 0
  /\ source = "memory" => text \in B!Texts(B!MemoryLines) /\ value = B!ParseMeminfo(B!Lines(text))[item]
  /\ source = "disk" => text \in B!Texts(B!Option(B!Filesystems)) /\ value = B!Total(B!Lines(text), item)
  /\ source \in {"processes", "cpus", "load", "network"} /\ text = None => value = 0

BData ==
  /\ \A i \in DOMAIN readings, n \in DOMAIN results :
       readings[i].source = SourceOf(n) => Fits(SourceOf(n), B!Item(n), readings[i].text, results[n])
  /\ \A i \in DOMAIN readings, n \in DOMAIN results :
       readings[i].source = "users" /\ SourceOf(n) = "uids" =>
         DOMAIN results[n] = B!ToSet(B!Lines(readings[i].text))

\* A visit leaves the results there are, and the users are read before their uids.
LEMMA VisitData ==
  ASSUME BInv, BData, NEW source, NEW text, NEW samples, B!Visit(source, text, samples),
         source \in B!ToSet(B!Sources),
         DOMAIN samples = {n \in DOMAIN input : SourceOf(n) = source},
         \A n \in DOMAIN samples : Fits(source, B!Item(n), text, samples[n]),
         \A n \in DOMAIN samples : source = "uids" =>
           DOMAIN samples[n] = B!ToSet(B!Lines(B!Held("users")))
  PROVE  BData'
  <1>1. PICK p \in Order : Reached(p) /\ source = B!Sources[p]
    BY VisitFacts
  <1>2. /\ DOMAIN readings = 1..Len(readings) /\ DOMAIN readings' = 1..(Len(readings) + 1)
        /\ Len(readings) \in Nat
        /\ \A k \in DOMAIN readings : readings'[k] = readings[k]
        /\ source \notin Visited
    BY VisitFacts, Zenon
  <1>3. /\ readings'[Len(readings) + 1].source = source
        /\ readings'[Len(readings) + 1].text = text
    <2>1. readings'[Len(readings) + 1] = [source |-> source, text |-> text]
      BY VisitFacts, Zenon
    <2> QED
      BY <2>1
  <1>4. /\ input' = input
        /\ DOMAIN results' = DOMAIN samples \union DOMAIN results
        /\ \A n \in DOMAIN samples : results'[n] = samples[n]
        /\ \A n \in DOMAIN results \ DOMAIN samples : results'[n] = results[n]
    BY DEF B!Visit
  <1>5. /\ \A n : SourceOf(n)' = SourceOf(n) /\ B!Item(n)' = B!Item(n)
    BY <1>4 DEF SourceOf, B!Item
  <1>6. /\ DOMAIN results = {n \in DOMAIN input : SourceOf(n) \in Visited}
        /\ \A n \in DOMAIN results : n \notin DOMAIN samples
    BY <1>1, <1>2 DEF Reached
  <1>7. ASSUME NEW i \in DOMAIN readings', NEW n \in DOMAIN results'
        PROVE  /\ readings'[i].source = SourceOf(n) =>
                    Fits(SourceOf(n), B!Item(n), readings'[i].text, results'[n])
               /\ readings'[i].source = "users" /\ SourceOf(n) = "uids" =>
                    DOMAIN results'[n] = B!ToSet(B!Lines(readings'[i].text))
    <2>1. CASE i \in DOMAIN readings /\ n \in DOMAIN results
      <3>1. readings'[i] = readings[i] /\ results'[n] = results[n]
        BY <1>2, <1>4, <1>6, <2>1
      <3> QED
        BY <2>1, <3>1 DEF BData
    <2>2. CASE i \in DOMAIN readings /\ n \in DOMAIN samples
      <3>1. readings'[i] = readings[i] /\ results'[n] = samples[n] /\ SourceOf(n) = source
        BY <1>2, <1>4, <2>2
      <3>2. readings[i].source # source
        BY <1>2, <2>2 DEF Visited
      <3>3. ASSUME readings[i].source = "users" PROVE B!Held("users") = readings[i].text
        <4>1. \A j \in DOMAIN readings : readings[j].source = "users" => j = i
          BY <1>1, <2>2, <3>3 DEF Reached
        <4>2. (CHOOSE j \in DOMAIN readings : readings[j].source = "users") = i
          BY <2>2, <3>3, <4>1
        <4> QED
          BY <4>2 DEF B!Held
      <3> QED
        BY <2>2, <3>1, <3>2, <3>3
    <2>3. CASE i = Len(readings) + 1 /\ n \in DOMAIN results
      <3>1. SourceOf(n) # source /\ SourceOf(n) \in Visited
        BY <1>2, <1>6, <2>3
      <3>2. ASSUME source = "users", SourceOf(n) = "uids" PROVE FALSE
        <4>1. PICK k \in DOMAIN readings : readings[k].source = "uids"
          BY <3>1, <3>2 DEF Visited
        <4>2. PICK j \in 1..(p - 1) : B!Sources[j] = "uids"
          BY <1>1, <4>1 DEF Reached
        <4>3. B!Sources[2] = "users" /\ B!Sources[3] = "uids" /\ 2 \in Order /\ 3 \in Order
          BY DEF B!Sources, Order
        <4>4. p = 2
          BY <1>1, <3>2, <4>3, SourceFacts
        <4>5. j = 1 /\ j \in Order
          BY <4>2, <4>4 DEF Order
        <4>6. j = 3
          BY <4>2, <4>3, <4>5, SourceFacts
        <4> QED
          BY <4>5, <4>6
      <3> QED
        BY <1>3, <2>3, <3>1, <3>2
    <2>4. CASE i = Len(readings) + 1 /\ n \in DOMAIN samples
      <3>1. SourceOf(n) = source /\ results'[n] = samples[n]
        BY <1>4, <2>4
      <3> QED
        BY <1>3, <2>4, <3>1
    <2> QED
      BY <1>2, <1>4, <2>1, <2>2, <2>3, <2>4
  <1> QED
    BY <1>5, <1>7 DEF BData

\* The metrics whose results the visit of each source gives.
LEMMA Given ==
  ASSUME B!Verified(input)
  PROVE  /\ B!Of("runtime") \union B!Of("timings") = {n \in DOMAIN input : SourceOf(n) = "runtime"}
         /\ {n \in B!Of("users") : B!Item(n) # "by_user"} = {n \in DOMAIN input : SourceOf(n) = "users"}
         /\ {n \in B!Of("users") : B!Item(n) = "by_user"} = {n \in DOMAIN input : SourceOf(n) = "uids"}
         /\ \A s \in {"processes", "packages", "reboot", "cpus", "load", "memory", "disk", "network"} :
              B!Of(s) = {n \in DOMAIN input : SourceOf(n) = s}
  <1>1. \A n \in DOMAIN input : input[n].source # "uids"
    BY DEF B!Verified, B!Known
  <1>2. B!Of("runtime") \union B!Of("timings") = {n \in DOMAIN input : SourceOf(n) = "runtime"}
    BY DEF B!Of, SourceOf
  <1>3. {n \in B!Of("users") : B!Item(n) # "by_user"} = {n \in DOMAIN input : SourceOf(n) = "users"}
    BY DEF B!Of, SourceOf
  <1>4. {n \in B!Of("users") : B!Item(n) = "by_user"} = {n \in DOMAIN input : SourceOf(n) = "uids"}
    BY <1>1 DEF B!Of, SourceOf
  <1>5. ASSUME NEW s \in {"processes", "packages", "reboot", "cpus", "load", "memory", "disk", "network"}
        PROVE  B!Of(s) = {n \in DOMAIN input : SourceOf(n) = s}
    BY DEF B!Of, SourceOf
  <1> QED
    BY <1>2, <1>3, <1>4, <1>5

LEMMA VerifyStep == BInv /\ B!Verify => BInv' /\ BData'
  <1> SUFFICES ASSUME BInv, B!Verify PROVE BInv' /\ BData'
    OBVIOUS
  <1>1. /\ readings = <<>> /\ results = <<>> /\ readings' = <<>> /\ results' = <<>> /\ input' = input
        /\ \E S : readings' \in Seq(S)
    BY DEF BInv, B!Verify
  <1>2. B!Verified(input)' = B!Verified(input)
    BY <1>1 DEF B!Verified, B!Item
  <1> SUFFICES BInv'
    <2>1. DOMAIN readings' = {}
      BY <1>1
    <2> QED
      BY <2>1 DEF BData
  <1>3. CASE ~B!Verified(input)
    BY <1>1, <1>2, <1>3 DEF BInv, B!Verify
  <1>4. CASE B!Verified(input)
    <2>1. phase' = B!From(1)
      BY <1>4 DEF B!Verify
    <2>2. /\ DOMAIN readings' = {} /\ DOMAIN results' = {} /\ Visited' = {}
      BY <1>1 DEF Visited
    <2>3. \A j \in Order : B!Wanted(B!Sources[j])' = B!Wanted(B!Sources[j])
      BY <1>1 DEF B!Wanted, B!Of, B!Item
    <2>4. ASSUME NEW q \in 1..12, \A k \in 1..(q - 1) : ~B!Wanted(B!Sources[k]),
                 IF q = 12 THEN phase' = "done" ELSE phase' = B!Sources[q] /\ B!Wanted(B!Sources[q])
          PROVE  Reached(q)'
      <3>1. IF q = 12 THEN phase' = "done" ELSE phase' = B!Sources[q] /\ B!Wanted(B!Sources[q])'
        BY <2>3, <2>4 DEF Order
      <3>2. \A k \in 1..(q - 1) : ~B!Wanted(B!Sources[k])'
        BY <2>3, <2>4 DEF Order
      <3> QED
        BY <2>2, <3>1, <3>2 DEF Reached
    <2>5. CASE phase' = "done" /\ \A j \in 1..11 : ~B!Wanted(B!Sources[j])
      <3>1. Reached(12)'
        BY <2>4, <2>5
      <3> QED
        BY <1>1, <1>2, <1>4, <2>5, <3>1 DEF BInv
    <2>6. CASE \E j \in 1..11 : /\ phase' = B!Sources[j] /\ B!Wanted(B!Sources[j])
                                /\ \A k \in 1..(j - 1) : ~B!Wanted(B!Sources[k])
      <3>1. PICK j \in Order : Reached(j)' /\ phase' = B!Sources[j]
        BY <2>4, <2>6 DEF Order
      <3>2. phase' \notin {"verify", "raised"} /\ j \in 1..12
        BY <3>1, SourceFacts DEF Order
      <3> QED
        BY <1>1, <1>2, <1>4, <3>1, <3>2 DEF BInv
    <2> QED
      BY <2>1, <2>5, <2>6, FromFacts
  <1> QED
    BY <1>3, <1>4

\* The providers do not raise: every timings metric is about an active handler.
LEMMA ProvidersStep ==
  ASSUME BInv, BData, NEW rt \in B!RuntimeStates, B!Providers(rt)
  PROVE  BInv' /\ BData'
  <1>1. phase = "runtime"
    BY DEF B!Providers, B!Visit
  <1>2. B!Verified(input)
    BY <1>1 DEF BInv
  <1>3. \A n \in B!Of("timings") : ~B!Unrecorded(n, rt.timings)
    BY <1>2 DEF B!Verified, B!Of, B!Unrecorded, B!Item
  <1> DEFINE samples == [n \in B!Of("runtime") \union B!Of("timings") |-> B!Provided(n, rt)]
  <1>4. B!Visit("runtime", rt, samples)
    BY <1>3 DEF B!Providers
  <1>5. DOMAIN samples = {n \in DOMAIN input : SourceOf(n) = "runtime"}
    BY <1>2, Given
  <1>6. "runtime" \in B!ToSet(B!Sources)
    BY SourceFacts DEF Order, B!Sources
  <1>7. \A n \in DOMAIN samples : Fits("runtime", B!Item(n), rt, samples[n])
    BY DEF Fits, B!Provided
  <1> HIDE DEF samples
  <1> QED
    BY <1>4, <1>5, <1>6, <1>7, VisitStep, VisitData

\* Any other source: its samples are for the metrics that ask for it.
LEMMA SourceStep ==
  ASSUME BInv, BData,
         NEW source \in {"users", "uids", "processes", "packages", "reboot", "cpus",
                         "load", "memory", "disk", "network"},
         NEW text, NEW samples, B!Visit(source, text, samples),
         DOMAIN samples = IF source = "users" THEN {n \in B!Of("users") : B!Item(n) # "by_user"}
                          ELSE IF source = "uids" THEN {n \in B!Of("users") : B!Item(n) = "by_user"}
                          ELSE B!Of(source),
         \A n \in DOMAIN samples : Fits(source, B!Item(n), text, samples[n]),
         \A n \in DOMAIN samples : source = "uids" =>
           DOMAIN samples[n] = B!ToSet(B!Lines(B!Held("users")))
  PROVE  BInv' /\ BData'
  <1>1. phase = source
    BY DEF B!Visit
  <1>2. B!Verified(input)
    BY <1>1 DEF BInv
  <1>3. DOMAIN samples = {n \in DOMAIN input : SourceOf(n) = source}
    BY <1>2, Given
  <1>4. source \in B!ToSet(B!Sources)
    BY SourceFacts DEF Order, B!Sources
  <1> QED
    BY <1>3, <1>4, VisitStep, VisitData

LEMMA BuiltinStep == BInv /\ BData /\ B!Next => BInv' /\ BData'
  <1> SUFFICES ASSUME BInv, BData, B!Next PROVE BInv' /\ BData'
    OBVIOUS
  <1>1. CASE B!Verify
    BY <1>1, VerifyStep
  <1>2. CASE \E rt \in B!RuntimeStates : B!Providers(rt)
    BY <1>2, ProvidersStep
  <1>3. CASE \E who \in B!Texts(Users) : B!CollectWho(who)
    <2> SUFFICES ASSUME NEW who \in B!Texts(Users), B!CollectWho(who) PROVE BInv' /\ BData'
      BY <1>3
    <2> DEFINE samples == [n \in {m \in B!Of("users") : B!Item(m) # "by_user"} |->
                            IF B!Item(n) = "count" THEN B!Cardinality(B!ToSet(B!Lines(who))) ELSE Len(B!Lines(who))]
    <2>1. B!Visit("users", who, samples)
      BY DEF B!CollectWho
    <2>2. DOMAIN samples = {n \in B!Of("users") : B!Item(n) # "by_user"}
      OBVIOUS
    <2>3. \A n \in DOMAIN samples : Fits("users", B!Item(n), who, samples[n])
      BY DEF Fits
    <2> HIDE DEF samples
    <2> QED
      BY <2>1, <2>2, <2>3, SourceStep
  <1>4. CASE \E passwd \in [Users -> B!Option(Numbers)] : B!UserUids(passwd)
    <2> SUFFICES ASSUME NEW passwd \in [Users -> B!Option(Numbers)], B!UserUids(passwd) PROVE BInv' /\ BData'
      BY <1>4
    <2> DEFINE samples == [n \in {m \in B!Of("users") : B!Item(m) = "by_user"} |->
                            [u \in B!ToSet(B!Lines(B!Held("users"))) |->
                               IF passwd[u] = None THEN 0 ELSE passwd[u]]]
    <2>1. B!Visit("uids", passwd, samples)
      BY DEF B!UserUids
    <2>2. DOMAIN samples = {n \in B!Of("users") : B!Item(n) = "by_user"}
      OBVIOUS
    <2>3. \A n \in DOMAIN samples : Fits("uids", B!Item(n), passwd, samples[n])
      BY DEF Fits
    <2>4. \A n \in DOMAIN samples : DOMAIN samples[n] = B!ToSet(B!Lines(B!Held("users")))
      OBVIOUS
    <2> HIDE DEF samples
    <2> QED
      BY <2>1, <2>2, <2>3, <2>4, SourceStep
  <1>5. CASE \E ps \in B!Option(0..MaxLines) : B!CountProcesses(ps)
    <2> SUFFICES ASSUME NEW ps \in B!Option(0..MaxLines), B!CountProcesses(ps) PROVE BInv' /\ BData'
      BY <1>5
    <2> DEFINE samples == [n \in B!Of("processes") |-> B!Positive((IF ps = None THEN 0 ELSE ps) - 1)]
    <2>1. B!Visit("processes", ps, samples)
      BY DEF B!CountProcesses
    <2>2. DOMAIN samples = B!Of("processes")
      OBVIOUS
    <2>3. \A n \in DOMAIN samples : Fits("processes", B!Item(n), ps, samples[n])
      BY DEF Fits, B!Positive
    <2> HIDE DEF samples
    <2> QED
      BY <2>1, <2>2, <2>3, SourceStep
  <1>6. CASE \E family \in {"debian", "rhel", "other"}, tools \in SUBSET {"apt-get", "dnf", "yum"},
            run \in B!Runs : B!Packages(B!PackageManager(family, tools), run)
    <2> SUFFICES ASSUME NEW manager, NEW run \in B!Runs, B!Packages(manager, run) PROVE BInv' /\ BData'
      BY <1>6
    <2> DEFINE samples == [n \in B!Of("packages") |-> B!CountUpgradable(manager, run)]
    <2>1. B!Visit("packages", [manager |-> manager, run |-> run], samples)
      BY DEF B!Packages
    <2>2. DOMAIN samples = B!Of("packages")
      OBVIOUS
    <2>3. \A n \in DOMAIN samples : Fits("packages", B!Item(n), [manager |-> manager, run |-> run], samples[n])
      BY DEF Fits
    <2> HIDE DEF samples
    <2> QED
      BY <2>1, <2>2, <2>3, SourceStep
  <1>7. CASE \E flag, tool \in BOOLEAN, code \in B!Option({0, 1, 100}) : B!Reboot(flag, tool, code)
    <2> SUFFICES ASSUME NEW flag, NEW tool, NEW code, B!Reboot(flag, tool, code) PROVE BInv' /\ BData'
      BY <1>7
    <2> DEFINE samples == [n \in B!Of("reboot") |-> IF flag \/ (tool /\ code = 1) THEN 1 ELSE 0]
    <2>1. B!Visit("reboot", [flag |-> flag, code |-> IF flag \/ ~tool THEN None ELSE code], samples)
      BY DEF B!Reboot
    <2>2. DOMAIN samples = B!Of("reboot")
      OBVIOUS
    <2>3. \A n \in DOMAIN samples : Fits("reboot", B!Item(n), [flag |-> flag, code |-> IF flag \/ ~tool THEN None ELSE code], samples[n])
      BY DEF Fits
    <2> HIDE DEF samples
    <2> QED
      BY <2>1, <2>2, <2>3, SourceStep
  <1>8. CASE \E cpus \in B!Option(Numbers) : B!CpuCount(cpus)
    <2> SUFFICES ASSUME NEW cpus, B!CpuCount(cpus) PROVE BInv' /\ BData'
      BY <1>8
    <2> DEFINE samples == [n \in B!Of("cpus") |-> IF cpus = None THEN 0 ELSE cpus]
    <2>1. B!Visit("cpus", cpus, samples)
      BY DEF B!CpuCount
    <2>2. DOMAIN samples = B!Of("cpus")
      OBVIOUS
    <2>3. \A n \in DOMAIN samples : Fits("cpus", B!Item(n), cpus, samples[n])
      BY DEF Fits
    <2> HIDE DEF samples
    <2> QED
      BY <2>1, <2>2, <2>3, SourceStep
  <1>9. CASE \E fields \in B!Texts(B!Option(Numbers)) : B!ReadLoad(fields)
    <2> SUFFICES ASSUME NEW fields, B!ReadLoad(fields) PROVE BInv' /\ BData'
      BY <1>9
    <2> DEFINE samples == [n \in B!Of("load") |->
                            LET i == B!LoadField[B!Item(n)]
                            IN IF i \in DOMAIN B!Lines(fields) /\ fields[i] # None THEN fields[i] ELSE 0]
    <2>1. B!Visit("load", fields, samples)
      BY DEF B!ReadLoad
    <2>2. DOMAIN samples = B!Of("load")
      OBVIOUS
    <2>3. \A n \in DOMAIN samples : Fits("load", B!Item(n), fields, samples[n])
      BY DEF Fits, B!Lines
    <2> HIDE DEF samples
    <2> QED
      BY <2>1, <2>2, <2>3, SourceStep
  <1>10. CASE \E text \in B!Texts(B!MemoryLines) : B!ReadMemory(text)
    <2> SUFFICES ASSUME NEW text \in B!Texts(B!MemoryLines), B!ReadMemory(text) PROVE BInv' /\ BData'
      BY <1>10
    <2> DEFINE samples == [n \in B!Of("memory") |-> B!ParseMeminfo(B!Lines(text))[B!Item(n)]]
    <2>1. B!Visit("memory", text, samples)
      BY DEF B!ReadMemory
    <2>2. DOMAIN samples = B!Of("memory")
      OBVIOUS
    <2>3. \A n \in DOMAIN samples : Fits("memory", B!Item(n), text, samples[n])
      BY DEF Fits
    <2> HIDE DEF samples
    <2> QED
      BY <2>1, <2>2, <2>3, SourceStep
  <1>11. CASE \E rows \in B!Texts(B!Option(B!Filesystems)) : B!ReadDisk(rows)
    <2> SUFFICES ASSUME NEW rows \in B!Texts(B!Option(B!Filesystems)), B!ReadDisk(rows) PROVE BInv' /\ BData'
      BY <1>11
    <2> DEFINE samples == [n \in B!Of("disk") |-> B!Total(B!Lines(rows), B!Item(n))]
    <2>1. B!Visit("disk", rows, samples)
      BY DEF B!ReadDisk
    <2>2. DOMAIN samples = B!Of("disk")
      OBVIOUS
    <2>3. \A n \in DOMAIN samples : Fits("disk", B!Item(n), rows, samples[n])
      BY DEF Fits
    <2> HIDE DEF samples
    <2> QED
      BY <2>1, <2>2, <2>3, SourceStep
  <1>12. CASE \E rows \in B!Texts(B!Option([received : Numbers, transmitted : Numbers])) : B!ReadNetwork(rows)
    <2> SUFFICES ASSUME NEW rows, B!ReadNetwork(rows) PROVE BInv' /\ BData'
      BY <1>12
    <2> DEFINE samples == [n \in B!Of("network") |-> B!Total(B!Lines(rows), B!Item(n))]
    <2>1. B!Visit("network", rows, samples)
      BY DEF B!ReadNetwork
    <2>2. DOMAIN samples = B!Of("network")
      OBVIOUS
    <2>3. \A n \in DOMAIN samples : Fits("network", B!Item(n), rows, samples[n])
      BY NothingToSum DEF Fits, B!Lines
    <2> HIDE DEF samples
    <2> QED
      BY <2>1, <2>2, <2>3, SourceStep
  <1> QED
    BY <1>1, <1>2, <1>3, <1>4, <1>5, <1>6, <1>7, <1>8, <1>9, <1>10, <1>11, <1>12 DEF B!Next

-----------------------------------------------------------------------------
(* What follows of the results.                                            *)

LEMMA OneReading ==
  ASSUME BInv
  PROVE  /\ \A i, j \in DOMAIN readings : readings[i].source = readings[j].source => i = j
         /\ DOMAIN results = {n \in DOMAIN input : SourceOf(n) \in Visited}
  <1>1. CASE phase \in {"verify", "raised"}
    <2>1. DOMAIN readings = {} /\ DOMAIN results = {} /\ Visited = {}
      BY <1>1 DEF BInv, Visited
    <2> QED
      BY <2>1
  <1>2. CASE phase \notin {"verify", "raised"}
    BY <1>2 DEF BInv, Reached
  <1> QED
    BY <1>1, <1>2

\* The one reading a result is made of.
LEMMA MadeOf ==
  ASSUME BInv, BData, NEW source, NEW n \in DOMAIN results, SourceOf(n) = source
  PROVE  \E i \in DOMAIN readings :
           readings[i].source = source /\ Fits(source, B!Item(n), readings[i].text, results[n])
  <1>1. PICK i \in DOMAIN readings : readings[i].source = source
    BY OneReading DEF Visited
  <1> QED
    BY <1>1 DEF BData

LEMMA MemoryAgrees ==
  ASSUME BInv, BData,
         NEW t \in B!Shown("memory", "total"), NEW a \in B!Shown("memory", "available"),
         NEW u \in B!Shown("memory", "used")
  PROVE  t = a + u
  <1>1. PICK n \in DOMAIN results : SourceOf(n) = "memory" /\ B!Item(n) = "total" /\ results[n] = t
    BY DEF B!Shown, B!Of, SourceOf
  <1>2. PICK m \in DOMAIN results : SourceOf(m) = "memory" /\ B!Item(m) = "available" /\ results[m] = a
    BY DEF B!Shown, B!Of, SourceOf
  <1>3. PICK l \in DOMAIN results : SourceOf(l) = "memory" /\ B!Item(l) = "used" /\ results[l] = u
    BY DEF B!Shown, B!Of, SourceOf
  <1>4. PICK i \in DOMAIN readings :
          readings[i].source = "memory" /\ Fits("memory", "total", readings[i].text, t)
    BY <1>1, MadeOf
  <1>5. Fits("memory", "available", readings[i].text, a) /\ Fits("memory", "used", readings[i].text, u)
    BY <1>2, <1>3, <1>4 DEF BData
  <1> DEFINE lines == B!Lines(readings[i].text)
  <1>6. /\ B!MemoryLine(lines, "total") \in Int /\ B!MemoryLine(lines, "available") \in Int
    BY <1>4, MemoryNumbers DEF Fits
  <1> HIDE DEF lines
  <1>7. /\ t = B!ParseMeminfo(lines)["total"] /\ a = B!ParseMeminfo(lines)["available"]
        /\ u = B!ParseMeminfo(lines)["used"]
    BY <1>4, <1>5 DEF Fits, lines
  <1>8. /\ t = B!MemoryLine(lines, "total") /\ a = B!MemoryLine(lines, "available")
        /\ u = B!MemoryLine(lines, "total") - B!MemoryLine(lines, "available")
    BY <1>7 DEF B!ParseMeminfo
  <1> QED
    BY <1>6, <1>8

LEMMA DiskAgrees ==
  ASSUME BInv, BData,
         NEW t \in B!Shown("disk", "total"), NEW a \in B!Shown("disk", "available"),
         NEW u \in B!Shown("disk", "used")
  PROVE  u + a <= t
  <1>1. PICK n \in DOMAIN results : SourceOf(n) = "disk" /\ B!Item(n) = "total" /\ results[n] = t
    BY DEF B!Shown, B!Of, SourceOf
  <1>2. PICK m \in DOMAIN results : SourceOf(m) = "disk" /\ B!Item(m) = "available" /\ results[m] = a
    BY DEF B!Shown, B!Of, SourceOf
  <1>3. PICK l \in DOMAIN results : SourceOf(l) = "disk" /\ B!Item(l) = "used" /\ results[l] = u
    BY DEF B!Shown, B!Of, SourceOf
  <1>4. PICK i \in DOMAIN readings :
          readings[i].source = "disk" /\ Fits("disk", "total", readings[i].text, t)
    BY <1>1, MadeOf
  <1>5. Fits("disk", "available", readings[i].text, a) /\ Fits("disk", "used", readings[i].text, u)
    BY <1>2, <1>3, <1>4 DEF BData
  <1> QED
    BY <1>4, <1>5, DiskAddsUp DEF Fits

LEMMA UsersAgree ==
  ASSUME BInv, BData, NEW c \in B!Shown("users", "count")
  PROVE  /\ \A s \in B!Shown("users", "sessions") : c <= s
         /\ \A b \in B!Shown("users", "by_user") : B!Cardinality(DOMAIN b) = c
  <1>1. PICK n \in DOMAIN results : SourceOf(n) = "users" /\ B!Item(n) = "count" /\ results[n] = c
    BY DEF B!Shown, B!Of, SourceOf
  <1>2. PICK i \in DOMAIN readings :
          readings[i].source = "users" /\ Fits("users", "count", readings[i].text, c)
    BY <1>1, MadeOf
  <1> DEFINE lines == B!Lines(readings[i].text)
  <1>3. c = B!Cardinality(B!ToSet(lines)) /\ readings[i].text \in B!Texts(Users)
    BY <1>2 DEF Fits
  <1>4. ASSUME NEW s \in B!Shown("users", "sessions") PROVE c <= s
    <2>1. PICK m \in DOMAIN results : SourceOf(m) = "users" /\ B!Item(m) = "sessions" /\ results[m] = s
      BY DEF B!Shown, B!Of, SourceOf
    <2>2. Fits("users", "sessions", readings[i].text, s)
      BY <1>2, <2>1 DEF BData
    <2>3. s = Len(lines)
      BY <2>2 DEF Fits
    <2> QED
      BY <1>3, <2>3, UsersBound
  <1>5. ASSUME NEW b \in B!Shown("users", "by_user") PROVE B!Cardinality(DOMAIN b) = c
    <2>1. PICK m \in DOMAIN results : SourceOf(m) = "uids" /\ results[m] = b
      BY DEF B!Shown, B!Of, SourceOf
    <2>2. DOMAIN b = B!ToSet(lines)
      BY <1>2, <2>1 DEF BData
    <2> QED
      BY <1>3, <2>2
  <1> QED
    BY <1>4, <1>5

LEMMA RuntimeAgrees ==
  ASSUME BInv, BData, NEW c \in B!Shown("runtime", "scrapes"), NEW t \in B!Shown("runtime", "scrape")
  PROVE  c = 0 <=> t = 0
  <1>1. PICK n \in DOMAIN results : SourceOf(n) = "runtime" /\ B!Item(n) = "scrapes" /\ results[n] = c
    BY DEF B!Shown, B!Of, SourceOf
  <1>2. PICK m \in DOMAIN results : SourceOf(m) = "runtime" /\ B!Item(m) = "scrape" /\ results[m] = t
    BY DEF B!Shown, B!Of, SourceOf
  <1>3. PICK i \in DOMAIN readings :
          readings[i].source = "runtime" /\ Fits("runtime", "scrapes", readings[i].text, c)
    BY <1>1, MadeOf
  <1>4. Fits("runtime", "scrape", readings[i].text, t)
    BY <1>2, <1>3 DEF BData
  <1> DEFINE rt == readings[i].text
  <1>5. rt \in B!RuntimeStates /\ c = rt.scrapes /\ t = IF rt.timings = None THEN 0 ELSE rt.timings
    BY <1>3, <1>4 DEF Fits
  <1> HIDE DEF rt
  <1>6. (rt.timings = None <=> rt.scrapes = 0) /\ (rt.timings # None => rt.timings # 0)
    BY <1>5 DEF B!RuntimeStates, B!Option
  <1> QED
    BY <1>5, <1>6

LEMMA Agreement == BInv /\ BData => B!FamiliesAgree
  BY MemoryAgrees, DiskAgrees, UsersAgree, RuntimeAgrees DEF B!FamiliesAgree

LEMMA Zeros ==
  ASSUME BInv, BData, NEW i \in DOMAIN readings, B!ProbeFailed(readings[i]),
         NEW n \in B!Of(readings[i].source) \intersect DOMAIN results
  PROVE  IF readings[i].source = "users" /\ B!Item(n) = "by_user"
         THEN DOMAIN results[n] = {} ELSE results[n] = 0
  <1> DEFINE source == readings[i].source
             text == readings[i].text
  <1>1. /\ n \in DOMAIN input /\ input[n].source = source
        /\ source \notin {"runtime", "uids"}
    BY DEF B!Of, B!ProbeFailed
  <1>2. source \in B!ToSet(B!Sources)
    <2>1. phase \notin {"verify", "raised"}
      <3>1. phase \in {"verify", "raised"} => DOMAIN readings = {}
        BY DEF BInv
      <3> QED
        BY <3>1
    <2>2. PICK p \in 1..12 : Reached(p)
      BY <2>1 DEF BInv
    <2>3. PICK j \in 1..(p - 1) : source = B!Sources[j]
      BY <2>2 DEF Reached
    <2>4. j \in Order
      BY DEF Order
    <2> QED
      BY <2>3, <2>4, SourceFacts
  <1>3. source \in {"users", "processes", "packages", "reboot", "cpus", "load", "memory", "disk", "network"}
    BY <1>1, <1>2, SourceFacts DEF B!Sources, Order
  <1>4. CASE source = "users" /\ B!Item(n) = "by_user"
    <2>1. SourceOf(n) = "uids"
      BY <1>1, <1>4 DEF SourceOf
    <2>2. DOMAIN results[n] = B!ToSet(B!Lines(text)) /\ text = None
      BY <1>4, <2>1 DEF BData, B!ProbeFailed
    <2>3. B!ToSet(B!Lines(None)) = {}
      BY DEF B!ToSet, B!Lines
    <2> QED
      BY <1>4, <2>2, <2>3
  <1>5. CASE ~(source = "users" /\ B!Item(n) = "by_user")
    <2>1. SourceOf(n) = source
      BY <1>1, <1>3, <1>5 DEF SourceOf
    <2>2. Fits(source, B!Item(n), text, results[n])
      BY <2>1 DEF BData
    <2>3. B!Lines(None) = <<>> /\ B!ToSet(<<>>) = {} /\ Len(<<>>) = 0
      BY DEF B!Lines, B!ToSet
    <2>4. B!Cardinality({}) = 0
      BY SameCard, FS_EmptySet
    <2>5. CASE source = "users"
      <3>1. text = None
        BY <2>5 DEF B!ProbeFailed
      <3> QED
        BY <1>5, <2>2, <2>3, <2>4, <2>5, <3>1 DEF Fits
    <2>6. CASE source = "packages"
      <3>1. /\ results[n] = B!CountUpgradable(text.manager, text.run)
            /\ \/ text.manager = None \/ text.run = None
               \/ text.run.code \notin IF text.manager = "apt-get" THEN {0} ELSE {0, 100}
        BY <2>2, <2>6 DEF Fits, B!ProbeFailed
      <3> QED
        BY <1>5, <3>1 DEF B!CountUpgradable
    <2>7. CASE source = "reboot"
      BY <1>5, <2>2, <2>7 DEF Fits, B!ProbeFailed
    <2>8. CASE source \in {"processes", "cpus", "load", "network"}
      BY <1>5, <2>2, <2>8 DEF Fits, B!ProbeFailed
    <2>9. CASE source = "memory"
      <3>1. text = None
        BY <2>9 DEF B!ProbeFailed
      <3>2. results[n] = B!ParseMeminfo(<<>>)[B!Item(n)]
        BY <2>2, <2>3, <2>9, <3>1 DEF Fits
      <3>3. B!Item(n) \in {"total", "available", "used"}
        BY <1>1, <2>9, ItemsAssumption DEF BInv, B!Item
      <3>4. \A key : B!MemoryLine(<<>>, key) = 0
        BY DEF B!MemoryLine
      <3> QED
        BY <1>5, <3>2, <3>3, <3>4 DEF B!ParseMeminfo
    <2>10. CASE source = "disk"
      <3>1. text = None
        BY <2>10 DEF B!ProbeFailed
      <3> QED
        BY <1>5, <2>2, <2>3, <2>10, <3>1, NothingToSum DEF Fits
    <2> QED
      BY <1>3, <2>5, <2>6, <2>7, <2>8, <2>9, <2>10
  <1> QED
    BY <1>4, <1>5

LEMMA FailedAreZero == BInv /\ BData => B!FailedReadsZero
  BY Zeros DEF B!FailedReadsZero

LEMMA Upgraded == BInv /\ BData => B!UpgradesCounted
  <1> SUFFICES ASSUME BInv, BData, NEW i \in DOMAIN readings, NEW n \in B!Of("packages"),
                      readings[i].source = "packages", ~B!ProbeFailed(readings[i]),
                      readings[i].text.manager # "apt-get"
               PROVE  LET lines == readings[i].text.run.lines
                          obsoletes(k) == \E h \in 1..k : /\ lines[h] = "obsoleting"
                                                         /\ \A b \in h..k : lines[b] # "blank"
                      IN results[n] = B!Cardinality({k \in DOMAIN lines : lines[k] = "package" /\ ~obsoletes(k)})
    BY DEF B!UpgradesCounted
  <1> DEFINE run == readings[i].text.run
  <1>1. SourceOf(n) = "packages" /\ n \in DOMAIN results
    BY OneReading DEF B!Of, SourceOf, Visited
  <1>2. run \in B!Runs /\ results[n] = B!CountUpgradable(readings[i].text.manager, run)
    BY <1>1 DEF BData, Fits
  <1>3. readings[i].text.manager # None /\ run # None /\ run.code \in {0, 100}
    BY DEF B!ProbeFailed
  <1>4. results[n] = B!CountCheckUpdate(run.lines)
    BY <1>2, <1>3 DEF B!CountUpgradable
  <1> HIDE DEF run
  <1>5. PICK m \in Nat : run.lines \in [1..m -> Kinds]
    <2>1. run.lines \in B!SeqOf({"package", "obsoleting", "blank"}, MaxLines)
      BY <1>2, <1>3 DEF B!Runs, B!Option
    <2> QED
      BY <2>1 DEF B!SeqOf, Kinds
  <1>6. results[n] = Cardinality(Upgrades(run.lines, m))
    BY <1>4, <1>5, CountsUpgrades
  <1>7. DOMAIN run.lines = 1..m
    BY <1>5
  <1> QED
    BY <1>6, <1>7, SameCard DEF Upgrades, Obsoletes, run

LEMMA BuiltinTyped ==
  ASSUME BInv
  PROVE  B!TypeOK
  <1>1. Len(B!Sources) = 11 /\ \A p \in Order : B!Sources[p] \in B!ToSet(B!Sources)
    BY SourceFacts
  <1>2. input \in BuiltinConfigs /\ DOMAIN results \subseteq DOMAIN input
    BY OneReading DEF BInv
  <1>3. CASE phase \in {"verify", "raised"}
    <2>1. Len(readings) = 0
      BY <1>3 DEF BInv
    <2> QED
      BY <1>1, <1>2, <1>3, <2>1 DEF B!TypeOK
  <1>4. CASE phase \notin {"verify", "raised"}
    <2>1. PICK p \in 1..12 : Reached(p)
      BY <1>4 DEF BInv
    <2>2. phase \in {"done"} \union B!ToSet(B!Sources)
      BY <1>1, <2>1 DEF Reached, Order
    <2>3. Len(readings) <= 11
      <3>1. Len(readings) \in Nat
        BY LenProperties DEF BInv
      <3> QED
        BY <2>1, <3>1 DEF Reached
    <2> QED
      BY <1>1, <1>2, <2>2, <2>3 DEF B!TypeOK
  <1> QED
    BY <1>3, <1>4

================================================================================
