------------------------- MODULE ConfigStore_proofs -------------------------
(***************************************************************************)
(* The store keeps its lists clean and its passwords sealed once, and a    *)
(* start restores the last save, for every file of the assumed shape, any  *)
(* number of changes and starts, and all caps.                             *)
(***************************************************************************)
EXTENDS ConfigStore, FiniteSetTheorems, SequenceTheorems, TLAPS

-----------------------------------------------------------------------------
(* Nth numbers the elements of a finite set of numbers in order: the place of an
   element, how many there are up to it, is an injection into as many numbers. *)
LEMMA NthOfSet ==
  ASSUME NEW K \in SUBSET Nat, IsFiniteSet(K), NEW p \in 1..Cardinality(K)
  PROVE  Nth(K, p) \in K /\ Cardinality({j \in K : j <= Nth(K, p)}) = p
<1> DEFINE Upto(i) == {j \in K : j <= i}
           n == Cardinality(K)
           place == [i \in K |-> Cardinality(Upto(i))]
<1>1. n \in Nat BY FS_CardinalityType
<1>2. ASSUME NEW i \in K
      PROVE  IsFiniteSet(Upto(i)) /\ Cardinality(Upto(i)) \in 1..n
  <2>1. Upto(i) \in SUBSET K OBVIOUS
  <2>2. IsFiniteSet(Upto(i)) /\ Cardinality(Upto(i)) <= n BY <2>1, FS_Subset
  <2>3. Cardinality(Upto(i)) \in Nat BY <2>2, FS_CardinalityType
  <2>4. i \in Upto(i) OBVIOUS
  <2>5. Cardinality(Upto(i)) # 0 BY <2>2, <2>4, FS_EmptySet
  <2> QED BY <1>1, <2>2, <2>3, <2>5
<1>3. ASSUME NEW i \in K, NEW j \in K, i < j
      PROVE  Cardinality(Upto(i)) # Cardinality(Upto(j))
  <2>1. Upto(i) \in SUBSET Upto(j)
    <3>1. i \in Nat /\ j \in Nat OBVIOUS
    <3>2. \A x \in K : x <= i => x <= j BY <3>1, <1>3
    <3> QED BY <3>2
  <2>2. j \in Upto(j) /\ j \notin Upto(i) BY <1>3
  <2>3. Upto(i) # Upto(j) BY <2>2
  <2> QED BY <1>2, <2>1, <2>3, FS_Subset
<1>4. place \in [K -> 1..n] BY <1>2
<1>5. \A i, j \in K : place[i] = place[j] => i = j
  <2> SUFFICES ASSUME NEW i \in K, NEW j \in K, place[i] = place[j] PROVE i = j
    OBVIOUS
  <2>1. ~(i < j) /\ ~(j < i) BY <1>3
  <2>2. i \in Nat /\ j \in Nat OBVIOUS
  <2> QED BY <2>1, <2>2
<1>6. place \in Injection(K, 1..n) BY <1>4, <1>5 DEF Injection, IsInjective
<1>7. IsFiniteSet(1..n) /\ Cardinality(1..n) = n BY <1>1, FS_Interval
<1>8. place \in Surjection(K, 1..n) BY <1>6, <1>7, FS_Injection
<1>9. PICK i \in K : place[i] = p BY <1>8 DEF Surjection
<1> QED BY <1>9 DEF Nth
(* A function on 1..n is a sequence, and the other way round. *)
LEMMA SeqOfFunction ==
  ASSUME NEW n \in Nat, NEW s, s = [i \in 1..n |-> s[i]]
  PROVE  IsSeq(s) /\ Len(s) = n /\ DOMAIN s = 1..n
<1> DEFINE R == {s[i] : i \in DOMAIN s}
<1>1. DOMAIN s = 1..n OBVIOUS
<1>2. \A i \in 1..n : s[i] \in R BY <1>1
<1>3. s \in [1..n -> R] BY <1>2
<1>4. s \in Seq(R) BY <1>3
<1>5. Len(s) = n BY <1>3
<1> QED BY <1>1, <1>4, <1>5 DEF IsSeq

(* A sequence is a function on the numbers up to its length. *)
LEMMA FunctionOfSeq ==
  ASSUME NEW s, IsSeq(s)
  PROVE  Len(s) \in Nat /\ DOMAIN s = 1..Len(s) /\ s = [i \in 1..Len(s) |-> s[i]]
<1> DEFINE R == {s[i] : i \in DOMAIN s}
<1>1. s \in Seq(R) BY DEF IsSeq
<1>2. Len(s) \in Nat /\ DOMAIN s = 1..Len(s) /\ s \in [1..Len(s) -> R] BY <1>1, LenProperties
<1> QED BY <1>2

LEMMA SeqIsSeq ==
  ASSUME NEW S, NEW s \in Seq(S)
  PROVE  IsSeq(s)
<1>1. Len(s) \in Nat /\ s \in [1..Len(s) -> S] BY LenProperties
<1> QED BY <1>1, SeqOfFunction

LEMMA SeqOfElements ==
  ASSUME NEW S, NEW s, IsSeq(s), \A i \in DOMAIN s : s[i] \in S
  PROVE  s \in Seq(S)
<1>1. Len(s) \in Nat /\ DOMAIN s = 1..Len(s) /\ s = [i \in 1..Len(s) |-> s[i]] BY FunctionOfSeq
<1>2. s \in [1..Len(s) -> S] BY <1>1
<1> QED BY <1>1, <1>2

(* The positions of a sequence, and any of them, are a finite set of numbers. *)
LEMMA Positions ==
  ASSUME NEW s, IsSeq(s), NEW K \in SUBSET (DOMAIN s)
  PROVE  IsFiniteSet(K) /\ K \in SUBSET Nat /\ Cardinality(K) \in Nat /\ Cardinality(K) <= Len(s)
<1>1. Len(s) \in Nat /\ DOMAIN s = 1..Len(s) BY FunctionOfSeq
<1>2. IsFiniteSet(1..Len(s)) /\ Cardinality(1..Len(s)) = Len(s) BY <1>1, FS_Interval
<1>3. IsFiniteSet(K) /\ Cardinality(K) <= Len(s) BY <1>1, <1>2, FS_Subset
<1>4. Cardinality(K) \in Nat BY <1>3, FS_CardinalityType
<1>5. K \in SUBSET Nat BY <1>1
<1> QED BY <1>3, <1>4, <1>5

(* What At picks: elements of s, each position of K once. *)
LEMMA AtOfSet ==
  ASSUME NEW s, IsSeq(s), NEW K \in SUBSET (DOMAIN s)
  PROVE  /\ IsSeq(At(s, K)) /\ Len(At(s, K)) = Cardinality(K) /\ Len(At(s, K)) <= Len(s)
         /\ DOMAIN At(s, K) = 1..Cardinality(K)
         /\ \A p \in DOMAIN At(s, K) : Nth(K, p) \in K /\ At(s, K)[p] = s[Nth(K, p)]
         /\ \A p, q \in DOMAIN At(s, K) : Nth(K, p) = Nth(K, q) => p = q
<1> DEFINE n == Cardinality(K)
<1>1. IsFiniteSet(K) /\ K \in SUBSET Nat /\ n \in Nat /\ n <= Len(s) BY Positions
<1>2. PICK a : a = At(s, K) OBVIOUS
<1>3. a = [p \in 1..n |-> s[Nth(K, p)]] BY <1>2 DEF At
<1>4. a = [p \in 1..n |-> a[p]] BY <1>3
<1>5. IsSeq(a) /\ Len(a) = n /\ DOMAIN a = 1..n BY <1>1, <1>4, SeqOfFunction
<1>6. \A p \in 1..n : Nth(K, p) \in K /\ a[p] = s[Nth(K, p)] BY <1>1, <1>3, NthOfSet
<1>7. \A p, q \in 1..n : Nth(K, p) = Nth(K, q) => p = q
  <2> SUFFICES ASSUME NEW p \in 1..n, NEW q \in 1..n, Nth(K, p) = Nth(K, q) PROVE p = q
    OBVIOUS
  <2>1. p = Cardinality({j \in K : j <= Nth(K, p)}) BY <1>1, NthOfSet
  <2>2. q = Cardinality({j \in K : j <= Nth(K, q)}) BY <1>1, NthOfSet
  <2> QED BY <2>1, <2>2
<1> QED BY <1>1, <1>2, <1>5, <1>6, <1>7

(* Distinct elements picked out of a sequence stay distinct. *)
LEMMA AtIsUnique ==
  ASSUME NEW s, IsSeq(s), NEW K \in SUBSET (DOMAIN s),
         \A i, j \in K : s[i] = s[j] => i = j
  PROVE  Unique(At(s, K))
<1> SUFFICES ASSUME NEW p \in DOMAIN At(s, K), NEW q \in DOMAIN At(s, K), At(s, K)[p] = At(s, K)[q]
             PROVE  p = q
  BY DEF Unique
<1>1. Nth(K, p) \in K /\ Nth(K, q) \in K /\ s[Nth(K, p)] = s[Nth(K, q)] BY AtOfSet
<1> QED BY <1>1, AtOfSet

(* All positions give the sequence itself. *)
LEMMA AtOfAll ==
  ASSUME NEW s, IsSeq(s)
  PROVE  At(s, DOMAIN s) = s
<1> DEFINE n == Len(s)
           K == DOMAIN s
<1>1. n \in Nat /\ K = 1..n /\ s = [i \in 1..n |-> s[i]] BY FunctionOfSeq
<1>2. \A i \in 1..n : Cardinality({j \in K : j <= i}) = i
  <2> SUFFICES ASSUME NEW i \in 1..n PROVE Cardinality({j \in K : j <= i}) = i
    OBVIOUS
  <2>1. {j \in K : j <= i} = 1..i BY <1>1
  <2>2. Cardinality(1..i) = i BY FS_Interval
  <2> QED BY <2>1, <2>2
<1>3. Cardinality(K) = n BY <1>1, FS_Interval
<1>4. \A p \in 1..n : Nth(K, p) = p
  <2> SUFFICES ASSUME NEW p \in 1..n PROVE Nth(K, p) = p
    OBVIOUS
  <2>1. IsFiniteSet(K) /\ K \in SUBSET Nat BY Positions
  <2>2. Nth(K, p) \in K /\ Cardinality({j \in K : j <= Nth(K, p)}) = p BY <1>3, <2>1, NthOfSet
  <2> QED BY <1>1, <1>2, <2>2
<1> HIDE DEF K
<1>5. At(s, K) = [p \in 1..n |-> s[p]] BY <1>3, <1>4 DEF At
<1> QED BY <1>1, <1>5 DEF K

(* A finite set of numbers as a sorted list. *)
LEMMA SortedIsUnique ==
  ASSUME NEW K \in SUBSET Nat, IsFiniteSet(K)
  PROVE  /\ Sorted(K) \in Seq(Nat) /\ Unique(Sorted(K))
         /\ \A p \in DOMAIN Sorted(K) : Sorted(K)[p] \in K
<1> DEFINE n == Cardinality(K)
<1>1. n \in Nat BY FS_CardinalityType
<1>2. \A p \in 1..n : Nth(K, p) \in K /\ Cardinality({j \in K : j <= Nth(K, p)}) = p BY NthOfSet
<1>3. PICK a : a = Sorted(K) OBVIOUS
<1>4. a = [p \in 1..n |-> Nth(K, p)] BY <1>3 DEF Sorted
<1>5. a \in [1..n -> Nat] BY <1>2, <1>4
<1>6. a \in Seq(Nat) BY <1>1, <1>5
<1>7. Unique(a)
  <2> SUFFICES ASSUME NEW p \in DOMAIN a, NEW q \in DOMAIN a, a[p] = a[q] PROVE p = q
    BY DEF Unique
  <2>1. p \in 1..n /\ q \in 1..n BY <1>4
  <2>2. Nth(K, p) = Nth(K, q) BY <1>4, <2>1
  <2> QED BY <1>2, <2>1, <2>2
<1>8. \A p \in DOMAIN a : a[p] \in K BY <1>2, <1>4
<1> QED BY <1>3, <1>6, <1>7, <1>8

LEMMA AppendToSeq ==
  ASSUME NEW s, IsSeq(s), NEW e
  PROVE  /\ IsSeq(Append(s, e)) /\ Len(Append(s, e)) = Len(s) + 1
         /\ DOMAIN Append(s, e) = 1..(Len(s) + 1)
         /\ \A i \in 1..Len(s) : Append(s, e)[i] = s[i]
         /\ Append(s, e)[Len(s) + 1] = e
<1> DEFINE R == {s[i] : i \in DOMAIN s} \cup {e}
<1>1. Len(s) \in Nat /\ DOMAIN s = 1..Len(s) BY FunctionOfSeq
<1>2. s \in Seq(R) BY SeqOfElements
<1>3. e \in R OBVIOUS
<1> HIDE DEF R
<1>4. Append(s, e) \in Seq(R) /\ Len(Append(s, e)) = Len(s) + 1 BY <1>2, <1>3, AppendProperties
<1>5. \A i \in 1..Len(s) : Append(s, e)[i] = s[i] BY <1>2, <1>3, AppendProperties
<1>6. Append(s, e)[Len(s) + 1] = e BY <1>2, <1>3, AppendProperties
<1>7. IsSeq(Append(s, e)) BY <1>4, SeqIsSeq
<1>8. DOMAIN Append(s, e) = 1..(Len(s) + 1) BY <1>4, <1>7, FunctionOfSeq
<1> QED BY <1>4, <1>5, <1>6, <1>7, <1>8

(* A stretch of a sequence. *)
LEMMA SubSeqOfSeq ==
  ASSUME NEW s, IsSeq(s), NEW m \in Nat \ {0}, NEW n \in Nat, n <= Len(s)
  PROVE  /\ IsSeq(SubSeq(s, m, n)) /\ Len(SubSeq(s, m, n)) = IF m <= n THEN n - m + 1 ELSE 0
         /\ \A i \in DOMAIN SubSeq(s, m, n) :
              m + i - 1 \in DOMAIN s /\ SubSeq(s, m, n)[i] = s[m + i - 1]
<1> DEFINE R == {s[i] : i \in DOMAIN s}
<1>1. Len(s) \in Nat /\ DOMAIN s = 1..Len(s) BY FunctionOfSeq
<1>2. \A i \in m..n : s[i] \in R BY <1>1
<1> HIDE DEF R
<1>3. SubSeq(s, m, n) \in Seq(R) /\ Len(SubSeq(s, m, n)) = IF m <= n THEN n - m + 1 ELSE 0
  BY <1>2, SubSeqProperties
<1>4. \A i \in 1..(n - m + 1) : SubSeq(s, m, n)[i] = s[m + i - 1] BY <1>2, SubSeqProperties
<1>5. IsSeq(SubSeq(s, m, n)) BY <1>3, SeqIsSeq
<1>6. DOMAIN SubSeq(s, m, n) = 1..Len(SubSeq(s, m, n)) BY <1>5, FunctionOfSeq
<1> QED BY <1>1, <1>3, <1>4, <1>5, <1>6

LEMMA SubSeqIsUnique ==
  ASSUME NEW s, IsSeq(s), NEW m \in Nat \ {0}, NEW n \in Nat, n <= Len(s), Unique(s)
  PROVE  Unique(SubSeq(s, m, n))
<1> SUFFICES ASSUME NEW p \in DOMAIN SubSeq(s, m, n), NEW q \in DOMAIN SubSeq(s, m, n),
                    SubSeq(s, m, n)[p] = SubSeq(s, m, n)[q]
             PROVE  p = q
  BY DEF Unique
<1>1. m + p - 1 \in DOMAIN s /\ m + q - 1 \in DOMAIN s /\ s[m + p - 1] = s[m + q - 1]
  BY SubSeqOfSeq
<1>2. m + p - 1 = m + q - 1 BY <1>1 DEF Unique
<1>3. IsSeq(SubSeq(s, m, n)) BY SubSeqOfSeq
<1>4. Len(SubSeq(s, m, n)) \in Nat /\ p \in 1..Len(SubSeq(s, m, n)) /\ q \in 1..Len(SubSeq(s, m, n))
  BY <1>3, FunctionOfSeq
<1> QED BY <1>2, <1>4

LEMMA ConcatOfSeqs ==
  ASSUME NEW s, IsSeq(s), NEW t, IsSeq(t)
  PROVE  /\ IsSeq(s \o t) /\ Len(s \o t) = Len(s) + Len(t)
         /\ \A i \in DOMAIN s : (s \o t)[i] = s[i]
         /\ \A i \in DOMAIN (s \o t) \ DOMAIN s :
              i - Len(s) \in DOMAIN t /\ (s \o t)[i] = t[i - Len(s)]
<1> DEFINE R == {s[i] : i \in DOMAIN s} \cup {t[i] : i \in DOMAIN t}
<1>1. Len(s) \in Nat /\ DOMAIN s = 1..Len(s) /\ Len(t) \in Nat /\ DOMAIN t = 1..Len(t)
  BY FunctionOfSeq
<1>2. s \in Seq(R) BY SeqOfElements
<1>3. t \in Seq(R) BY SeqOfElements
<1> HIDE DEF R
<1>4. s \o t \in Seq(R) /\ Len(s \o t) = Len(s) + Len(t) BY <1>2, <1>3, ConcatProperties
<1>5. \A i \in 1..(Len(s) + Len(t)) :
        (s \o t)[i] = IF i <= Len(s) THEN s[i] ELSE t[i - Len(s)]
  BY <1>2, <1>3, ConcatProperties
<1>6. IsSeq(s \o t) BY <1>4, SeqIsSeq
<1>7. DOMAIN (s \o t) = 1..(Len(s) + Len(t)) BY <1>4, <1>6, FunctionOfSeq
<1> QED BY <1>1, <1>4, <1>5, <1>6, <1>7

-----------------------------------------------------------------------------
(* Lists of names and of texts *)
NameList(names) ==
  /\ names \in Seq(Nat) /\ Unique(names)
  /\ \A i \in DOMAIN names : names[i] \notin {NoName, Default}
ShortList(s, cap) == IsSeq(s) /\ Unique(s) /\ Len(s) <= cap

LEMMA AppendIsUnique ==
  ASSUME NEW s, IsSeq(s), Unique(s), NEW e, \A i \in DOMAIN s : s[i] # e
  PROVE  Unique(Append(s, e))
<1>1. Len(s) \in Nat /\ DOMAIN s = 1..Len(s) BY FunctionOfSeq
<1> SUFFICES ASSUME NEW i \in DOMAIN Append(s, e), NEW j \in DOMAIN Append(s, e),
                    Append(s, e)[i] = Append(s, e)[j]
             PROVE  i = j
  BY DEF Unique
<1>2. i \in 1..(Len(s) + 1) /\ j \in 1..(Len(s) + 1) BY AppendToSeq
<1>3. (i \in 1..Len(s) \/ i = Len(s) + 1) /\ (j \in 1..Len(s) \/ j = Len(s) + 1) BY <1>1, <1>2
<1> QED BY <1>1, <1>3, AppendToSeq DEF Unique

LEMMA AddNameKeeps ==
  ASSUME NEW names, NameList(names), NEW n \in Nat
  PROVE  NameList(AddName(names, n))
<1>1. CASE n \in {NoName, Default} \cup {names[i] : i \in DOMAIN names} BY <1>1 DEF AddName
<1>2. CASE n \notin {NoName, Default} \cup {names[i] : i \in DOMAIN names}
  <2>1. IsSeq(names) BY SeqIsSeq DEF NameList
  <2>2. Len(names) \in Nat /\ DOMAIN names = 1..Len(names) BY <2>1, FunctionOfSeq
  <2>3. AddName(names, n) = Append(names, n) BY <1>2 DEF AddName
  <2>4. Unique(Append(names, n)) BY <1>2, <2>1, AppendIsUnique DEF NameList
  <2>5. Append(names, n) \in Seq(Nat) BY AppendProperties DEF NameList
  <2>6. \A i \in DOMAIN Append(names, n) : Append(names, n)[i] \notin {NoName, Default}
    <3> SUFFICES ASSUME NEW i \in DOMAIN Append(names, n)
                 PROVE  Append(names, n)[i] \notin {NoName, Default}
      OBVIOUS
    <3>1. i \in 1..Len(names) \/ i = Len(names) + 1 BY <2>1, <2>2, AppendToSeq
    <3> QED BY <1>2, <2>1, <2>2, <3>1, AppendToSeq DEF NameList
  <2> QED BY <2>3, <2>4, <2>5, <2>6 DEF NameList
<1> QED BY <1>1, <1>2

(* A renamed list is sorted anew, without a name twice. *)
LEMMA RenameNameKeeps ==
  ASSUME NEW names, NameList(names), NEW old, NEW new \in Nat
  PROVE  NameList(RenameName(names, old, new))
<1>1. CASE ~Renamable(old, new) BY <1>1 DEF RenameName
<1>2. CASE Renamable(old, new)
  <2> DEFINE f == [i \in DOMAIN names |-> IF names[i] = old THEN new ELSE names[i]]
             K == {IF names[i] = old THEN new ELSE names[i] : i \in DOMAIN names}
  <2>1. IsSeq(names) BY SeqIsSeq DEF NameList
  <2>2. IsFiniteSet(DOMAIN names) BY <2>1, Positions
  <2>3. f \in Surjection(DOMAIN names, K) BY DEF Surjection
  <2>4. IsFiniteSet(K) BY <2>2, <2>3, FS_Surjection
  <2>5. \A i \in DOMAIN names : names[i] \in Nat \ {NoName, Default}
    BY <2>1, FunctionOfSeq, LenProperties DEF NameList
  <2>6. new \in Nat \ {NoName, Default} BY <1>2 DEF Renamable
  <2>7. \A n \in K : n \in Nat \ {NoName, Default} BY <2>5, <2>6
  <2>8. RenameName(names, old, new) = Sorted(K) BY <1>2 DEF RenameName
  <2> HIDE DEF K
  <2>9. K \in SUBSET Nat BY <2>7
  <2> QED BY <2>4, <2>7, <2>8, <2>9, SortedIsUnique DEF NameList
<1> QED BY <1>1, <1>2

(* retain: an element is gone, the others stay as distinct as they were. *)
LEMMA WithoutIsUnique ==
  ASSUME NEW s, IsSeq(s), Unique(s), NEW x
  PROVE  /\ IsSeq(Without(s, x)) /\ Unique(Without(s, x)) /\ Len(Without(s, x)) <= Len(s)
         /\ \A p \in DOMAIN Without(s, x) :
              Without(s, x)[p] # x /\ \E i \in DOMAIN s : Without(s, x)[p] = s[i]
<1> DEFINE K == {i \in DOMAIN s : s[i] # x}
<1>1. K \in SUBSET (DOMAIN s) OBVIOUS
<1>2. Without(s, x) = At(s, K) BY DEF Without
<1>3. \A i, j \in K : s[i] = s[j] => i = j BY DEF Unique
<1>4. \A i \in K : s[i] # x OBVIOUS
<1> HIDE DEF K
<1>5. Unique(At(s, K)) BY <1>1, <1>3, AtIsUnique
<1> QED BY <1>1, <1>2, <1>4, <1>5, AtOfSet

LEMMA WithoutKeeps ==
  ASSUME NEW names, NameList(names), NEW n
  PROVE  NameList(Without(names, n))
<1>1. IsSeq(names) /\ Unique(names) BY SeqIsSeq DEF NameList
<1>2. IsSeq(Without(names, n)) /\ Unique(Without(names, n)) BY <1>1, WithoutIsUnique
<1>3. \A p \in DOMAIN Without(names, n) : \E i \in DOMAIN names : Without(names, n)[p] = names[i]
  BY <1>1, WithoutIsUnique
<1>4. \A i \in DOMAIN names : names[i] \in Nat /\ names[i] \notin {NoName, Default}
  BY <1>1, FunctionOfSeq, LenProperties DEF NameList
<1>5. \A p \in DOMAIN Without(names, n) :
        Without(names, n)[p] \in Nat /\ Without(names, n)[p] \notin {NoName, Default}
  BY <1>3, <1>4
<1>6. Without(names, n) \in Seq(Nat) BY <1>2, <1>5, SeqOfElements
<1> QED BY <1>2, <1>5, <1>6 DEF NameList

(* A command goes to the end of the history, and the oldest are dropped. *)
LEMMA PushHistoryKeeps ==
  ASSUME NEW history, ShortList(history, HistoryCap), NEW cmd
  PROVE  ShortList(PushHistory(history, cmd), HistoryCap)
<1> DEFINE rest == Without(history, cmd)
           longer == Append(rest, cmd)
           from == (IF Len(longer) > HistoryCap THEN Len(longer) - HistoryCap ELSE 0) + 1
<1>1. IsSeq(rest) /\ Unique(rest) /\ \A p \in DOMAIN rest : rest[p] # cmd
  BY WithoutIsUnique DEF ShortList
<1>2. IsSeq(longer) /\ Unique(longer) BY <1>1, AppendToSeq, AppendIsUnique
<1>3. PushHistory(history, cmd) = SubSeq(longer, from, Len(longer)) BY DEF PushHistory
<1> HIDE DEF longer
<1>4. Len(longer) \in Nat BY <1>2, FunctionOfSeq
<1>5. HistoryCap \in Nat \ {0} BY ConfigFileAssumption
<1>6. from \in Nat \ {0} /\ (from <= Len(longer) => Len(longer) - from + 1 <= HistoryCap) /\ 0 <= HistoryCap
  BY <1>4, <1>5
<1> HIDE DEF from
<1>7. Unique(SubSeq(longer, from, Len(longer))) BY <1>2, <1>4, <1>6, SubSeqIsUnique
<1>8. /\ IsSeq(SubSeq(longer, from, Len(longer)))
      /\ Len(SubSeq(longer, from, Len(longer))) = IF from <= Len(longer) THEN Len(longer) - from + 1 ELSE 0
  BY <1>2, <1>4, <1>6, SubSeqOfSeq
<1> QED BY <1>3, <1>6, <1>7, <1>8 DEF ShortList

LEMMA RemoveAtIsUnique ==
  ASSUME NEW s, IsSeq(s), Unique(s), NEW i \in DOMAIN s
  PROVE  IsSeq(RemoveAt(s, i)) /\ Unique(RemoveAt(s, i)) /\ Len(RemoveAt(s, i)) <= Len(s)
<1> DEFINE a == SubSeq(s, 1, i - 1)
           b == SubSeq(s, i + 1, Len(s))
<1>1. Len(s) \in Nat /\ DOMAIN s = 1..Len(s) BY FunctionOfSeq
<1>2. i \in Nat \ {0} /\ i <= Len(s) /\ i - 1 \in Nat /\ i - 1 <= Len(s) /\ i + 1 \in Nat \ {0}
  BY <1>1
<1>3. IsSeq(a) /\ Len(a) = i - 1 /\ \A p \in DOMAIN a : a[p] = s[p]
  <2>1. IsSeq(a) /\ Len(a) = (IF 1 <= i - 1 THEN i - 1 - 1 + 1 ELSE 0)
        /\ \A p \in DOMAIN a : a[p] = s[1 + p - 1]
    BY <1>2, SubSeqOfSeq
  <2>2. Len(a) = i - 1 BY <1>2, <2>1
  <2>3. DOMAIN a = 1..(i - 1) BY <2>1, <2>2, FunctionOfSeq
  <2>4. \A p \in 1..(i - 1) : 1 + p - 1 = p OBVIOUS
  <2> QED BY <2>1, <2>2, <2>3, <2>4
<1>4. IsSeq(b) /\ Len(b) = Len(s) - i /\ \A p \in DOMAIN b : b[p] = s[p + i]
  <2>1. IsSeq(b) /\ Len(b) = (IF i + 1 <= Len(s) THEN Len(s) - (i + 1) + 1 ELSE 0)
        /\ \A p \in DOMAIN b : b[p] = s[i + 1 + p - 1]
    BY <1>1, <1>2, SubSeqOfSeq
  <2>2. Len(b) = Len(s) - i BY <1>1, <2>1
  <2>3. DOMAIN b = 1..(Len(s) - i) BY <2>1, <2>2, FunctionOfSeq
  <2>4. \A p \in 1..(Len(s) - i) : i + 1 + p - 1 = p + i BY <1>1
  <2> QED BY <2>1, <2>2, <2>3, <2>4
<1>5. RemoveAt(s, i) = a \o b BY DEF RemoveAt
<1> HIDE DEF a, b
<1>6. /\ IsSeq(a \o b) /\ Len(a \o b) = Len(s) - 1
      /\ DOMAIN (a \o b) = 1..(Len(s) - 1) /\ DOMAIN a = 1..(i - 1)
  <2>1. IsSeq(a \o b) /\ Len(a \o b) = Len(a) + Len(b) BY <1>3, <1>4, ConcatOfSeqs
  <2>2. Len(a \o b) = Len(s) - 1 BY <1>1, <1>3, <1>4, <2>1
  <2> QED BY <1>3, <2>1, <2>2, FunctionOfSeq
<1>7. \A p \in 1..(Len(s) - 1) : (a \o b)[p] = s[IF p < i THEN p ELSE p + 1]
  <2> SUFFICES ASSUME NEW p \in 1..(Len(s) - 1)
               PROVE  (a \o b)[p] = s[IF p < i THEN p ELSE p + 1]
    OBVIOUS
  <2>1. CASE p < i
    <3>1. p \in 1..(i - 1) BY <1>2, <2>1
    <3>2. p \in DOMAIN a BY <1>6, <3>1
    <3> QED BY <1>3, <1>4, <2>1, <3>2, ConcatOfSeqs
  <2>2. CASE ~(p < i)
    <3>0. p \notin 1..(i - 1) BY <1>2, <2>2
    <3>1. p \in DOMAIN (a \o b) \ DOMAIN a BY <1>6, <3>0
    <3>2. p - (i - 1) \in DOMAIN b /\ (a \o b)[p] = b[p - (i - 1)] BY <1>3, <1>4, <3>1, ConcatOfSeqs
    <3>3. p - (i - 1) + i = p + 1 BY <1>1
    <3> QED BY <1>4, <2>2, <3>2, <3>3
  <2> QED BY <2>1, <2>2
<1>8. Unique(a \o b)
  <2> SUFFICES ASSUME NEW p \in 1..(Len(s) - 1), NEW q \in 1..(Len(s) - 1), (a \o b)[p] = (a \o b)[q]
               PROVE  p = q
    BY <1>6 DEF Unique
  <2> DEFINE at(r) == IF r < i THEN r ELSE r + 1
  <2>1. at(p) \in DOMAIN s /\ at(q) \in DOMAIN s BY <1>1
  <2>2. s[at(p)] = s[at(q)] BY <1>7
  <2>3. at(p) = at(q) BY <2>1, <2>2 DEF Unique
  <2> QED BY <1>1, <1>2, <2>3
<1>9. Len(s) - 1 <= Len(s) BY <1>1
<1> QED BY <1>5, <1>6, <1>8, <1>9

(* Of repeated commands the last is kept; a history without any stays. *)
LEMMA DedupOfUnique ==
  ASSUME NEW history, IsSeq(history), Unique(history)
  PROVE  DedupKeepLast(history) = history
<1>1. Len(history) \in Nat /\ DOMAIN history = 1..Len(history) BY FunctionOfSeq
<1>2. \A i, j \in DOMAIN history : j > i => history[j] # history[i] BY <1>1 DEF Unique
<1>3. {i \in DOMAIN history : \A j \in DOMAIN history : j > i => history[j] # history[i]} = DOMAIN history
  BY <1>2
<1> QED BY <1>3, AtOfAll DEF DedupKeepLast

(* Empty and repeated directories are left out, and those over the cap. *)
LEMMA QuickDirsKeeps ==
  ASSUME NEW paths, IsSeq(paths)
  PROVE  ShortList(QuickDirs(paths), DirCap)
<1> DEFINE first == {i \in DOMAIN paths : /\ paths[i] # NoName
                                          /\ \A j \in DOMAIN paths : j < i => paths[j] # paths[i]}
           kept == At(paths, first)
           size == IF Len(kept) < DirCap THEN Len(kept) ELSE DirCap
<1>1. first \in SUBSET (DOMAIN paths) OBVIOUS
<1>2. \A i, j \in first : paths[i] = paths[j] => i = j
  <2> SUFFICES ASSUME NEW i \in first, NEW j \in first, paths[i] = paths[j] PROVE i = j
    OBVIOUS
  <2>1. i \in DOMAIN paths /\ j \in DOMAIN paths OBVIOUS
  <2>2. ~(i < j) /\ ~(j < i) BY <2>1
  <2>3. Len(paths) \in Nat /\ DOMAIN paths = 1..Len(paths) BY FunctionOfSeq
  <2>4. i \in Nat /\ j \in Nat BY <2>1, <2>3
  <2> QED BY <2>2, <2>4
<1>3. QuickDirs(paths) = SubSeq(kept, 1, size) BY DEF QuickDirs
<1> HIDE DEF first
<1>4. IsSeq(kept) /\ Unique(kept) BY <1>1, <1>2, AtOfSet, AtIsUnique
<1> HIDE DEF kept
<1>5. Len(kept) \in Nat BY <1>4, FunctionOfSeq
<1>6. DirCap \in Nat \ {0} BY ConfigFileAssumption
<1>7. size \in Nat /\ size <= Len(kept) /\ size <= DirCap BY <1>5, <1>6
<1> HIDE DEF size
<1>8. Unique(SubSeq(kept, 1, size)) BY <1>4, <1>7, SubSeqIsUnique
<1>9. IsSeq(SubSeq(kept, 1, size)) /\ Len(SubSeq(kept, 1, size)) = (IF 1 <= size THEN size - 1 + 1 ELSE 0)
  BY <1>4, <1>7, SubSeqOfSeq
<1>10. Len(SubSeq(kept, 1, size)) = size BY <1>7, <1>9
<1> QED BY <1>3, <1>7, <1>8, <1>9, <1>10 DEF ShortList

-----------------------------------------------------------------------------
(* Lists of sessions *)
UniqueIds(sessions) ==
  \A i, j \in DOMAIN sessions : sessions[i].id = sessions[j].id => i = j
Sessions(sessions, fresh) == SessionList(sessions, fresh) /\ UniqueIds(sessions)

(* get finds a session of the list. *)
LEMMA GetIsIn ==
  ASSUME NEW sessions, NEW fresh, SessionList(sessions, fresh), NEW id \in Ids(sessions)
  PROVE  SessionBelow(Get(sessions, id), fresh) /\ Get(sessions, id).id = id
<1>1. \E i \in DOMAIN sessions : sessions[i].id = id BY DEF Ids
<1>2. PICK i \in DOMAIN sessions : Get(sessions, id) = sessions[i] /\ sessions[i].id = id
  BY <1>1 DEF Get
<1> QED BY <1>2 DEF SessionList

(* Later ids are fresh too. *)
LEMMA SessionsBelowMore ==
  ASSUME NEW sessions, NEW fresh \in Nat, NEW more \in Nat, fresh <= more, Sessions(sessions, fresh)
  PROVE  Sessions(sessions, more)
BY DEF Sessions, SessionList, SessionBelow

(* Changes of a session that keep it one. *)
LEMMA ChangedSession ==
  ASSUME NEW s, NEW fresh, SessionBelow(s, fresh)
  PROVE  /\ \A g : SessionBelow([s EXCEPT !.group = g], fresh) /\ [s EXCEPT !.group = g].id = s.id
         /\ \A c : Sound(c) => SessionBelow([s EXCEPT !.secret = c], fresh)
                               /\ [s EXCEPT !.secret = c].id = s.id
                               /\ [s EXCEPT !.secret = c].secret = c
<1>1. s = [id |-> s.id, name |-> s.name, host |-> s.host, user |-> s.user, auth |-> s.auth,
           group |-> s.group, secret |-> s.secret]
  BY DEF SessionBelow, IsSession
<1>2. \A g : [s EXCEPT !.group = g] =
        [id |-> s.id, name |-> s.name, host |-> s.host, user |-> s.user, auth |-> s.auth,
         group |-> g, secret |-> s.secret]
  BY <1>1
<1>3. \A c : [s EXCEPT !.secret = c] =
        [id |-> s.id, name |-> s.name, host |-> s.host, user |-> s.user, auth |-> s.auth,
         group |-> s.group, secret |-> c]
  BY <1>1
<1> QED BY <1>2, <1>3 DEF SessionBelow, IsSession

(* A session with another id. *)
LEMMA NewIdSession ==
  ASSUME NEW s, IsSession(s), Sound(s.secret), NEW id \in Nat, NEW fresh \in Nat, id < fresh
  PROVE  /\ SessionBelow([s EXCEPT !.id = id], fresh) /\ [s EXCEPT !.id = id].id = id
         /\ \A n : SessionBelow([s EXCEPT !.id = id, !.name = n], fresh)
<1>1. s = [id |-> s.id, name |-> s.name, host |-> s.host, user |-> s.user, auth |-> s.auth,
           group |-> s.group, secret |-> s.secret]
  BY DEF IsSession
<1>2. [s EXCEPT !.id = id] =
        [id |-> id, name |-> s.name, host |-> s.host, user |-> s.user, auth |-> s.auth,
         group |-> s.group, secret |-> s.secret]
  BY <1>1
<1>3. \A n : [s EXCEPT !.id = id, !.name = n] =
        [id |-> id, name |-> n, host |-> s.host, user |-> s.user, auth |-> s.auth,
         group |-> s.group, secret |-> s.secret]
  <2> TAKE n
  <2>1. [s EXCEPT !.id = id, !.name = n] = [[s EXCEPT !.id = id] EXCEPT !.name = n] OBVIOUS
  <2>2. PICK t : t = [s EXCEPT !.id = id] OBVIOUS
  <2>3. t = [id |-> id, name |-> s.name, host |-> s.host, user |-> s.user, auth |-> s.auth,
             group |-> s.group, secret |-> s.secret]
    BY <1>2, <2>2
  <2>4. [t EXCEPT !.name = n] =
        [id |-> id, name |-> n, host |-> s.host, user |-> s.user, auth |-> s.auth,
         group |-> s.group, secret |-> s.secret]
    BY <2>3
  <2> QED BY <2>1, <2>2, <2>4
<1> QED BY <1>2, <1>3 DEF SessionBelow, IsSession

(* A list of the same ids in the same places. *)
LEMMA SameIds ==
  ASSUME NEW sessions, NEW fresh, Sessions(sessions, fresh),
         NEW changed, changed = [i \in DOMAIN sessions |-> changed[i]],
         \A i \in DOMAIN sessions :
           SessionBelow(changed[i], fresh) /\ changed[i].id = sessions[i].id
  PROVE  Sessions(changed, fresh) /\ Len(changed) = Len(sessions) /\ DOMAIN changed = DOMAIN sessions
<1>1. IsSeq(sessions) BY DEF Sessions, SessionList
<1>2. Len(sessions) \in Nat /\ DOMAIN sessions = 1..Len(sessions) BY <1>1, FunctionOfSeq
<1>3. IsSeq(changed) /\ Len(changed) = Len(sessions) /\ DOMAIN changed = DOMAIN sessions
  BY <1>2, SeqOfFunction
<1> QED BY <1>3 DEF Sessions, SessionList, UniqueIds

(* upsert and remove keep ids unique: a session takes the place of the one of its
   id, or the end. *)
LEMMA UpsertKeeps ==
  ASSUME NEW sessions, NEW fresh, Sessions(sessions, fresh), NEW s, SessionBelow(s, fresh)
  PROVE  Sessions(Upsert(sessions, s), fresh)
<1>1. CASE s.id \in Ids(sessions)
  <2>1. PICK changed : changed = Upsert(sessions, s) OBVIOUS
  <2>2. changed = [i \in DOMAIN sessions |-> IF sessions[i].id = s.id THEN s ELSE sessions[i]]
    BY <1>1, <2>1 DEF Upsert
  <2>3. changed = [i \in DOMAIN sessions |-> changed[i]] BY <2>2
  <2>4. \A i \in DOMAIN sessions : SessionBelow(changed[i], fresh) /\ changed[i].id = sessions[i].id
    BY <2>2 DEF Sessions, SessionList
  <2> QED BY <2>1, <2>3, <2>4, SameIds
<1>2. CASE s.id \notin Ids(sessions)
  <2>1. Upsert(sessions, s) = Append(sessions, s) BY <1>2 DEF Upsert
  <2>2. IsSeq(sessions) BY DEF Sessions, SessionList
  <2>3. Len(sessions) \in Nat /\ DOMAIN sessions = 1..Len(sessions) BY <2>2, FunctionOfSeq
  <2> DEFINE longer == Append(sessions, s)
  <2>4. IsSeq(longer) /\ DOMAIN longer = 1..(Len(sessions) + 1) BY <2>2, AppendToSeq
  <2>5. \A i \in DOMAIN longer : \/ i \in DOMAIN sessions /\ longer[i] = sessions[i]
                                 \/ i = Len(sessions) + 1 /\ longer[i] = s
    <3>1. \A i \in 1..(Len(sessions) + 1) : i \in 1..Len(sessions) \/ i = Len(sessions) + 1
      BY <2>3
    <3> QED BY <2>2, <2>3, <2>4, <3>1, AppendToSeq
  <2> HIDE DEF longer
  <2>6. SessionList(longer, fresh) BY <2>4, <2>5 DEF Sessions, SessionList
  <2>7. \A i \in DOMAIN sessions : sessions[i].id # s.id BY <1>2 DEF Ids
  <2>8. UniqueIds(longer)
    <3> SUFFICES ASSUME NEW i \in DOMAIN longer, NEW j \in DOMAIN longer, longer[i].id = longer[j].id
                 PROVE  i = j
      BY DEF UniqueIds
    <3>1. CASE i \in DOMAIN sessions /\ longer[i] = sessions[i]
      <4>1. j \in DOMAIN sessions /\ longer[j] = sessions[j] BY <2>5, <2>7, <3>1
      <4> QED BY <3>1, <4>1 DEF Sessions, UniqueIds
    <3>2. CASE i = Len(sessions) + 1 /\ longer[i] = s BY <2>5, <2>7, <3>2
    <3> QED BY <2>5, <3>1, <3>2
  <2> QED BY <2>1, <2>6, <2>8 DEF Sessions, longer
<1> QED BY <1>1, <1>2

LEMMA RemoveIdKeeps ==
  ASSUME NEW sessions, NEW fresh, Sessions(sessions, fresh), NEW id
  PROVE  Sessions(RemoveId(sessions, id), fresh)
<1> DEFINE K == {i \in DOMAIN sessions : sessions[i].id # id}
           rest == At(sessions, K)
<1>1. K \in SUBSET (DOMAIN sessions) OBVIOUS
<1>2. RemoveId(sessions, id) = rest BY DEF RemoveId
<1> HIDE DEF K
<1>3. IsSeq(sessions) BY DEF Sessions, SessionList
<1>4. /\ IsSeq(rest)
      /\ \A p \in DOMAIN rest : Nth(K, p) \in K /\ rest[p] = sessions[Nth(K, p)]
      /\ \A p, q \in DOMAIN rest : Nth(K, p) = Nth(K, q) => p = q
  BY <1>1, <1>3, AtOfSet
<1> HIDE DEF rest
<1>5. SessionList(rest, fresh) BY <1>1, <1>4 DEF Sessions, SessionList
<1>6. UniqueIds(rest) BY <1>1, <1>4 DEF Sessions, UniqueIds
<1> QED BY <1>2, <1>5, <1>6 DEF Sessions

LEMMA RegroupKeeps ==
  ASSUME NEW sessions, NEW fresh, Sessions(sessions, fresh), NEW old, NEW new
  PROVE  Sessions(Regroup(sessions, old, new), fresh)
<1>1. PICK changed : changed = Regroup(sessions, old, new) OBVIOUS
<1>2. changed = [i \in DOMAIN sessions |-> IF sessions[i].group = old THEN [sessions[i] EXCEPT !.group = new]
                                           ELSE sessions[i]]
  BY <1>1 DEF Regroup
<1>3. changed = [i \in DOMAIN sessions |-> changed[i]] BY <1>2
<1>4. \A i \in DOMAIN sessions : SessionBelow(changed[i], fresh) /\ changed[i].id = sessions[i].id
  <2> SUFFICES ASSUME NEW i \in DOMAIN sessions
               PROVE  SessionBelow(changed[i], fresh) /\ changed[i].id = sessions[i].id
    OBVIOUS
  <2>1. SessionBelow(sessions[i], fresh) BY DEF Sessions, SessionList
  <2>2. changed[i] = IF sessions[i].group = old THEN [sessions[i] EXCEPT !.group = new] ELSE sessions[i]
    BY <1>2
  <2> QED BY <2>1, <2>2, ChangedSession
<1> QED BY <1>1, <1>3, <1>4, SameIds

-----------------------------------------------------------------------------
(* Passwords *)
Secret(v, l) == [value |-> v, layers |-> l]

LEMMA OneLayer ==
  ASSUME NEW x
  PROVE  <<x>> # <<>> /\ Last(<<x>>) = x /\ Front(<<x>>) = <<>> /\ Append(<<>>, x) = <<x>> /\ Len(<<x>>) = 1
<1>1. Len(<<x>>) = 1 /\ <<x>>[1] = x /\ <<x>> # <<>> OBVIOUS
<1>2. Last(<<x>>) = x BY <1>1 DEF Last
<1>3. Front(<<x>>) = SubSeq(<<x>>, 1, 0) BY <1>1 DEF Front
<1>4. SubSeq(<<x>>, 1, 0) = <<>> BY SubSeqEmpty
<1>5. Append(<<>>, x) = <<x>> OBVIOUS
<1> QED BY <1>1, <1>2, <1>3, <1>4, <1>5

(* A sound password is plain or carries one local key. *)
LEMMA SoundForms ==
  ASSUME NEW s
  PROVE  Sound(s) <=> \E v : s = Secret(v, <<>>) \/ \E x \in Nat \ {ExportKey} : s = Secret(v, <<x>>)
<1>1. ASSUME Sound(s)
      PROVE  \E v : s = Secret(v, <<>>) \/ \E x \in Nat \ {ExportKey} : s = Secret(v, <<x>>)
  <2>1. s = Secret(s.value, s.layers) BY <1>1 DEF Sound, IsSecret, Secret
  <2>2. s.layers \in Seq(Nat) /\ Len(s.layers) <= 1 /\ (s.layers # <<>> => Last(s.layers) # ExportKey)
    BY <1>1 DEF Sound
  <2>3. PICK l : l = s.layers OBVIOUS
  <2>4. l \in Seq(Nat) /\ Len(l) <= 1 BY <2>2, <2>3
  <2>5. l = <<>> \/ \E x \in Nat : l = <<x>>
    <3>1. Len(l) \in Nat /\ l \in [1..Len(l) -> Nat] BY <2>4, LenProperties
    <3>2. CASE Len(l) = 0 BY <2>4, <3>2, EmptySeq
    <3>3. CASE Len(l) = 1
      <4>1. l[1] \in Nat BY <3>1, <3>3
      <4>2. <<l[1]>> \in Seq(Nat) /\ Len(<<l[1]>>) = 1 /\ <<l[1]>>[1] = l[1] BY <4>1
      <4>3. \A i \in 1..Len(l) : l[i] = <<l[1]>>[i] BY <3>3, <4>2
      <4>4. l = <<l[1]>> BY <2>4, <3>3, <4>2, <4>3, SeqEqual
      <4> QED BY <4>1, <4>4
    <3> QED BY <2>4, <3>1, <3>2, <3>3
  <2> QED BY <2>1, <2>2, <2>3, <2>5, OneLayer
<1>2. ASSUME NEW v, s = Secret(v, <<>>) PROVE Sound(s)
  BY <1>2 DEF Sound, IsSecret, Secret
<1>3. ASSUME NEW v, NEW x \in Nat \ {ExportKey}, s = Secret(v, <<x>>) PROVE Sound(s)
  <2>1. s.value = v /\ s.layers = <<x>> BY <1>3 DEF Secret
  <2>2. <<x>> \in Seq(Nat) OBVIOUS
  <2> QED BY <1>3, <2>1, <2>2, OneLayer DEF Sound, IsSecret, Secret
<1> QED BY <1>1, <1>2, <1>3

LEMMA PlainIsSound ==
  (\A v : Sound([value |-> v, layers |-> <<>>])) /\ Sound(NoSecret)
BY SoundForms DEF Secret, NoSecret

LEMMA OpenedForms ==
  ASSUME NEW v, NEW k
  PROVE  /\ Decrypted(Secret(v, <<>>), k) = Secret(v, <<>>)
         /\ Decrypted(Secret(v, <<k>>), k) = Secret(v, <<>>)
         /\ \A x : x # k => Decrypted(Secret(v, <<x>>), k) = Secret(v, <<x>>)
<1>1. Decrypted(Secret(v, <<>>), k) = Secret(v, <<>>) BY DEF Decrypted, Secret
<1>2. Decrypted(Secret(v, <<k>>), k) = Secret(v, <<>>)
  <2>1. [Secret(v, <<k>>) EXCEPT !.layers = <<>>] = Secret(v, <<>>) BY DEF Secret
  <2>2. Secret(v, <<k>>).layers = <<k>> BY DEF Secret
  <2> QED BY <2>1, <2>2, OneLayer DEF Decrypted
<1>3. ASSUME NEW x, x # k PROVE Decrypted(Secret(v, <<x>>), k) = Secret(v, <<x>>)
  <2>1. Secret(v, <<x>>).layers = <<x>> BY DEF Secret
  <2> QED BY <1>3, <2>1, OneLayer DEF Decrypted
<1> QED BY <1>1, <1>2, <1>3

LEMMA SealedForms ==
  ASSUME NEW v, NEW k
  PROVE  /\ SealedBy(Secret(v, <<>>), k) = IF v = "" THEN Secret(v, <<>>) ELSE Secret(v, <<k>>)
         /\ \A x : x # ExportKey => SealedBy(Secret(v, <<x>>), k) = Secret(v, <<x>>)
<1>1. SealedBy(Secret(v, <<>>), k) = IF v = "" THEN Secret(v, <<>>) ELSE Secret(v, <<k>>)
  <2>1. [Secret(v, <<>>) EXCEPT !.layers = <<k>>] = Secret(v, <<k>>) BY DEF Secret
  <2>2. Secret(v, <<>>).layers = <<>> /\ Secret(v, <<>>).value = v BY DEF Secret
  <2> QED BY <2>1, <2>2, OneLayer DEF SealedBy, Encrypted
<1>2. ASSUME NEW x, x # ExportKey PROVE SealedBy(Secret(v, <<x>>), k) = Secret(v, <<x>>)
  <2>1. Secret(v, <<x>>).layers = <<x>> BY DEF Secret
  <2> QED BY <1>2, <2>1, OneLayer DEF SealedBy
<1> QED BY <1>1, <1>2

(* Opening and sealing keep a password sound, and what is sealed with a key opens
   with it as it would have before. *)
LEMMA DecryptedIsSound ==
  ASSUME NEW s, Sound(s), NEW k
  PROVE  Sound(Decrypted(s, k)) /\ [Decrypted(s, k) EXCEPT !.layers = <<>>] = [s EXCEPT !.layers = <<>>]
<1>1. PICK v : s = Secret(v, <<>>) \/ \E x \in Nat \ {ExportKey} : s = Secret(v, <<x>>) BY SoundForms
<1>2. Decrypted(s, k) = s \/ Decrypted(s, k) = Secret(v, <<>>)
  <2>1. CASE s = Secret(v, <<>>) BY <2>1, OpenedForms
  <2>2. ASSUME NEW x \in Nat, s = Secret(v, <<x>>)
        PROVE  Decrypted(s, k) = s \/ Decrypted(s, k) = Secret(v, <<>>)
    <3>1. CASE x = k BY <2>2, <3>1, OpenedForms
    <3>2. CASE x # k BY <2>2, <3>2, OpenedForms
    <3> QED BY <3>1, <3>2
  <2> QED BY <1>1, <2>1, <2>2
<1>3. Sound(Decrypted(s, k)) BY <1>2, SoundForms
<1>4. \A l : [Secret(v, l) EXCEPT !.layers = <<>>] = Secret(v, <<>>) BY DEF Secret
<1> QED BY <1>1, <1>2, <1>3, <1>4

LEMMA SealedIsSound ==
  ASSUME NEW s, Sound(s), NEW k \in Nat \ {ExportKey}
  PROVE  /\ Sound(SealedBy(s, k))
         /\ Decrypted(SealedBy(s, k), k) = Decrypted(s, k)
         /\ [SealedBy(s, k) EXCEPT !.layers = <<>>] = [s EXCEPT !.layers = <<>>]
<1>1. PICK v : s = Secret(v, <<>>) \/ \E x \in Nat \ {ExportKey} : s = Secret(v, <<x>>) BY SoundForms
<1>2. SealedBy(s, k) = s \/ (s = Secret(v, <<>>) /\ SealedBy(s, k) = Secret(v, <<k>>)) BY <1>1, SealedForms
<1>3. Sound(SealedBy(s, k)) BY <1>2, SoundForms
<1>4. \A l : [Secret(v, l) EXCEPT !.layers = <<>>] = Secret(v, <<>>) BY DEF Secret
<1>5. Decrypted(SealedBy(s, k), k) = Decrypted(s, k) BY <1>2, OpenedForms
<1> QED BY <1>1, <1>2, <1>3, <1>4, <1>5

LEMMA OpenedIsSound ==
  ASSUME NEW s, Sound(Decrypted(s, ExportKey)), NEW k
  PROVE  Sound(Opened(s, k))
<1>1. CASE Decrypted(s, ExportKey) # s BY <1>1 DEF Opened
<1>2. CASE Decrypted(s, ExportKey) = s
  <2>1. Opened(s, k) = Decrypted(s, k) BY <1>2 DEF Opened
  <2> QED BY <1>2, <2>1, DecryptedIsSound
<1> QED BY <1>1, <1>2

LEMMA SavedPasswordIsSound ==
  ASSUME NEW sessions, NEW fresh, SessionList(sessions, fresh), NEW id, NEW auth, NEW typed
  PROVE  Sound(SavedPassword(sessions, id, auth, typed))
<1>1. CASE typed # "" BY <1>1, PlainIsSound DEF SavedPassword
<1>2. CASE typed = "" /\ id \in Ids(sessions) /\ Get(sessions, id).auth = auth
  <2>1. Sound(Get(sessions, id).secret) BY <1>2, GetIsIn DEF SessionBelow
  <2> QED BY <1>2, <2>1 DEF SavedPassword
<1>3. CASE typed = "" /\ ~(id \in Ids(sessions) /\ Get(sessions, id).auth = auth)
  BY <1>3, PlainIsSound DEF SavedPassword
<1> QED BY <1>1, <1>2, <1>3

(* The lists of a save and of a start. *)
OpenedWith(sessions, k) == WithSecrets(sessions, LAMBDA s : Decrypted(s, k))
SealedWith(sessions, k) == WithSecrets(sessions, LAMBDA s : SealedBy(s, k))
Erased(sessions) == WithSecrets(sessions, LAMBDA s : [s EXCEPT !.layers = <<>>])

LEMMA OpenedList ==
  ASSUME NEW sessions, NEW fresh, Sessions(sessions, fresh), NEW k
  PROVE  Sessions(OpenedWith(sessions, k), fresh)
<1>1. PICK changed : changed = OpenedWith(sessions, k) OBVIOUS
<1>2. changed = [i \in DOMAIN sessions |-> [sessions[i] EXCEPT !.secret = Decrypted(sessions[i].secret, k)]]
  BY <1>1 DEF WithSecrets, OpenedWith, SealedWith, Erased
<1>3. changed = [i \in DOMAIN sessions |-> changed[i]] BY <1>2
<1>4. ASSUME NEW i \in DOMAIN sessions
      PROVE  SessionBelow(changed[i], fresh) /\ changed[i].id = sessions[i].id
  <2>1. SessionBelow(sessions[i], fresh) BY DEF Sessions, SessionList
  <2>2. Sound(Decrypted(sessions[i].secret, k)) BY <2>1, DecryptedIsSound DEF SessionBelow
  <2>3. changed[i] = [sessions[i] EXCEPT !.secret = Decrypted(sessions[i].secret, k)] BY <1>2
  <2> QED BY <2>1, <2>2, <2>3, ChangedSession
<1> QED BY <1>1, <1>3, <1>4, SameIds

LEMMA SealedList ==
  ASSUME NEW sessions, NEW fresh, Sessions(sessions, fresh), NEW k \in Nat \ {ExportKey}
  PROVE  Sessions(SealedWith(sessions, k), fresh)
<1>1. PICK changed : changed = SealedWith(sessions, k) OBVIOUS
<1>2. changed = [i \in DOMAIN sessions |-> [sessions[i] EXCEPT !.secret = SealedBy(sessions[i].secret, k)]]
  BY <1>1 DEF WithSecrets, OpenedWith, SealedWith, Erased
<1>3. changed = [i \in DOMAIN sessions |-> changed[i]] BY <1>2
<1>4. ASSUME NEW i \in DOMAIN sessions
      PROVE  SessionBelow(changed[i], fresh) /\ changed[i].id = sessions[i].id
  <2>1. SessionBelow(sessions[i], fresh) BY DEF Sessions, SessionList
  <2>2. Sound(SealedBy(sessions[i].secret, k)) BY <2>1, SealedIsSound DEF SessionBelow
  <2>3. changed[i] = [sessions[i] EXCEPT !.secret = SealedBy(sessions[i].secret, k)] BY <1>2
  <2> QED BY <2>1, <2>2, <2>3, ChangedSession
<1> QED BY <1>1, <1>3, <1>4, SameIds

(* What a save wrote and a start reads: the list that was saved, with its passwords
   readable under the same key, and in any case the list but for what seals them. *)
LEMMA SecretsOfSecrets ==
  ASSUME NEW s, NEW a, NEW b
  PROVE  [[s EXCEPT !.secret = a] EXCEPT !.secret = b] = [s EXCEPT !.secret = b]
OBVIOUS

LEMMA RestoredList ==
  ASSUME NEW sessions, NEW fresh, Sessions(sessions, fresh), NEW k \in Nat \ {ExportKey}, NEW now
  PROVE  LET file == SealedWith(sessions, k)
             read == OpenedWith(file, now)
         IN /\ now = k => read = OpenedWith(sessions, k)
            /\ Erased(read)
                 = Erased(sessions)
<1>1. PICK file : file = SealedWith(sessions, k) OBVIOUS
<1>2. PICK read : read = OpenedWith(file, now) OBVIOUS
<1>3. file = [i \in DOMAIN sessions |-> [sessions[i] EXCEPT !.secret = SealedBy(sessions[i].secret, k)]]
  BY <1>1 DEF WithSecrets, OpenedWith, SealedWith, Erased
<1>4. read = [i \in DOMAIN file |-> [file[i] EXCEPT !.secret = Decrypted(file[i].secret, now)]]
  BY <1>2 DEF WithSecrets, OpenedWith, SealedWith, Erased
<1>5. DOMAIN file = DOMAIN sessions /\ DOMAIN read = DOMAIN sessions BY <1>3, <1>4
<1>6. ASSUME NEW i \in DOMAIN sessions
      PROVE  /\ Sound(sessions[i].secret)
             /\ file[i].secret = SealedBy(sessions[i].secret, k)
             /\ read[i] = [sessions[i] EXCEPT !.secret = Decrypted(SealedBy(sessions[i].secret, k), now)]
             /\ read[i].secret = Decrypted(SealedBy(sessions[i].secret, k), now)
  <2>1. SessionBelow(sessions[i], fresh) BY DEF Sessions, SessionList
  <2>2. Sound(sessions[i].secret) BY <2>1 DEF SessionBelow
  <2>3. file[i] = [sessions[i] EXCEPT !.secret = SealedBy(sessions[i].secret, k)] BY <1>3
  <2>4. Sound(SealedBy(sessions[i].secret, k)) BY <2>2, SealedIsSound
  <2>5. file[i].secret = SealedBy(sessions[i].secret, k) BY <2>1, <2>3, <2>4, ChangedSession
  <2>6. read[i] = [file[i] EXCEPT !.secret = Decrypted(SealedBy(sessions[i].secret, k), now)]
    BY <1>4, <1>5, <2>5
  <2>7. read[i] = [sessions[i] EXCEPT !.secret = Decrypted(SealedBy(sessions[i].secret, k), now)]
    BY <2>3, <2>6, SecretsOfSecrets
  <2>8. Sound(Decrypted(SealedBy(sessions[i].secret, k), now)) BY <2>4, DecryptedIsSound
  <2>9. read[i].secret = Decrypted(SealedBy(sessions[i].secret, k), now)
    BY <2>1, <2>7, <2>8, ChangedSession
  <2> QED BY <2>2, <2>5, <2>7, <2>9
<1>7. ASSUME now = k
      PROVE  read = OpenedWith(sessions, k)
  <2>1. \A i \in DOMAIN sessions :
          read[i] = [sessions[i] EXCEPT !.secret = Decrypted(sessions[i].secret, k)]
    BY <1>6, <1>7, SealedIsSound
  <2>2. read = [i \in DOMAIN sessions |-> [sessions[i] EXCEPT !.secret = Decrypted(sessions[i].secret, k)]]
    BY <1>4, <1>5, <2>1
  <2> QED BY <2>2 DEF WithSecrets, OpenedWith, SealedWith, Erased
<1>8. Erased(read)
        = Erased(sessions)
  <2> DEFINE plain(s) == [s EXCEPT !.layers = <<>>]
  <2>1. ASSUME NEW i \in DOMAIN sessions
        PROVE  [read[i] EXCEPT !.secret = plain(read[i].secret)]
                 = [sessions[i] EXCEPT !.secret = plain(sessions[i].secret)]
    <3>1. plain(read[i].secret) = plain(sessions[i].secret)
      <4>1. Sound(sessions[i].secret) /\ read[i].secret = Decrypted(SealedBy(sessions[i].secret, k), now)
        BY <1>6
      <4>2. Sound(SealedBy(sessions[i].secret, k))
            /\ plain(SealedBy(sessions[i].secret, k)) = plain(sessions[i].secret)
        BY <4>1, SealedIsSound
      <4>3. plain(Decrypted(SealedBy(sessions[i].secret, k), now)) = plain(SealedBy(sessions[i].secret, k))
        BY <4>2, DecryptedIsSound
      <4> QED BY <4>1, <4>2, <4>3
    <3> HIDE DEF plain
    <3> QED BY <1>6, <3>1, SecretsOfSecrets
  <2>2. [i \in DOMAIN read |-> [read[i] EXCEPT !.secret = plain(read[i].secret)]]
          = [i \in DOMAIN sessions |-> [sessions[i] EXCEPT !.secret = plain(sessions[i].secret)]]
    <3> HIDE DEF plain
    <3> QED BY <1>5, <2>1
  <2> QED BY <2>2 DEF WithSecrets, OpenedWith, SealedWith, Erased
<1> QED BY <1>1, <1>2, <1>7, <1>8

-----------------------------------------------------------------------------
(* Imports: what is added gets the next ids. *)
GoodEntries(entries) ==
  IsSeq(entries) /\ \A i \in DOMAIN entries : IsSession(entries[i].new) /\ Sound(entries[i].new.secret)

LEMMA ImportedKeeps ==
  ASSUME NEW sessions, NEW fresh \in Nat, Sessions(sessions, fresh), NEW entries, GoodEntries(entries)
  PROVE  LET all == Imported(sessions, entries, fresh)
         IN /\ fresh + Len(all) - Len(sessions) \in Nat
            /\ fresh <= fresh + Len(all) - Len(sessions)
            /\ Sessions(all, fresh + Len(all) - Len(sessions))
<1> DEFINE kept[i \in DOMAIN entries] ==
             /\ \A j \in DOMAIN sessions : ~Known(sessions[j], entries[i])
             /\ \A j \in 1..(i - 1) : kept[j] => ~Known(entries[j].new, entries[i])
           K == {i \in DOMAIN entries : kept[i]}
           new == At(entries, K)
           added == [p \in DOMAIN new |-> [new[p].new EXCEPT !.id = fresh + p - 1]]
<1>1. K \in SUBSET (DOMAIN entries) OBVIOUS
<1>2. Imported(sessions, entries, fresh) = sessions \o added BY DEF Imported
<1> HIDE DEF K
<1>3. IsSeq(entries) BY DEF GoodEntries
<1>4. /\ IsSeq(new) /\ \A p \in DOMAIN new : Nth(K, p) \in K /\ new[p] = entries[Nth(K, p)]
  BY <1>1, <1>3, AtOfSet
<1>5. \A p \in DOMAIN new : IsSession(new[p].new) /\ Sound(new[p].new.secret)
  BY <1>1, <1>4 DEF GoodEntries
<1> HIDE DEF new
<1>6. Len(new) \in Nat /\ DOMAIN new = 1..Len(new) BY <1>4, FunctionOfSeq
<1>7. /\ IsSeq(added) /\ Len(added) = Len(new) /\ DOMAIN added = 1..Len(new)
      /\ \A p \in 1..Len(new) : added[p] = [new[p].new EXCEPT !.id = fresh + p - 1]
  <2>1. PICK a : a = added OBVIOUS
  <2>2. a = [p \in 1..Len(new) |-> a[p]] BY <1>6, <2>1
  <2>3. IsSeq(a) /\ Len(a) = Len(new) /\ DOMAIN a = 1..Len(new) BY <1>6, <2>2, SeqOfFunction
  <2> QED BY <1>6, <2>1, <2>3
<1> HIDE DEF added
<1>8. IsSeq(sessions) BY DEF Sessions, SessionList
<1>9. Len(sessions) \in Nat /\ DOMAIN sessions = 1..Len(sessions) BY <1>8, FunctionOfSeq
<1> DEFINE all == sessions \o added
           more == fresh + Len(new)
<1>10. /\ IsSeq(all) /\ Len(all) = Len(sessions) + Len(new)
       /\ \A i \in DOMAIN sessions : all[i] = sessions[i]
       /\ \A i \in DOMAIN all \ DOMAIN sessions :
            i - Len(sessions) \in 1..Len(new) /\ all[i] = added[i - Len(sessions)]
  <2>1. IsSeq(all) /\ Len(all) = Len(sessions) + Len(added) BY <1>7, <1>8, ConcatOfSeqs
  <2>2. \A i \in DOMAIN sessions : all[i] = sessions[i] BY <1>7, <1>8, ConcatOfSeqs
  <2>3. \A i \in DOMAIN all \ DOMAIN sessions :
          i - Len(sessions) \in DOMAIN added /\ all[i] = added[i - Len(sessions)]
    BY <1>7, <1>8, ConcatOfSeqs
  <2> HIDE DEF all
  <2> QED BY <1>7, <2>1, <2>2, <2>3
<1>11. more \in Nat /\ fresh <= more /\ fresh + Len(all) - Len(sessions) = more BY <1>6, <1>9, <1>10
<1>12. ASSUME NEW p \in 1..Len(new)
       PROVE  SessionBelow(added[p], more) /\ added[p].id = fresh + p - 1
  <2>1. IsSession(new[p].new) /\ Sound(new[p].new.secret) BY <1>5, <1>6
  <2>2. fresh + p - 1 \in Nat /\ fresh + p - 1 < more BY <1>6
  <2>3. PICK id : id = fresh + p - 1 OBVIOUS
  <2>4. added[p] = [new[p].new EXCEPT !.id = id] BY <1>7, <2>3
  <2> HIDE DEF more
  <2>5. id \in Nat /\ id < more BY <2>2, <2>3
  <2>6. /\ SessionBelow([new[p].new EXCEPT !.id = id], more)
        /\ [new[p].new EXCEPT !.id = id].id = id
    BY <1>11, <2>1, <2>5, NewIdSession
  <2> QED BY <2>3, <2>4, <2>6
<1> HIDE DEF all, more
<1>13. Sessions(sessions, more) BY <1>11, SessionsBelowMore
<1>14. SessionList(all, more) BY <1>10, <1>12, <1>13 DEF Sessions, SessionList
<1>15. UniqueIds(all)
  <2> SUFFICES ASSUME NEW i \in DOMAIN all, NEW j \in DOMAIN all, all[i].id = all[j].id
               PROVE  i = j
    BY DEF UniqueIds
  <2>1. i \in Nat /\ j \in Nat BY <1>10, FunctionOfSeq
  <2>2. \A n \in DOMAIN sessions : all[n].id \in Nat /\ all[n].id < fresh
    BY <1>10 DEF Sessions, SessionList, SessionBelow
  <2>3. \A n \in DOMAIN all \ DOMAIN sessions :
          n - Len(sessions) \in 1..Len(new) /\ all[n].id = fresh + (n - Len(sessions)) - 1
    BY <1>10, <1>12
  <2>4. CASE i \in DOMAIN sessions /\ j \in DOMAIN sessions
    BY <1>10, <2>4 DEF Sessions, UniqueIds
  <2>5. CASE i \in DOMAIN sessions /\ j \notin DOMAIN sessions
    <3>1. all[i].id < fresh /\ all[j].id = fresh + (j - Len(sessions)) - 1 /\ j - Len(sessions) \in 1..Len(new)
      BY <2>2, <2>3, <2>5
    <3> QED BY <1>6, <1>9, <2>1, <3>1
  <2>6. CASE i \notin DOMAIN sessions /\ j \in DOMAIN sessions
    <3>1. all[j].id < fresh /\ all[i].id = fresh + (i - Len(sessions)) - 1 /\ i - Len(sessions) \in 1..Len(new)
      BY <2>2, <2>3, <2>6
    <3> QED BY <1>6, <1>9, <2>1, <3>1
  <2>7. CASE i \notin DOMAIN sessions /\ j \notin DOMAIN sessions
    <3>1. all[i].id = fresh + (i - Len(sessions)) - 1 /\ all[j].id = fresh + (j - Len(sessions)) - 1
      BY <2>3, <2>7
    <3>2. fresh + (i - Len(sessions)) - 1 = fresh + (j - Len(sessions)) - 1 BY <3>1
    <3> QED BY <1>9, <2>1, <3>2
  <2> QED BY <2>4, <2>5, <2>6, <2>7
<1> QED BY <1>2, <1>11, <1>14, <1>15 DEF Sessions, all

-----------------------------------------------------------------------------
(* Configurations *)

(* What the program holds, where every id is below the next one, and what it finds
   on the disk, which may be older and repeat commands. *)
Good(cfg, fresh) ==
  /\ IsConfig(cfg)
  /\ Sessions(cfg.sessions, fresh)
  /\ NameList(cfg.groups) /\ NameList(cfg.quickGroups)
  /\ ShortList(cfg.history, HistoryCap) /\ ShortList(cfg.dirs, DirCap)
Current(cfg, fresh) == Good(cfg, fresh) /\ cfg.rev = DefaultsRev
Loadable(cfg, fresh) ==
  /\ IsConfig(cfg) /\ cfg.rev \in 0..DefaultsRev
  /\ IsSeq(cfg.history)
  /\ Good([cfg EXCEPT !.history = DedupKeepLast(@)], fresh)

LEMMA GoodIsClean ==
  ASSUME NEW cfg, NEW fresh, Good(cfg, fresh)
  PROVE  Clean(cfg)
<1>1. \A i, j \in DOMAIN cfg.sessions : cfg.sessions[i].id = cfg.sessions[j].id => i = j
  BY DEF Good, Sessions, UniqueIds
<1>2. \A names \in {cfg.groups, cfg.quickGroups} :
        Unique(names) /\ \A i \in DOMAIN names : names[i] \notin {NoName, Default}
  BY DEF Good, NameList
<1> QED BY <1>1, <1>2 DEF Good, ShortList, Clean

Fields(sessions, groups, quick, quickGroups, history, dirs, sidebar, rev) ==
  [sessions |-> sessions, groups |-> groups, quick |-> quick, quickGroups |-> quickGroups,
   history |-> history, dirs |-> dirs, sidebar |-> sidebar, rev |-> rev]

HasFields(cfg, sessions, groups, quick, quickGroups, history, dirs, sidebar, rev) ==
  /\ IsConfig(cfg)
  /\ cfg.sessions = sessions /\ cfg.groups = groups /\ cfg.quick = quick
  /\ cfg.quickGroups = quickGroups /\ cfg.history = history /\ cfg.dirs = dirs
  /\ cfg.sidebar = sidebar /\ cfg.rev = rev

(* A configuration by its fields, which tells what a changed one holds. *)
LEMMA FieldsOfConfig ==
  ASSUME NEW sessions, NEW groups, NEW quick, NEW quickGroups, NEW history, NEW dirs, NEW sidebar,
         NEW rev
  PROVE  HasFields(Fields(sessions, groups, quick, quickGroups, history, dirs, sidebar, rev),
                   sessions, groups, quick, quickGroups, history, dirs, sidebar, rev)
<1>1. PICK cfg : cfg = Fields(sessions, groups, quick, quickGroups, history, dirs, sidebar, rev) OBVIOUS
<1>2. /\ cfg.sessions = sessions /\ cfg.groups = groups /\ cfg.quick = quick
      /\ cfg.quickGroups = quickGroups /\ cfg.history = history /\ cfg.dirs = dirs
      /\ cfg.sidebar = sidebar /\ cfg.rev = rev
  BY <1>1 DEF Fields
<1>3. IsConfig(cfg) BY <1>1, <1>2 DEF IsConfig, Fields
<1> QED BY <1>1, <1>2, <1>3 DEF HasFields

(* One field changed. *)
LEMMA ConfigExcept ==
  ASSUME NEW cfg, IsConfig(cfg), NEW x
  PROVE  /\ HasFields([cfg EXCEPT !.sessions = x],
              x, cfg.groups, cfg.quick, cfg.quickGroups, cfg.history, cfg.dirs, cfg.sidebar, cfg.rev)
         /\ HasFields([cfg EXCEPT !.groups = x],
              cfg.sessions, x, cfg.quick, cfg.quickGroups, cfg.history, cfg.dirs, cfg.sidebar, cfg.rev)
         /\ HasFields([cfg EXCEPT !.quick = x],
              cfg.sessions, cfg.groups, x, cfg.quickGroups, cfg.history, cfg.dirs, cfg.sidebar, cfg.rev)
         /\ HasFields([cfg EXCEPT !.quickGroups = x],
              cfg.sessions, cfg.groups, cfg.quick, x, cfg.history, cfg.dirs, cfg.sidebar, cfg.rev)
         /\ HasFields([cfg EXCEPT !.history = x],
              cfg.sessions, cfg.groups, cfg.quick, cfg.quickGroups, x, cfg.dirs, cfg.sidebar, cfg.rev)
         /\ HasFields([cfg EXCEPT !.dirs = x],
              cfg.sessions, cfg.groups, cfg.quick, cfg.quickGroups, cfg.history, x, cfg.sidebar, cfg.rev)
         /\ HasFields([cfg EXCEPT !.sidebar = x],
              cfg.sessions, cfg.groups, cfg.quick, cfg.quickGroups, cfg.history, cfg.dirs, x, cfg.rev)
         /\ HasFields([cfg EXCEPT !.rev = x],
              cfg.sessions, cfg.groups, cfg.quick, cfg.quickGroups, cfg.history, cfg.dirs, cfg.sidebar, x)
<1>1. cfg = Fields(cfg.sessions, cfg.groups, cfg.quick, cfg.quickGroups, cfg.history, cfg.dirs,
                   cfg.sidebar, cfg.rev)
  BY DEF IsConfig, Fields
<1>2. HasFields([cfg EXCEPT !.sessions = x],
        x, cfg.groups, cfg.quick, cfg.quickGroups, cfg.history, cfg.dirs, cfg.sidebar, cfg.rev)
  <2>1. [cfg EXCEPT !.sessions = x] =
          Fields(x, cfg.groups, cfg.quick, cfg.quickGroups, cfg.history, cfg.dirs, cfg.sidebar, cfg.rev)
    BY <1>1 DEF Fields
  <2> QED BY <2>1, FieldsOfConfig
<1>3. HasFields([cfg EXCEPT !.groups = x],
        cfg.sessions, x, cfg.quick, cfg.quickGroups, cfg.history, cfg.dirs, cfg.sidebar, cfg.rev)
  <2>1. [cfg EXCEPT !.groups = x] =
          Fields(cfg.sessions, x, cfg.quick, cfg.quickGroups, cfg.history, cfg.dirs, cfg.sidebar, cfg.rev)
    BY <1>1 DEF Fields
  <2> QED BY <2>1, FieldsOfConfig
<1>4. HasFields([cfg EXCEPT !.quick = x],
        cfg.sessions, cfg.groups, x, cfg.quickGroups, cfg.history, cfg.dirs, cfg.sidebar, cfg.rev)
  <2>1. [cfg EXCEPT !.quick = x] =
          Fields(cfg.sessions, cfg.groups, x, cfg.quickGroups, cfg.history, cfg.dirs, cfg.sidebar, cfg.rev)
    BY <1>1 DEF Fields
  <2> QED BY <2>1, FieldsOfConfig
<1>5. HasFields([cfg EXCEPT !.quickGroups = x],
        cfg.sessions, cfg.groups, cfg.quick, x, cfg.history, cfg.dirs, cfg.sidebar, cfg.rev)
  <2>1. [cfg EXCEPT !.quickGroups = x] =
          Fields(cfg.sessions, cfg.groups, cfg.quick, x, cfg.history, cfg.dirs, cfg.sidebar, cfg.rev)
    BY <1>1 DEF Fields
  <2> QED BY <2>1, FieldsOfConfig
<1>6. HasFields([cfg EXCEPT !.history = x],
        cfg.sessions, cfg.groups, cfg.quick, cfg.quickGroups, x, cfg.dirs, cfg.sidebar, cfg.rev)
  <2>1. [cfg EXCEPT !.history = x] =
          Fields(cfg.sessions, cfg.groups, cfg.quick, cfg.quickGroups, x, cfg.dirs, cfg.sidebar, cfg.rev)
    BY <1>1 DEF Fields
  <2> QED BY <2>1, FieldsOfConfig
<1>7. HasFields([cfg EXCEPT !.dirs = x],
        cfg.sessions, cfg.groups, cfg.quick, cfg.quickGroups, cfg.history, x, cfg.sidebar, cfg.rev)
  <2>1. [cfg EXCEPT !.dirs = x] =
          Fields(cfg.sessions, cfg.groups, cfg.quick, cfg.quickGroups, cfg.history, x, cfg.sidebar, cfg.rev)
    BY <1>1 DEF Fields
  <2> QED BY <2>1, FieldsOfConfig
<1>8. HasFields([cfg EXCEPT !.sidebar = x],
        cfg.sessions, cfg.groups, cfg.quick, cfg.quickGroups, cfg.history, cfg.dirs, x, cfg.rev)
  <2>1. [cfg EXCEPT !.sidebar = x] =
          Fields(cfg.sessions, cfg.groups, cfg.quick, cfg.quickGroups, cfg.history, cfg.dirs, x, cfg.rev)
    BY <1>1 DEF Fields
  <2> QED BY <2>1, FieldsOfConfig
<1>9. HasFields([cfg EXCEPT !.rev = x],
        cfg.sessions, cfg.groups, cfg.quick, cfg.quickGroups, cfg.history, cfg.dirs, cfg.sidebar, x)
  <2>1. [cfg EXCEPT !.rev = x] =
          Fields(cfg.sessions, cfg.groups, cfg.quick, cfg.quickGroups, cfg.history, cfg.dirs, cfg.sidebar, x)
    BY <1>1 DEF Fields
  <2> QED BY <2>1, FieldsOfConfig
<1> QED BY <1>2, <1>3, <1>4, <1>5, <1>6, <1>7, <1>8, <1>9

(* A configuration stays good when one of its lists is replaced by a good one. *)
LEMMA ChangedConfig ==
  ASSUME NEW cfg, NEW fresh, Good(cfg, fresh), NEW x
  PROVE  /\ \A more : Sessions(x, more) => Good([cfg EXCEPT !.sessions = x], more)
         /\ NameList(x) => Good([cfg EXCEPT !.groups = x], fresh)
         /\ Good([cfg EXCEPT !.quick = x], fresh)
         /\ NameList(x) => Good([cfg EXCEPT !.quickGroups = x], fresh)
         /\ ShortList(x, HistoryCap) => Good([cfg EXCEPT !.history = x], fresh)
         /\ ShortList(x, DirCap) => Good([cfg EXCEPT !.dirs = x], fresh)
         /\ Good([cfg EXCEPT !.sidebar = x], fresh)
         /\ Good([cfg EXCEPT !.rev = x], fresh)
<1>1. IsConfig(cfg) BY DEF Good
<1>2. /\ Sessions(cfg.sessions, fresh) /\ NameList(cfg.groups) /\ NameList(cfg.quickGroups)
      /\ ShortList(cfg.history, HistoryCap) /\ ShortList(cfg.dirs, DirCap)
  BY DEF Good
<1>3. \A more : Sessions(x, more) => Good([cfg EXCEPT !.sessions = x], more)
  <2>1. PICK c : c = [cfg EXCEPT !.sessions = x] OBVIOUS
  <2>2. HasFields(c, x, cfg.groups, cfg.quick, cfg.quickGroups, cfg.history, cfg.dirs, cfg.sidebar, cfg.rev)
    BY <1>1, <2>1, ConfigExcept
  <2> QED BY <1>2, <2>1, <2>2 DEF HasFields, Good
<1>4. NameList(x) => Good([cfg EXCEPT !.groups = x], fresh)
  <2>1. PICK c : c = [cfg EXCEPT !.groups = x] OBVIOUS
  <2>2. HasFields(c, cfg.sessions, x, cfg.quick, cfg.quickGroups, cfg.history, cfg.dirs, cfg.sidebar, cfg.rev)
    BY <1>1, <2>1, ConfigExcept
  <2> QED BY <1>2, <2>1, <2>2 DEF HasFields, Good
<1>5. Good([cfg EXCEPT !.quick = x], fresh)
  <2>1. PICK c : c = [cfg EXCEPT !.quick = x] OBVIOUS
  <2>2. HasFields(c, cfg.sessions, cfg.groups, x, cfg.quickGroups, cfg.history, cfg.dirs, cfg.sidebar, cfg.rev)
    BY <1>1, <2>1, ConfigExcept
  <2> QED BY <1>2, <2>1, <2>2 DEF HasFields, Good
<1>6. NameList(x) => Good([cfg EXCEPT !.quickGroups = x], fresh)
  <2>1. PICK c : c = [cfg EXCEPT !.quickGroups = x] OBVIOUS
  <2>2. HasFields(c, cfg.sessions, cfg.groups, cfg.quick, x, cfg.history, cfg.dirs, cfg.sidebar, cfg.rev)
    BY <1>1, <2>1, ConfigExcept
  <2> QED BY <1>2, <2>1, <2>2 DEF HasFields, Good
<1>7. ShortList(x, HistoryCap) => Good([cfg EXCEPT !.history = x], fresh)
  <2>1. PICK c : c = [cfg EXCEPT !.history = x] OBVIOUS
  <2>2. HasFields(c, cfg.sessions, cfg.groups, cfg.quick, cfg.quickGroups, x, cfg.dirs, cfg.sidebar, cfg.rev)
    BY <1>1, <2>1, ConfigExcept
  <2> QED BY <1>2, <2>1, <2>2 DEF HasFields, Good
<1>8. ShortList(x, DirCap) => Good([cfg EXCEPT !.dirs = x], fresh)
  <2>1. PICK c : c = [cfg EXCEPT !.dirs = x] OBVIOUS
  <2>2. HasFields(c, cfg.sessions, cfg.groups, cfg.quick, cfg.quickGroups, cfg.history, x, cfg.sidebar, cfg.rev)
    BY <1>1, <2>1, ConfigExcept
  <2> QED BY <1>2, <2>1, <2>2 DEF HasFields, Good
<1>9. Good([cfg EXCEPT !.sidebar = x], fresh)
  <2>1. PICK c : c = [cfg EXCEPT !.sidebar = x] OBVIOUS
  <2>2. HasFields(c, cfg.sessions, cfg.groups, cfg.quick, cfg.quickGroups, cfg.history, cfg.dirs, x, cfg.rev)
    BY <1>1, <2>1, ConfigExcept
  <2> QED BY <1>2, <2>1, <2>2 DEF HasFields, Good
<1>10. Good([cfg EXCEPT !.rev = x], fresh)
  <2>1. PICK c : c = [cfg EXCEPT !.rev = x] OBVIOUS
  <2>2. HasFields(c, cfg.sessions, cfg.groups, cfg.quick, cfg.quickGroups, cfg.history, cfg.dirs, cfg.sidebar, x)
    BY <1>1, <2>1, ConfigExcept
  <2> QED BY <1>2, <2>1, <2>2 DEF HasFields, Good
<1> QED BY <1>3, <1>4, <1>5, <1>6, <1>7, <1>8, <1>9, <1>10

LEMMA ChangedRev ==
  ASSUME NEW cfg, IsConfig(cfg), NEW x
  PROVE  /\ [cfg EXCEPT !.sessions = x].rev = cfg.rev /\ [cfg EXCEPT !.groups = x].rev = cfg.rev
         /\ [cfg EXCEPT !.quick = x].rev = cfg.rev /\ [cfg EXCEPT !.quickGroups = x].rev = cfg.rev
         /\ [cfg EXCEPT !.history = x].rev = cfg.rev /\ [cfg EXCEPT !.dirs = x].rev = cfg.rev
         /\ [cfg EXCEPT !.sidebar = x].rev = cfg.rev /\ [cfg EXCEPT !.rev = x].rev = x
BY ConfigExcept DEF HasFields

(* Two configurations of the same fields are the same. *)
LEMMA SameFields ==
  ASSUME NEW c, NEW d, NEW sessions, NEW groups, NEW quick, NEW quickGroups, NEW history, NEW dirs,
         NEW sidebar, NEW rev,
         HasFields(c, sessions, groups, quick, quickGroups, history, dirs, sidebar, rev),
         HasFields(d, sessions, groups, quick, quickGroups, history, dirs, sidebar, rev)
  PROVE  c = d
BY DEF HasFields, IsConfig

(* Groups are renamed and removed together with their members. *)
LEMMA TwoFieldsChanged ==
  ASSUME NEW cfg, NEW fresh, Current(cfg, fresh), NEW names, NameList(names)
  PROVE  /\ \A list : Sessions(list, fresh) =>
              Current([[cfg EXCEPT !.groups = names] EXCEPT !.sessions = list], fresh)
         /\ \A list : Current([[cfg EXCEPT !.quickGroups = names] EXCEPT !.quick = list], fresh)
<1>1. PICK c : c = [cfg EXCEPT !.groups = names] OBVIOUS
<1>2. Good(c, fresh) /\ c.rev = DefaultsRev
  BY <1>1, ChangedConfig, ChangedRev DEF Current, Good
<1>3. \A list : Sessions(list, fresh) => Current([c EXCEPT !.sessions = list], fresh)
  BY <1>2, ChangedConfig, ChangedRev DEF Current, Good
<1>4. PICK d : d = [cfg EXCEPT !.quickGroups = names] OBVIOUS
<1>5. Good(d, fresh) /\ d.rev = DefaultsRev
  BY <1>4, ChangedConfig, ChangedRev DEF Current, Good
<1>6. \A list : Current([d EXCEPT !.quick = list], fresh)
  BY <1>5, ChangedConfig, ChangedRev DEF Current, Good
<1> QED BY <1>1, <1>3, <1>4, <1>6

LEMMA GroupChangesKeep ==
  ASSUME NEW cfg, NEW fresh, Current(cfg, fresh), NEW old, NEW new \in Nat
  PROVE  /\ Current(RenameGroup(cfg, old, new), fresh) /\ Current(RemoveGroup(cfg, old), fresh)
         /\ Current(RenameQuickGroup(cfg, old, new), fresh) /\ Current(RemoveQuickGroup(cfg, old), fresh)
<1>1. /\ NameList(cfg.groups) /\ NameList(cfg.quickGroups) /\ Sessions(cfg.sessions, fresh)
      /\ IsConfig(cfg)
  BY DEF Current, Good
<1> DEFINE renamed == RenameName(cfg.groups, old, new)
           members == IF Renamable(old, new) THEN Regroup(cfg.sessions, old, new) ELSE cfg.sessions
           renamedQuick == RenameName(cfg.quickGroups, old, new)
           quick == IF Renamable(old, new) THEN Regroup(cfg.quick, old, new) ELSE cfg.quick
<1>2. RenameGroup(cfg, old, new) = [[cfg EXCEPT !.groups = renamed] EXCEPT !.sessions = members]
  <2>1. PICK c : c = [cfg EXCEPT !.groups = renamed] OBVIOUS
  <2>2. c.sessions = cfg.sessions BY <1>1, <2>1, ConfigExcept DEF HasFields
  <2> QED BY <2>1, <2>2 DEF RenameGroup
<1>3. RemoveGroup(cfg, old) =
        [[cfg EXCEPT !.groups = Without(cfg.groups, old)] EXCEPT !.sessions = Regroup(cfg.sessions, old, NoName)]
  <2>1. PICK c : c = [cfg EXCEPT !.groups = Without(cfg.groups, old)] OBVIOUS
  <2>2. c.sessions = cfg.sessions BY <1>1, <2>1, ConfigExcept DEF HasFields
  <2> QED BY <2>1, <2>2 DEF RemoveGroup
<1>4. RenameQuickGroup(cfg, old, new) = [[cfg EXCEPT !.quickGroups = renamedQuick] EXCEPT !.quick = quick]
  <2>1. PICK c : c = [cfg EXCEPT !.quickGroups = renamedQuick] OBVIOUS
  <2>2. c.quick = cfg.quick BY <1>1, <2>1, ConfigExcept DEF HasFields
  <2> QED BY <2>1, <2>2 DEF RenameQuickGroup
<1>5. RemoveQuickGroup(cfg, old) =
        [[cfg EXCEPT !.quickGroups = Without(cfg.quickGroups, old)] EXCEPT !.quick = Regroup(cfg.quick, old, NoName)]
  <2>1. PICK c : c = [cfg EXCEPT !.quickGroups = Without(cfg.quickGroups, old)] OBVIOUS
  <2>2. c.quick = cfg.quick BY <1>1, <2>1, ConfigExcept DEF HasFields
  <2> QED BY <2>1, <2>2 DEF RemoveQuickGroup
<1>6. NameList(renamed) /\ NameList(renamedQuick) BY <1>1, RenameNameKeeps
<1>7. NameList(Without(cfg.groups, old)) /\ NameList(Without(cfg.quickGroups, old)) BY <1>1, WithoutKeeps
<1>8. Sessions(members, fresh) BY <1>1, RegroupKeeps
<1>9. Sessions(Regroup(cfg.sessions, old, NoName), fresh) BY <1>1, RegroupKeeps
<1> HIDE DEF renamed, members, renamedQuick, quick
<1>10. Current(RenameGroup(cfg, old, new), fresh)
  <2>1. Current([[cfg EXCEPT !.groups = renamed] EXCEPT !.sessions = members], fresh)
    BY <1>6, <1>8, TwoFieldsChanged
  <2> QED BY <1>2, <2>1
<1>11. Current(RemoveGroup(cfg, old), fresh)
  <2>1. Current([[cfg EXCEPT !.groups = Without(cfg.groups, old)]
                 EXCEPT !.sessions = Regroup(cfg.sessions, old, NoName)], fresh)
    BY <1>7, <1>9, TwoFieldsChanged
  <2> QED BY <1>3, <2>1
<1>12. Current(RenameQuickGroup(cfg, old, new), fresh)
  <2>1. Current([[cfg EXCEPT !.quickGroups = renamedQuick] EXCEPT !.quick = quick], fresh)
    BY <1>6, TwoFieldsChanged
  <2> QED BY <1>4, <2>1
<1>13. Current(RemoveQuickGroup(cfg, old), fresh)
  <2>1. Current([[cfg EXCEPT !.quickGroups = Without(cfg.quickGroups, old)]
                 EXCEPT !.quick = Regroup(cfg.quick, old, NoName)], fresh)
    BY <1>7, TwoFieldsChanged
  <2> QED BY <1>5, <2>1
<1> QED BY <1>10, <1>11, <1>12, <1>13

(* Defaults: what is migrated is current, and what is current is left alone. *)
LEMMA MigrateKeeps ==
  ASSUME NEW cfg, NEW fresh, Good(cfg, fresh), NEW starter
  PROVE  /\ Current(MigrateDefaults(cfg, starter), fresh)
         /\ cfg.rev = DefaultsRev => MigrateDefaults(cfg, starter) = cfg
<1> DEFINE rev1 == IF cfg.rev < 1 /\ cfg.sidebar = "unset" THEN [cfg EXCEPT !.sidebar = "on"] ELSE cfg
           rev2 == IF cfg.rev < 2 /\ cfg.quick = <<>>
                   THEN [rev1 EXCEPT !.quick = starter, !.quickGroups = AddName(rev1.quickGroups, 2)] ELSE rev1
<1>1. MigrateDefaults(cfg, starter) = [rev2 EXCEPT !.rev = DefaultsRev]
  <2>1. [[rev1 EXCEPT !.quick = starter] EXCEPT !.quickGroups = AddName(rev1.quickGroups, 2)]
          = [rev1 EXCEPT !.quick = starter, !.quickGroups = AddName(@, 2)]
    <3> HIDE DEF rev1
    <3> QED OBVIOUS
  <2> QED BY <2>1 DEF MigrateDefaults
<1>2. Good(rev1, fresh) BY ChangedConfig
<1> HIDE DEF rev1
<1>3. Good(rev2, fresh)
  <2>1. PICK c : c = [rev1 EXCEPT !.quick = starter] OBVIOUS
  <2>2. Good(c, fresh) BY <1>2, <2>1, ChangedConfig
  <2>3. NameList(AddName(rev1.quickGroups, 2)) BY <1>2, AddNameKeeps DEF Good
  <2>4. Good([c EXCEPT !.quickGroups = AddName(rev1.quickGroups, 2)], fresh) BY <2>2, <2>3, ChangedConfig
  <2>5. [c EXCEPT !.quickGroups = AddName(rev1.quickGroups, 2)]
          = [rev1 EXCEPT !.quick = starter, !.quickGroups = AddName(rev1.quickGroups, 2)]
    BY <2>1
  <2> QED BY <1>2, <2>4, <2>5
<1>4. Current(MigrateDefaults(cfg, starter), fresh)
  <2> HIDE DEF rev2
  <2>1. Good([rev2 EXCEPT !.rev = DefaultsRev], fresh) BY <1>3, ChangedConfig
  <2>2. IsConfig(rev2) BY <1>3 DEF Good
  <2>3. [rev2 EXCEPT !.rev = DefaultsRev].rev = DefaultsRev BY <2>2, ChangedRev
  <2> QED BY <1>1, <2>1, <2>3 DEF Current
<1>5. ASSUME cfg.rev = DefaultsRev PROVE MigrateDefaults(cfg, starter) = cfg
  <2>1. ~(cfg.rev < 1) /\ ~(cfg.rev < 2) BY <1>5 DEF DefaultsRev
  <2>2. rev2 = cfg BY <2>1 DEF rev1
  <2> HIDE DEF rev2
  <2>3. [cfg EXCEPT !.rev = cfg.rev] = cfg BY DEF Good, IsConfig
  <2> QED BY <1>1, <1>5, <2>2, <2>3
<1> QED BY <1>4, <1>5

-----------------------------------------------------------------------------
(* Files *)

(* A start without a file. *)
LEMMA FreshIsCurrent ==
  ASSUME NEW fresh
  PROVE  Current(FreshConfig(Starter), fresh) /\ FreshConfig(Starter).sessions = <<>>
<1>1. PICK cfg : cfg = FreshConfig(Starter) OBVIOUS
<1>2. cfg = Fields(<<>>, <<>>, Starter, <<2>>, <<>>, <<>>, "on", DefaultsRev)
  BY <1>1 DEF FreshConfig, Fields
<1>3. HasFields(cfg, <<>>, <<>>, Starter, <<2>>, <<>>, <<>>, "on", DefaultsRev) BY <1>2, FieldsOfConfig
<1>4. PICK none : none = <<>> OBVIOUS
<1>5. IsSeq(none) /\ Len(none) = 0 /\ DOMAIN none = {}
  <2>1. none \in Seq(Nat) /\ Len(none) = 0 BY <1>4, EmptySeq
  <2>2. IsSeq(none) BY <2>1, SeqIsSeq
  <2> QED BY <2>1, <2>2, FunctionOfSeq
<1>6. Sessions(none, fresh) BY <1>5 DEF Sessions, SessionList, UniqueIds
<1>7. NameList(none)
  <2>1. none \in Seq(Nat) BY <1>4, EmptySeq
  <2> QED BY <1>5, <2>1 DEF NameList, Unique
<1>8. HistoryCap \in Nat /\ DirCap \in Nat BY ConfigFileAssumption
<1>9. Unique(none) BY <1>5 DEF Unique
<1>10. ShortList(none, HistoryCap) /\ ShortList(none, DirCap) BY <1>5, <1>8, <1>9 DEF ShortList
<1>11. NameList(<<2>>)
  <2>1. <<2>> \in Seq(Nat) /\ DOMAIN <<2>> = {1} /\ <<2>>[1] = 2 OBVIOUS
  <2> QED BY <2>1 DEF NameList, Unique, NoName, Default
<1>12. Good(cfg, fresh) BY <1>3, <1>4, <1>6, <1>7, <1>10, <1>11 DEF HasFields, Good
<1> QED BY <1>1, <1>3, <1>12 DEF HasFields, Current

(* A list of sessions that is opened in a file whose history loses its repetitions. *)
LEMMA LoadedIsCurrent ==
  ASSUME NEW file, NEW fresh, Loadable(file, fresh), NEW k
  PROVE  Current(Loaded(file, k), fresh)
<1> DEFINE history == DedupKeepLast(file.history)
           sessions == OpenedWith(file.sessions, k)
<1>1. PICK c : c = [file EXCEPT !.history = history] OBVIOUS
<1>2. Good(c, fresh) /\ c.sessions = file.sessions
  <2>1. Good(c, fresh) BY <1>1 DEF Loadable
  <2>2. IsConfig(file) BY DEF Loadable
  <2> QED BY <1>1, <2>1, <2>2, ConfigExcept DEF HasFields
<1>3. Sessions(file.sessions, fresh) BY <1>2 DEF Good
<1>4. Sessions(sessions, fresh) BY <1>3, OpenedList
<1>5. PICK d : d = [file EXCEPT !.sessions = sessions, !.history = history] OBVIOUS
<1>6. Loaded(file, k) = MigrateDefaults(d, Starter)
  <2>1. PICK e : e = [file EXCEPT !.sessions = sessions] OBVIOUS
  <2>2. e.history = file.history BY <2>1, ConfigExcept DEF HasFields, Loadable
  <2>3. d = [e EXCEPT !.history = history] BY <1>5, <2>1
  <2> QED BY <2>1, <2>2, <2>3 DEF Loaded, OpenedWith, WithSecrets
<1> HIDE DEF sessions, history
<1>7. d = [c EXCEPT !.sessions = sessions]
  <2>1. IsConfig(file) /\ IsConfig(c) BY <1>2 DEF Loadable, Good
  <2>2. PICK e : e = [file EXCEPT !.sessions = sessions] OBVIOUS
  <2>3. HasFields(e, sessions, file.groups, file.quick, file.quickGroups, file.history, file.dirs,
                  file.sidebar, file.rev)
    BY <2>1, <2>2, ConfigExcept
  <2>4. d = [e EXCEPT !.history = history] BY <1>5, <2>2
  <2>5. HasFields(d, sessions, file.groups, file.quick, file.quickGroups, history, file.dirs,
                  file.sidebar, file.rev)
    <3>1. HasFields(d, e.sessions, e.groups, e.quick, e.quickGroups, history, e.dirs, e.sidebar, e.rev)
      <4>1. IsConfig(e) BY <2>3 DEF HasFields
      <4> QED BY <2>4, <4>1, ConfigExcept
    <3> QED BY <2>3, <3>1 DEF HasFields
  <2>6. HasFields(c, file.sessions, file.groups, file.quick, file.quickGroups, history, file.dirs,
                  file.sidebar, file.rev)
    BY <1>1, <2>1, ConfigExcept
  <2>7. HasFields([c EXCEPT !.sessions = sessions], sessions, file.groups, file.quick, file.quickGroups,
                  history, file.dirs, file.sidebar, file.rev)
    <3>1. PICK g : g = [c EXCEPT !.sessions = sessions] OBVIOUS
    <3>2. HasFields(g, sessions, c.groups, c.quick, c.quickGroups, c.history, c.dirs, c.sidebar, c.rev)
      BY <2>1, <3>1, ConfigExcept
    <3> QED BY <2>6, <3>1, <3>2 DEF HasFields
  <2> QED BY <2>5, <2>7, SameFields
<1>8. Good(d, fresh)
  <2>1. Good([c EXCEPT !.sessions = sessions], fresh) BY <1>2, <1>4, ChangedConfig
  <2> QED BY <1>7, <2>1
<1> QED BY <1>6, <1>8, MigrateKeeps

(* A current configuration goes to disk loadable. *)
LEMMA OnDiskIsLoadable ==
  ASSUME NEW cfg, NEW fresh, Current(cfg, fresh), NEW k \in Nat \ {ExportKey}
  PROVE  Loadable(OnDisk(cfg, k), fresh) /\ OnDisk(cfg, k).rev = DefaultsRev
<1> DEFINE sessions == SealedWith(cfg.sessions, k)
<1>1. PICK c : c = OnDisk(cfg, k) OBVIOUS
<1>2. c = [cfg EXCEPT !.sessions = sessions] BY <1>1 DEF OnDisk, SealedWith, WithSecrets
<1>3. Sessions(sessions, fresh) BY SealedList DEF Current, Good
<1> HIDE DEF sessions
<1>4. Good(c, fresh) /\ c.rev = DefaultsRev
  <2>1. Good([cfg EXCEPT !.sessions = sessions], fresh) BY <1>3, ChangedConfig DEF Current
  <2>2. [cfg EXCEPT !.sessions = sessions].rev = DefaultsRev BY ChangedRev DEF Current, Good
  <2> QED BY <1>2, <2>1, <2>2
<1>5. IsSeq(c.history) /\ Unique(c.history) /\ IsConfig(c) BY <1>4 DEF Good, ShortList
<1>6. DedupKeepLast(c.history) = c.history BY <1>5, DedupOfUnique
<1>7. [c EXCEPT !.history = c.history] = c BY <1>5 DEF IsConfig
<1>8. DefaultsRev \in 0..DefaultsRev BY DEF DefaultsRev
<1> QED BY <1>1, <1>4, <1>5, <1>6, <1>7, <1>8 DEF Loadable

(* What older versions left can be loaded. *)
LEMMA LegacyIsLoadable ==
  ASSUME NEW cfg \in Legacy
  PROVE  Loadable(cfg, FirstId)
<1>1. /\ IsConfig(cfg) /\ cfg.rev \in 0..DefaultsRev
      /\ SessionList(cfg.sessions, FirstId)
      /\ cfg.groups \in Seq(Nat) /\ cfg.quickGroups \in Seq(Nat)
      /\ IsSeq(cfg.history) /\ IsSeq(cfg.dirs)
  BY FilesAssumption
<1>2. Clean([cfg EXCEPT !.history = DedupKeepLast(cfg.history)]) BY FilesAssumption
<1>3. PICK c : c = [cfg EXCEPT !.history = DedupKeepLast(cfg.history)] OBVIOUS
<1>4. HasFields(c, cfg.sessions, cfg.groups, cfg.quick, cfg.quickGroups, DedupKeepLast(cfg.history), cfg.dirs,
                cfg.sidebar, cfg.rev)
  BY <1>1, <1>3, ConfigExcept
<1>5. IsSeq(DedupKeepLast(cfg.history))
  <2> DEFINE K == {i \in DOMAIN cfg.history :
                     \A j \in DOMAIN cfg.history : j > i => cfg.history[j] # cfg.history[i]}
  <2>1. K \in SUBSET (DOMAIN cfg.history) OBVIOUS
  <2>2. DedupKeepLast(cfg.history) = At(cfg.history, K) BY DEF DedupKeepLast
  <2> HIDE DEF K
  <2> QED BY <1>1, <2>1, <2>2, AtOfSet
<1>6. Clean(c) BY <1>2, <1>3
<1>7. UniqueIds(c.sessions) BY <1>6 DEF Clean, UniqueIds
<1>8. \A names \in {c.groups, c.quickGroups} :
        Unique(names) /\ \A i \in DOMAIN names : names[i] \notin {NoName, Default}
  BY <1>6 DEF Clean
<1>9. NameList(c.groups) /\ NameList(c.quickGroups) BY <1>1, <1>4, <1>8 DEF HasFields, NameList
<1>10. ShortList(c.history, HistoryCap) /\ ShortList(c.dirs, DirCap)
  BY <1>1, <1>4, <1>5, <1>6 DEF HasFields, Clean, ShortList
<1>11. Sessions(c.sessions, FirstId) BY <1>1, <1>4, <1>7 DEF HasFields, Sessions
<1>12. Good(c, FirstId) BY <1>4, <1>9, <1>10, <1>11 DEF HasFields, Good
<1> QED BY <1>1, <1>3, <1>12 DEF Loadable

(* Later ids are fresh for what is held and for what is on disk. *)
LEMMA MoreIds ==
  ASSUME NEW cfg, NEW fresh \in Nat, NEW more \in Nat, fresh <= more
  PROVE  (Good(cfg, fresh) => Good(cfg, more)) /\ (Loadable(cfg, fresh) => Loadable(cfg, more))
<1>1. \A c : Good(c, fresh) => Good(c, more)
  <2> SUFFICES ASSUME NEW c, Good(c, fresh) PROVE Good(c, more)
    OBVIOUS
  <2>1. Sessions(c.sessions, more) BY SessionsBelowMore DEF Good
  <2> QED BY <2>1 DEF Good
<1> QED BY <1>1 DEF Loadable

-----------------------------------------------------------------------------
(* The inductive invariant.  StoreIsSound says nothing of the fields that are not
   there, of the ids still to be given, nor of what the disk holds beyond its layers;
   the induction needs them, and what the last save left on disk. *)
Counters ==
  /\ up \in {"off", "idle", "write", "rename"}
  /\ edits \in 0..MaxEdits /\ starts \in 0..MaxStarts
  /\ lastKey \in Nat /\ keyFile \in 0..lastKey /\ key \in 0..lastKey
  /\ nextId \in Nat
DialogId == dialog # Closed => dialog \in Nat /\ dialog < nextId
InMemory ==
  IF up = "off" THEN cache.sessions = <<>> ELSE key # ExportKey /\ Current(cache, nextId)
OnFile ==
  /\ disk.is \in {"missing", "garbage", "config"}
  /\ disk.is = "config" => Loadable(disk.cfg, nextId)
LastSave ==
  saved # Unknown =>
    /\ Current(saved.cfg, nextId) /\ saved.key \in Nat \ {ExportKey}
    /\ disk = Holding(OnDisk(saved.cfg, saved.key))
IInv == Counters /\ DialogId /\ InMemory /\ OnFile /\ LastSave

LEMMA SoundIsShort ==
  ASSUME NEW sessions, NEW fresh, Sessions(sessions, fresh), NEW i \in DOMAIN sessions
  PROVE  Len(sessions[i].secret.layers) <= 1
BY DEF Sessions, SessionList, SessionBelow, Sound

(* The invariant gives the property. *)
LEMMA InvImpliesSound == IInv => StoreIsSound
<1> SUFFICES ASSUME IInv PROVE StoreIsSound OBVIOUS
<1>1. TypeOK
  <2>1. up # "off" => Clean(cache) BY GoodIsClean DEF IInv, InMemory, Current
  <2> QED BY <2>1 DEF IInv, Counters, TypeOK
<1>2. \A i \in DOMAIN cache.sessions : Len(cache.sessions[i].secret.layers) <= 1
  <2>1. CASE up = "off"
    <3>1. PICK s : s = cache.sessions OBVIOUS
    <3>2. s = <<>> BY <2>1, <3>1 DEF IInv, InMemory
    <3>3. DOMAIN s = {} BY <3>2
    <3> QED BY <3>1, <3>3
  <2>2. CASE up # "off"
    <3>1. Sessions(cache.sessions, nextId) BY <2>2 DEF IInv, InMemory, Current, Good
    <3> QED BY <3>1, SoundIsShort
  <2> QED BY <2>1, <2>2
<1>3. ASSUME disk.is = "config", NEW i \in DOMAIN disk.cfg.sessions
      PROVE  Len(disk.cfg.sessions[i].secret.layers) <= 1
  <2>1. Loadable(disk.cfg, nextId) BY <1>3 DEF IInv, OnFile
  <2>2. PICK file : file = disk.cfg OBVIOUS
  <2>3. PICK c : c = [file EXCEPT !.history = DedupKeepLast(file.history)] OBVIOUS
  <2>4. Good(c, nextId) /\ IsConfig(file) BY <2>1, <2>2, <2>3 DEF Loadable
  <2>5. c.sessions = file.sessions BY <2>3, <2>4, ConfigExcept DEF HasFields
  <2>6. Sessions(file.sessions, nextId) BY <2>4, <2>5 DEF Good
  <2> QED BY <1>3, <2>2, <2>6, SoundIsShort
<1> QED BY <1>1, <1>2, <1>3 DEF StoreIsSound, SealedOnce

LEMMA InitHolds == Init => IInv
<1> SUFFICES ASSUME Init PROVE IInv OBVIOUS
<1>1. Counters BY ConfigStoreAssumption DEF Init, Counters, FirstId
<1>2. DialogId BY DEF Init, DialogId
<1>3. InMemory BY FreshIsCurrent DEF Init, InMemory
<1>4. OnFile
  <2>1. CASE disk = Missing BY <2>1 DEF OnFile, Missing
  <2>2. CASE disk = Garbage BY <2>2 DEF OnFile, Garbage
  <2>3. ASSUME NEW cfg \in Legacy, disk = Holding(cfg) PROVE OnFile
    <3>1. disk.is = "config" /\ disk.cfg = cfg BY <2>3 DEF Holding
    <3>2. nextId = FirstId BY DEF Init
    <3> QED BY <3>1, <3>2, LegacyIsLoadable DEF OnFile
  <2> QED BY <2>1, <2>2, <2>3 DEF Init
<1>5. LastSave BY DEF Init, LastSave
<1> QED BY <1>1, <1>2, <1>3, <1>4, <1>5 DEF IInv

(* What a handler does: it changes what is held, and may give ids away. *)
LEMMA HandlerKeeps ==
  ASSUME IInv, UNCHANGED <<diskVars, starts>>,
         up' \in {"idle", "write"}, edits' \in 0..MaxEdits, Current(cache', nextId'), key # ExportKey,
         nextId' \in Nat, nextId <= nextId', DialogId'
  PROVE  IInv'
<1>1. UNCHANGED <<disk, keyFile, lastKey, key, saved, starts>> BY DEF diskVars
<1>2. nextId \in Nat BY DEF IInv, Counters
<1>3. Counters' BY <1>1 DEF IInv, Counters
<1>4. InMemory' BY <1>1 DEF InMemory
<1>5. OnFile'
  <2>1. disk.is = "config" => Loadable(disk.cfg, nextId') BY <1>2, MoreIds DEF IInv, OnFile
  <2> QED BY <1>1, <2>1 DEF IInv, OnFile
<1>6. LastSave'
  <2>1. saved # Unknown => Current(saved.cfg, nextId') BY <1>2, MoreIds DEF IInv, LastSave, Current
  <2> QED BY <1>1, <2>1 DEF IInv, LastSave
<1> QED BY <1>3, <1>4, <1>5, <1>6 DEF IInv

(* A change that is committed without ids or the dialog. *)
LEMMA CommitKeeps ==
  ASSUME IInv, Handler, NEW cfg, Current(cfg, nextId), Commit(cfg), UNCHANGED <<dialog, nextId>>
  PROVE  IInv'
<1>1. key # ExportKey BY DEF Handler, IInv, InMemory
<1>2. edits' \in 0..MaxEdits BY ConfigStoreAssumption DEF Handler, IInv, Counters
<1>3. DialogId' BY DEF IInv, DialogId
<1>4. nextId \in Nat /\ nextId <= nextId BY DEF IInv, Counters
<1>5. Current(cache', nextId') BY DEF Commit
<1>6. up' \in {"idle", "write"} /\ UNCHANGED <<diskVars, starts>> BY DEF Commit
<1> QED BY <1>1, <1>2, <1>3, <1>4, <1>5, <1>6, HandlerKeeps

(* The fields a handler changes, one lemma for each shape of change. *)
LEMMA HeldInHandler ==
  ASSUME IInv, up = "idle"
  PROVE  /\ Current(cache, nextId) /\ IsConfig(cache) /\ key \in Nat \ {ExportKey} /\ nextId \in Nat
         /\ Sessions(cache.sessions, nextId) /\ NameList(cache.groups) /\ NameList(cache.quickGroups)
         /\ ShortList(cache.history, HistoryCap) /\ ShortList(cache.dirs, DirCap)
BY DEF IInv, InMemory, Counters, Current, Good

(* A current configuration stays current when one of its lists is replaced. *)
LEMMA ListChangeKeeps ==
  ASSUME NEW cfg, NEW fresh, Current(cfg, fresh), NEW x
  PROVE  /\ \A more : Sessions(x, more) => Current([cfg EXCEPT !.sessions = x], more)
         /\ NameList(x) => Current([cfg EXCEPT !.groups = x], fresh)
         /\ Current([cfg EXCEPT !.quick = x], fresh)
         /\ NameList(x) => Current([cfg EXCEPT !.quickGroups = x], fresh)
         /\ ShortList(x, HistoryCap) => Current([cfg EXCEPT !.history = x], fresh)
         /\ ShortList(x, DirCap) => Current([cfg EXCEPT !.dirs = x], fresh)
         /\ Current([cfg EXCEPT !.sidebar = x], fresh)
<1>1. Good(cfg, fresh) /\ IsConfig(cfg) /\ cfg.rev = DefaultsRev BY DEF Current, Good
<1>2. \A more : Sessions(x, more) => Current([cfg EXCEPT !.sessions = x], more)
  <2>1. PICK c : c = [cfg EXCEPT !.sessions = x] OBVIOUS
  <2>2. c.rev = DefaultsRev BY <1>1, <2>1, ChangedRev
  <2>3. \A more : Sessions(x, more) => Good(c, more) BY <1>1, <2>1, ChangedConfig
  <2> QED BY <2>1, <2>2, <2>3 DEF Current
<1>3. NameList(x) => Current([cfg EXCEPT !.groups = x], fresh)
  <2>1. PICK c : c = [cfg EXCEPT !.groups = x] OBVIOUS
  <2>2. c.rev = DefaultsRev BY <1>1, <2>1, ChangedRev
  <2>3. NameList(x) => Good(c, fresh) BY <1>1, <2>1, ChangedConfig
  <2> QED BY <2>1, <2>2, <2>3 DEF Current
<1>4. Current([cfg EXCEPT !.quick = x], fresh)
  <2>1. PICK c : c = [cfg EXCEPT !.quick = x] OBVIOUS
  <2>2. c.rev = DefaultsRev BY <1>1, <2>1, ChangedRev
  <2>3. Good(c, fresh) BY <1>1, <2>1, ChangedConfig
  <2> QED BY <2>1, <2>2, <2>3 DEF Current
<1>5. NameList(x) => Current([cfg EXCEPT !.quickGroups = x], fresh)
  <2>1. PICK c : c = [cfg EXCEPT !.quickGroups = x] OBVIOUS
  <2>2. c.rev = DefaultsRev BY <1>1, <2>1, ChangedRev
  <2>3. NameList(x) => Good(c, fresh) BY <1>1, <2>1, ChangedConfig
  <2> QED BY <2>1, <2>2, <2>3 DEF Current
<1>6. ShortList(x, HistoryCap) => Current([cfg EXCEPT !.history = x], fresh)
  <2>1. PICK c : c = [cfg EXCEPT !.history = x] OBVIOUS
  <2>2. c.rev = DefaultsRev BY <1>1, <2>1, ChangedRev
  <2>3. ShortList(x, HistoryCap) => Good(c, fresh) BY <1>1, <2>1, ChangedConfig
  <2> QED BY <2>1, <2>2, <2>3 DEF Current
<1>7. ShortList(x, DirCap) => Current([cfg EXCEPT !.dirs = x], fresh)
  <2>1. PICK c : c = [cfg EXCEPT !.dirs = x] OBVIOUS
  <2>2. c.rev = DefaultsRev BY <1>1, <2>1, ChangedRev
  <2>3. ShortList(x, DirCap) => Good(c, fresh) BY <1>1, <2>1, ChangedConfig
  <2> QED BY <2>1, <2>2, <2>3 DEF Current
<1>8. Current([cfg EXCEPT !.sidebar = x], fresh)
  <2>1. PICK c : c = [cfg EXCEPT !.sidebar = x] OBVIOUS
  <2>2. c.rev = DefaultsRev BY <1>1, <2>1, ChangedRev
  <2>3. Good(c, fresh) BY <1>1, <2>1, ChangedConfig
  <2> QED BY <2>1, <2>2, <2>3 DEF Current
<1> QED BY <1>2, <1>3, <1>4, <1>5, <1>6, <1>7, <1>8

(* The files: a start, the two steps of a save, the end, the user. *)
LEMMA LoadKeeps == ASSUME IInv, Load PROVE IInv'
<1>1. up = "off" /\ starts < MaxStarts /\ starts' = starts + 1 /\ UNCHANGED <<uiVars, edits, nextId, nextNo, saved>>
  BY DEF Load
<1>2. lastKey' \in Nat /\ keyFile' \in 0..lastKey' /\ key' \in 0..lastKey' /\ key' # ExportKey
  BY DEF Load, LoadKey, IInv, Counters, ExportKey
<1>3. Counters'
  <2>1. up' \in {"off", "idle", "write", "rename"} BY DEF Load
  <2>2. starts' \in 0..MaxStarts BY <1>1, ConfigStoreAssumption DEF IInv, Counters
  <2> QED BY <1>1, <1>2, <2>1, <2>2 DEF IInv, Counters
<1>4. DialogId' BY <1>1 DEF IInv, DialogId, uiVars
<1>5. CASE disk.is # "config" /\ cache' = FreshConfig(Starter) /\ up' = "idle" /\ (disk' = Missing \/ UNCHANGED disk)
  <2>1. InMemory' BY <1>2, <1>5, FreshIsCurrent DEF InMemory
  <2>2. OnFile' BY <1>5 DEF IInv, OnFile, Missing
  <2>3. saved = Unknown BY <1>5 DEF IInv, LastSave, Holding
  <2>4. LastSave' BY <1>1, <2>3 DEF LastSave
  <2> QED BY <1>3, <1>4, <2>1, <2>2, <2>4 DEF IInv
<1>6. CASE disk.is = "config" /\ cache' = Loaded(disk.cfg, key') /\ up' \in {"write", "idle"} /\ UNCHANGED disk
  <2>1. Loadable(disk.cfg, nextId) BY <1>6 DEF IInv, OnFile
  <2>2. Current(cache', nextId) BY <1>6, <2>1, LoadedIsCurrent
  <2>3. InMemory' BY <1>1, <1>2, <1>6, <2>2 DEF InMemory
  <2>4. OnFile' BY <1>1, <1>6 DEF IInv, OnFile
  <2>5. LastSave' BY <1>1, <1>6 DEF IInv, LastSave
  <2> QED BY <1>3, <1>4, <2>3, <2>4, <2>5 DEF IInv
<1> QED BY <1>5, <1>6 DEF Load

(* The two steps of a save: the rename puts what is held on the disk, sealed. *)
LEMMA SaveKeeps == ASSUME IInv, WriteTmp \/ Rename PROVE IInv'
<1>1. CASE WriteTmp
  <2>1. UNCHANGED <<cache, diskVars, uiVars, edits, starts, nextId>> BY <1>1 DEF WriteTmp
  <2>2. up # "off" /\ up' \in {"rename", "idle"} BY <1>1 DEF WriteTmp
  <2> QED BY <2>1, <2>2 DEF IInv, Counters, DialogId, InMemory, OnFile, LastSave, diskVars, uiVars
<1>2. CASE Rename
  <2>1. UNCHANGED <<cache, key, keyFile, lastKey, uiVars, edits, starts, nextId>> BY <1>2 DEF Rename
  <2>2. up # "off" /\ up' = "idle" BY <1>2 DEF Rename
  <2>3. Counters' /\ DialogId' /\ InMemory'
    BY <2>1, <2>2 DEF IInv, Counters, DialogId, InMemory, uiVars
  <2>4. CASE UNCHANGED <<disk, saved>> BY <2>1, <2>3, <2>4 DEF IInv, OnFile, LastSave
  <2>5. CASE disk' = Holding(OnDisk(cache, key)) /\ saved' = [cfg |-> cache, key |-> key]
    <3>1. Current(cache, nextId) /\ key \in Nat \ {ExportKey} BY <2>2 DEF IInv, InMemory, Counters
    <3>2. disk'.is = "config" /\ disk'.cfg = OnDisk(cache, key) BY <2>5 DEF Holding
    <3>3. OnFile' BY <2>1, <3>1, <3>2, OnDiskIsLoadable DEF OnFile
    <3>4. saved'.cfg = cache /\ saved'.key = key BY <2>5
    <3>5. LastSave' BY <2>1, <2>5, <3>1, <3>4 DEF LastSave
    <3> QED BY <2>3, <3>3, <3>5 DEF IInv
  <2> QED BY <1>2, <2>4, <2>5 DEF Rename
<1> QED BY <1>1, <1>2

(* The end of the program, and the user at the files. *)
LEMMA EndKeeps == ASSUME IInv, Stop \/ TouchFiles PROVE IInv'
<1>1. CASE Stop
  <2>1. up' = "off" /\ cache' = FreshConfig(Starter) /\ key' = 0 /\ dialog' = Closed
        /\ UNCHANGED <<disk, keyFile, lastKey, saved, edits, starts, nextId>>
    BY <1>1 DEF Stop
  <2>2. InMemory' BY <2>1, FreshIsCurrent DEF InMemory
  <2> QED BY <2>1, <2>2 DEF IInv, Counters, DialogId, OnFile, LastSave
<1>2. CASE TouchFiles
  <2>1. up = "off" /\ UNCHANGED <<up, cache, key, lastKey, uiVars, edits, starts, nextId>>
    BY <1>2 DEF TouchFiles
  <2>2. keyFile' \in 0..lastKey BY <1>2 DEF TouchFiles, IInv, Counters
  <2>3. Counters' /\ DialogId' /\ InMemory'
    BY <2>1, <2>2 DEF IInv, Counters, DialogId, InMemory, uiVars
  <2>4. CASE UNCHANGED <<disk, saved>> BY <2>1, <2>3, <2>4 DEF IInv, OnFile, LastSave
  <2>5. CASE disk' = Garbage /\ saved' = Unknown BY <2>3, <2>5 DEF IInv, OnFile, LastSave, Garbage
  <2> QED BY <1>2, <2>4, <2>5 DEF TouchFiles
<1> QED BY <1>1, <1>2

LEMMA HandlerEdits ==
  ASSUME IInv, Handler
  PROVE  up = "idle" /\ edits' \in 0..MaxEdits
BY ConfigStoreAssumption DEF Handler, IInv, Counters

(* The dialog: opened with a new id or one that is there, submitted, closed. *)
LEMMA DialogStepKeeps ==
  ASSUME IInv, NewSession \/ DialogSubmit \/ DialogCancel \/ \E id \in Ids(cache.sessions) : EditSession(id)
  PROVE  IInv'
<1>1. CASE NewSession
  <2>1. Handler /\ dialog' = nextId /\ nextId' = nextId + 1 /\ UNCHANGED <<up, cache, diskVars, starts>>
    BY <1>1 DEF NewSession
  <2>2. up = "idle" /\ edits' \in 0..MaxEdits BY <2>1, HandlerEdits
  <2>3. Current(cache, nextId) /\ key # ExportKey /\ nextId \in Nat BY <2>2, HeldInHandler
  <2>4. nextId' \in Nat /\ nextId <= nextId' /\ nextId < nextId' BY <2>1, <2>3
  <2>5. Current(cache, nextId') BY <2>3, <2>4, MoreIds DEF Current
  <2>6. Current(cache', nextId') BY <2>1, <2>5
  <2>7. DialogId' BY <2>1, <2>3, <2>4 DEF DialogId
  <2>8. up' \in {"idle", "write"} BY <2>1, <2>2
  <2> QED BY <2>1, <2>2, <2>3, <2>4, <2>6, <2>7, <2>8, HandlerKeeps
<1>2. ASSUME NEW id \in Ids(cache.sessions), EditSession(id) PROVE IInv'
  <2>1. Handler /\ dialog' = id /\ UNCHANGED <<up, cache, diskVars, starts, nextId>>
    BY <1>2 DEF EditSession
  <2>2. up = "idle" /\ edits' \in 0..MaxEdits BY <2>1, HandlerEdits
  <2>3. /\ Current(cache, nextId) /\ key # ExportKey /\ nextId \in Nat
        /\ Sessions(cache.sessions, nextId)
    BY <2>2, HeldInHandler
  <2>4. id \in Nat /\ id < nextId
    <3>1. SessionBelow(Get(cache.sessions, id), nextId) /\ Get(cache.sessions, id).id = id
      BY <2>3, GetIsIn DEF Sessions
    <3> QED BY <3>1 DEF SessionBelow
  <2>5. DialogId' BY <2>1, <2>4 DEF DialogId
  <2>6. nextId' \in Nat /\ nextId <= nextId' BY <2>1, <2>3
  <2>7. up' \in {"idle", "write"} /\ Current(cache', nextId') BY <2>1, <2>2, <2>3
  <2> QED BY <2>1, <2>2, <2>3, <2>5, <2>6, <2>7, HandlerKeeps
<1>3. CASE DialogSubmit
  <2>1. up = "idle" /\ dialog # Closed /\ dialog' = Closed /\ UNCHANGED <<edits, nextId>>
    BY <1>3 DEF DialogSubmit
  <2>2. PICK name, host, user, auth, typed, group :
          Commit([cache EXCEPT !.sessions = Upsert(@,
            [id |-> dialog, name |-> name, host |-> host, user |-> user, auth |-> auth, group |-> group,
             secret |-> SavedPassword(@, dialog, auth, typed)])])
    BY <1>3 DEF DialogSubmit
  <2>3. /\ Current(cache, nextId) /\ key # ExportKey /\ nextId \in Nat
        /\ Sessions(cache.sessions, nextId)
    BY <2>1, HeldInHandler
  <2>4. dialog \in Nat /\ dialog < nextId BY <2>1 DEF IInv, DialogId
  <2>5. PICK secret : secret = SavedPassword(cache.sessions, dialog, auth, typed) OBVIOUS
  <2>6. Sound(secret) BY <2>3, <2>5, SavedPasswordIsSound DEF Sessions
  <2>7. PICK s : s = [id |-> dialog, name |-> name, host |-> host, user |-> user, auth |-> auth,
                      group |-> group, secret |-> secret]
    OBVIOUS
  <2>8. SessionBelow(s, nextId) BY <2>4, <2>6, <2>7 DEF SessionBelow, IsSession
  <2>9. PICK sessions : sessions = Upsert(cache.sessions, s) OBVIOUS
  <2>10. Sessions(sessions, nextId) BY <2>3, <2>8, <2>9, UpsertKeeps
  <2>11. PICK cfg : cfg = [cache EXCEPT !.sessions = sessions] OBVIOUS
  <2>12. Current(cfg, nextId) BY <2>3, <2>10, <2>11, ListChangeKeeps
  <2>13. Commit(cfg) BY <2>2, <2>5, <2>7, <2>9, <2>11
  <2>14. cache' = cfg /\ up' \in {"idle", "write"} /\ UNCHANGED <<diskVars, starts>> BY <2>13 DEF Commit
  <2>15. edits' \in 0..MaxEdits BY <2>1 DEF IInv, Counters
  <2>16. DialogId' BY <2>1 DEF DialogId
  <2>17. Current(cache', nextId') /\ nextId' \in Nat /\ nextId <= nextId' BY <2>1, <2>3, <2>12, <2>14
  <2> QED BY <2>3, <2>14, <2>15, <2>16, <2>17, HandlerKeeps
<1>4. CASE DialogCancel
  BY <1>4 DEF DialogCancel, IInv, Counters, DialogId, InMemory, OnFile, LastSave, diskVars
<1> QED BY <1>1, <1>2, <1>3, <1>4

(* Sessions removed, copied and moved, and a password remembered. *)
LEMMA SessionStepKeeps ==
  ASSUME IInv, NEW id \in Ids(cache.sessions),
         \/ RemoveSession(id) \/ DuplicateSession(id) \/ AskPassword(id)
         \/ \E g : MoveSession(id, g)
  PROVE  IInv'
<1>1. CASE AskPassword(id)
  BY <1>1 DEF AskPassword, IInv, Counters, DialogId, InMemory, OnFile, LastSave, diskVars
<1>2. CASE RemoveSession(id)
  <2>1. Handler /\ UNCHANGED <<dialog, nextId>> BY <1>2 DEF RemoveSession, uiVars
  <2>2. Current(cache, nextId) /\ Sessions(cache.sessions, nextId) BY <2>1, HandlerEdits, HeldInHandler
  <2>3. PICK sessions : sessions = RemoveId(cache.sessions, id) OBVIOUS
  <2>4. Sessions(sessions, nextId) BY <2>2, <2>3, RemoveIdKeeps
  <2>5. PICK cfg : cfg = [cache EXCEPT !.sessions = sessions] OBVIOUS
  <2>6. Current(cfg, nextId) BY <2>2, <2>4, <2>5, ListChangeKeeps
  <2>7. Commit(cfg) BY <1>2, <2>3, <2>5 DEF RemoveSession
  <2> QED BY <2>1, <2>6, <2>7, CommitKeeps
<1>3. ASSUME NEW g, MoveSession(id, g) PROVE IInv'
  <2>1. Handler /\ UNCHANGED <<dialog, nextId>> BY <1>3 DEF MoveSession, uiVars
  <2>2. Current(cache, nextId) /\ Sessions(cache.sessions, nextId) BY <2>1, HandlerEdits, HeldInHandler
  <2>3. PICK old : old = Get(cache.sessions, id) OBVIOUS
  <2>4. SessionBelow(old, nextId) BY <2>2, <2>3, GetIsIn DEF Sessions
  <2>5. PICK s : s = [old EXCEPT !.group = g] OBVIOUS
  <2>6. SessionBelow(s, nextId) BY <2>4, <2>5, ChangedSession
  <2>7. PICK sessions : sessions = Upsert(cache.sessions, s) OBVIOUS
  <2>8. Sessions(sessions, nextId) BY <2>2, <2>6, <2>7, UpsertKeeps
  <2>9. PICK cfg : cfg = [cache EXCEPT !.sessions = sessions] OBVIOUS
  <2>10. Current(cfg, nextId) BY <2>2, <2>8, <2>9, ListChangeKeeps
  <2>11. Commit(cfg) BY <1>3, <2>3, <2>5, <2>7, <2>9 DEF MoveSession
  <2> QED BY <2>1, <2>10, <2>11, CommitKeeps
<1>4. CASE DuplicateSession(id)
  <2>1. Handler /\ nextId' = nextId + 1 /\ UNCHANGED dialog BY <1>4 DEF DuplicateSession, uiVars
  <2>2. up = "idle" /\ edits' \in 0..MaxEdits BY <2>1, HandlerEdits
  <2>3. /\ Current(cache, nextId) /\ key # ExportKey /\ nextId \in Nat
        /\ Sessions(cache.sessions, nextId)
    BY <2>2, HeldInHandler
  <2>4. nextId' \in Nat /\ nextId <= nextId' /\ nextId < nextId' BY <2>1, <2>3
  <2>5. PICK more : more = nextId' OBVIOUS
  <2>6. more \in Nat /\ nextId <= more /\ nextId < more BY <2>4, <2>5
  <2>7. PICK old : old = Get(cache.sessions, id) OBVIOUS
  <2>8. SessionBelow(old, nextId) BY <2>3, <2>7, GetIsIn DEF Sessions
  <2>9. PICK s : s = [old EXCEPT !.id = nextId, !.name = "copy"] OBVIOUS
  <2>10. SessionBelow(s, more)
    <3>1. IsSession(old) /\ Sound(old.secret) BY <2>8 DEF SessionBelow
    <3> QED BY <2>3, <2>6, <2>9, <3>1, NewIdSession
  <2>11. Sessions(cache.sessions, more) BY <2>3, <2>6, SessionsBelowMore
  <2>12. PICK sessions : sessions = Upsert(cache.sessions, s) OBVIOUS
  <2>13. Sessions(sessions, more) BY <2>10, <2>11, <2>12, UpsertKeeps
  <2>14. PICK cfg : cfg = [cache EXCEPT !.sessions = sessions] OBVIOUS
  <2>15. Current(cfg, more) BY <2>3, <2>13, <2>14, ListChangeKeeps
  <2>16. Commit(cfg) BY <1>4, <2>7, <2>9, <2>12, <2>14 DEF DuplicateSession
  <2>17. cache' = cfg /\ up' \in {"idle", "write"} /\ UNCHANGED <<diskVars, starts>> BY <2>16 DEF Commit
  <2>18. DialogId' BY <2>1, <2>3, <2>4 DEF IInv, DialogId
  <2>19. Current(cache', nextId') BY <2>5, <2>15, <2>17
  <2> QED BY <2>2, <2>3, <2>4, <2>17, <2>18, <2>19, HandlerKeeps
<1> QED BY <1>1, <1>2, <1>3, <1>4

(* A password remembered after a login, on what the session has become. *)
LEMMA RememberKeeps == ASSUME IInv, RememberPassword PROVE IInv'
<1>1. Handler /\ UNCHANGED <<dialog, nextId>> BY DEF RememberPassword
<1>2. Current(cache, nextId) /\ Sessions(cache.sessions, nextId) /\ nextId \in Nat /\ key # ExportKey
      /\ up = "idle" /\ edits' \in 0..MaxEdits
  BY <1>1, HandlerEdits, HeldInHandler
<1>3. CASE asked \in Ids(cache.sessions)
  <2>1. PICK typed : Commit([cache EXCEPT !.sessions = Upsert(@,
                       [Get(@, asked) EXCEPT !.secret = [value |-> typed, layers |-> <<>>]])])
    BY <1>3 DEF RememberPassword
  <2>2. PICK secret : secret = [value |-> typed, layers |-> <<>>] OBVIOUS
  <2>3. Sound(secret) BY <2>2, PlainIsSound
  <2>4. PICK old : old = Get(cache.sessions, asked) OBVIOUS
  <2>5. SessionBelow(old, nextId) BY <1>2, <1>3, <2>4, GetIsIn DEF Sessions
  <2>6. PICK s : s = [old EXCEPT !.secret = secret] OBVIOUS
  <2>7. SessionBelow(s, nextId) BY <2>3, <2>5, <2>6, ChangedSession
  <2>8. PICK sessions : sessions = Upsert(cache.sessions, s) OBVIOUS
  <2>9. Sessions(sessions, nextId) BY <1>2, <2>7, <2>8, UpsertKeeps
  <2>10. PICK cfg : cfg = [cache EXCEPT !.sessions = sessions] OBVIOUS
  <2>11. Current(cfg, nextId) BY <1>2, <2>9, <2>10, ListChangeKeeps
  <2>12. Commit(cfg) BY <2>1, <2>2, <2>4, <2>6, <2>8, <2>10
  <2> QED BY <1>1, <2>11, <2>12, CommitKeeps
<1>4. CASE asked \notin Ids(cache.sessions)
  <2>1. UNCHANGED <<up, cache, diskVars, starts>> BY <1>4 DEF RememberPassword
  <2>2. up' \in {"idle", "write"} /\ Current(cache', nextId') /\ nextId' \in Nat /\ nextId <= nextId'
    BY <1>1, <1>2, <2>1
  <2>3. DialogId' BY <1>1 DEF IInv, DialogId
  <2> QED BY <1>2, <2>1, <2>2, <2>3, HandlerKeeps
<1> QED BY <1>3, <1>4

(* Groups of sessions and of quick commands. *)
LEMMA GroupStepKeeps ==
  ASSUME IInv, SubmitGroup \/ DeleteGroup \/ SubmitQuickGroup \/ DeleteQuickGroup
  PROVE  IInv'
<1>1. Handler /\ UNCHANGED <<dialog, nextId>>
  BY DEF SubmitGroup, DeleteGroup, SubmitQuickGroup, DeleteQuickGroup, uiVars
<1>2. Current(cache, nextId) /\ NameList(cache.groups) /\ NameList(cache.quickGroups)
  BY <1>1, HandlerEdits, HeldInHandler
<1>3. ASSUME NEW n \in GroupName, Commit([cache EXCEPT !.groups = AddName(@, n)]) PROVE IInv'
  <2>1. PICK names : names = AddName(cache.groups, n) OBVIOUS
  <2>2. NameList(names) BY <1>2, <2>1, AddNameKeeps, ConfigStoreAssumption
  <2>3. PICK cfg : cfg = [cache EXCEPT !.groups = names] OBVIOUS
  <2>4. Current(cfg, nextId) BY <1>2, <2>2, <2>3, ListChangeKeeps
  <2>5. Commit(cfg) BY <1>3, <2>1, <2>3
  <2> QED BY <1>1, <2>4, <2>5, CommitKeeps
<1>4. ASSUME NEW n \in GroupName, Commit([cache EXCEPT !.quickGroups = AddName(@, n)]) PROVE IInv'
  <2>1. PICK names : names = AddName(cache.quickGroups, n) OBVIOUS
  <2>2. NameList(names) BY <1>2, <2>1, AddNameKeeps, ConfigStoreAssumption
  <2>3. PICK cfg : cfg = [cache EXCEPT !.quickGroups = names] OBVIOUS
  <2>4. Current(cfg, nextId) BY <1>2, <2>2, <2>3, ListChangeKeeps
  <2>5. Commit(cfg) BY <1>4, <2>1, <2>3
  <2> QED BY <1>1, <2>4, <2>5, CommitKeeps
<1>5. ASSUME NEW old, NEW n \in GroupName,
             Commit(RenameGroup(cache, old, n)) \/ Commit(RenameQuickGroup(cache, old, n))
      PROVE  IInv'
  <2>1. n \in Nat BY ConfigStoreAssumption
  <2>2. Current(RenameGroup(cache, old, n), nextId) /\ Current(RenameQuickGroup(cache, old, n), nextId)
    BY <1>2, <2>1, GroupChangesKeep
  <2> QED BY <1>1, <1>5, <2>2, CommitKeeps
<1>6. ASSUME NEW n, Commit(RemoveGroup(cache, n)) \/ Commit(RemoveQuickGroup(cache, n))
      PROVE  IInv'
  <2>1. Current(RemoveGroup(cache, n), nextId) /\ Current(RemoveQuickGroup(cache, n), nextId)
    BY <1>2, GroupChangesKeep
  <2> QED BY <1>1, <1>6, <2>1, CommitKeeps
<1>7. CASE SubmitGroup BY <1>3, <1>5, <1>7 DEF SubmitGroup
<1>8. CASE SubmitQuickGroup BY <1>4, <1>5, <1>8 DEF SubmitQuickGroup
<1>9. CASE DeleteGroup BY <1>6, <1>9 DEF DeleteGroup
<1>10. CASE DeleteQuickGroup BY <1>6, <1>10 DEF DeleteQuickGroup
<1> QED BY <1>7, <1>8, <1>9, <1>10

(* Quick commands are whatever they are: no invariant speaks of them. *)
LEMMA QuickStepKeeps ==
  ASSUME IInv,
         \/ AddQuickCommand \/ SaveQuickCommand \/ CloseForm
         \/ \E i : \/ DeleteQuickCommand(i) \/ DuplicateQuickCommand(i) \/ EditQuickCommand(i)
                   \/ \E g : MoveQuickCommand(i, g)
  PROVE  IInv'
<1>1. ASSUME NEW x, Commit([cache EXCEPT !.quick = x]), Handler, UNCHANGED <<dialog, nextId>>
      PROVE  IInv'
  <2>1. Current(cache, nextId) BY <1>1, HandlerEdits, HeldInHandler
  <2>2. PICK cfg : cfg = [cache EXCEPT !.quick = x] OBVIOUS
  <2>3. Current(cfg, nextId) BY <2>1, <2>2, ListChangeKeeps
  <2> QED BY <1>1, <2>2, <2>3, CommitKeeps
<1>2. CASE AddQuickCommand BY <1>1, <1>2 DEF AddQuickCommand, uiVars
<1>3. ASSUME NEW i, DeleteQuickCommand(i) PROVE IInv' BY <1>1, <1>3 DEF DeleteQuickCommand, uiVars
<1>4. ASSUME NEW i, DuplicateQuickCommand(i) PROVE IInv' BY <1>1, <1>4 DEF DuplicateQuickCommand, uiVars
<1>5. ASSUME NEW i, NEW g, MoveQuickCommand(i, g) PROVE IInv' BY <1>1, <1>5 DEF MoveQuickCommand, uiVars
<1>6. ASSUME NEW i, EditQuickCommand(i) PROVE IInv'
  <2>1. Handler /\ UNCHANGED <<up, cache, diskVars, starts, dialog, nextId>> BY <1>6 DEF EditQuickCommand
  <2>2. up = "idle" /\ edits' \in 0..MaxEdits BY <2>1, HandlerEdits
  <2> QED BY <2>1, <2>2 DEF IInv, Counters, DialogId, InMemory, OnFile, LastSave, diskVars
<1>7. CASE CloseForm
  BY <1>7 DEF CloseForm, IInv, Counters, DialogId, InMemory, OnFile, LastSave, diskVars
<1>8. CASE SaveQuickCommand
  <2>1. up = "idle" /\ UNCHANGED <<dialog, edits, nextId>> BY <1>8 DEF SaveQuickCommand
  <2>2. Current(cache, nextId) /\ key # ExportKey /\ nextId \in Nat BY <2>1, HeldInHandler
  <2>3. PICK cfg : Commit(cfg) /\ (cfg = cache \/ \E x : cfg = [cache EXCEPT !.quick = x])
    <3>1. PICK g : Commit(IF form \in Quick THEN [cache EXCEPT !.quick = [@ EXCEPT ![form].group = g]] ELSE cache)
      BY <1>8 DEF SaveQuickCommand
    <3>2. PICK x : x = [cache.quick EXCEPT ![form].group = g] OBVIOUS
    <3>3. CASE form \in Quick
      <4>1. Commit([cache EXCEPT !.quick = x]) BY <3>1, <3>2, <3>3
      <4> QED BY <4>1
    <3>4. CASE form \notin Quick BY <3>1, <3>4
    <3> QED BY <3>3, <3>4
  <2>4. Current(cfg, nextId)
    <3>1. ASSUME NEW x PROVE Current([cache EXCEPT !.quick = x], nextId) BY <2>2, ListChangeKeeps
    <3> QED BY <2>2, <2>3, <3>1
  <2>5. cache' = cfg /\ up' \in {"idle", "write"} /\ UNCHANGED <<diskVars, starts>> BY <2>3 DEF Commit
  <2>6. edits' \in 0..MaxEdits /\ DialogId' BY <2>1 DEF IInv, Counters, DialogId
  <2>7. Current(cache', nextId') /\ nextId' \in Nat /\ nextId <= nextId' BY <2>1, <2>2, <2>4, <2>5
  <2> QED BY <2>2, <2>5, <2>6, <2>7, HandlerKeeps
<1> QED BY <1>2, <1>3, <1>4, <1>5, <1>6, <1>7, <1>8

(* The history, the quick directories and the layout. *)
LEMMA HistoryStepKeeps ==
  ASSUME IInv, RunCommand \/ DeleteHistory \/ SetSidebar
  PROVE  IInv'
<1>1. Handler /\ UNCHANGED <<dialog, nextId>> BY DEF RunCommand, DeleteHistory, SetSidebar, uiVars
<1>2. Current(cache, nextId) /\ ShortList(cache.history, HistoryCap)
  BY <1>1, HandlerEdits, HeldInHandler
<1>3. ASSUME NEW x, ShortList(x, HistoryCap), Commit([cache EXCEPT !.history = x]) PROVE IInv'
  <2>1. PICK cfg : cfg = [cache EXCEPT !.history = x] OBVIOUS
  <2>2. Current(cfg, nextId) BY <1>2, <1>3, <2>1, ListChangeKeeps
  <2> QED BY <1>1, <1>3, <2>1, <2>2, CommitKeeps
<1>4. CASE RunCommand
  <2>1. PICK c : Commit([cache EXCEPT !.history = PushHistory(@, c)]) BY <1>4 DEF RunCommand
  <2>2. PICK x : x = PushHistory(cache.history, c) OBVIOUS
  <2>3. ShortList(x, HistoryCap) BY <1>2, <2>2, PushHistoryKeeps
  <2> QED BY <1>3, <2>1, <2>2, <2>3
<1>5. CASE DeleteHistory
  <2>1. PICK i \in DOMAIN cache.history : Commit([cache EXCEPT !.history = RemoveAt(@, i)])
    BY <1>5 DEF DeleteHistory
  <2>2. PICK x : x = RemoveAt(cache.history, i) OBVIOUS
  <2>3. IsSeq(x) /\ Unique(x) /\ Len(x) <= Len(cache.history)
    BY <1>2, <2>2, RemoveAtIsUnique DEF ShortList
  <2>4. Len(x) \in Nat /\ Len(cache.history) \in Nat /\ Len(cache.history) <= HistoryCap
    BY <1>2, <2>3, FunctionOfSeq DEF ShortList
  <2>5. Len(x) <= HistoryCap BY <2>3, <2>4, ConfigFileAssumption
  <2>6. ShortList(x, HistoryCap) BY <2>3, <2>5 DEF ShortList
  <2> QED BY <1>3, <2>1, <2>2, <2>6
<1>6. CASE SetSidebar
  <2>1. PICK v : Commit([cache EXCEPT !.sidebar = v]) BY <1>6 DEF SetSidebar
  <2>2. PICK cfg : cfg = [cache EXCEPT !.sidebar = v] OBVIOUS
  <2>3. Current(cfg, nextId) BY <1>2, <2>2, ListChangeKeeps
  <2> QED BY <1>1, <2>1, <2>2, <2>3, CommitKeeps
<1> QED BY <1>4, <1>5, <1>6

(* A quick directory written to its place. *)
LEMMA QuickDirStepKeeps ==
  ASSUME IInv, NEW i \in 1..DirCap, NEW path, SaveQuickDir(i, path)
  PROVE  IInv'
<1> DEFINE size == IF Len(cache.dirs) < i THEN i ELSE Len(cache.dirs)
           padded == [j \in 1..size |-> IF j \in DOMAIN cache.dirs THEN cache.dirs[j] ELSE NoName]
<1>1. Handler /\ UNCHANGED <<dialog, nextId>> BY DEF SaveQuickDir, uiVars
<1>2. Current(cache, nextId) /\ nextId \in Nat /\ key # ExportKey /\ ShortList(cache.dirs, DirCap)
      /\ up = "idle" /\ edits' \in 0..MaxEdits
  BY <1>1, HandlerEdits, HeldInHandler
<1>3. UNCHANGED <<up, cache, diskVars, starts>>
      \/ Commit([cache EXCEPT !.dirs = QuickDirs([padded EXCEPT ![i] = path])])
  BY DEF SaveQuickDir
<1>4. CASE UNCHANGED <<up, cache, diskVars, starts>>
  <2>1. up' \in {"idle", "write"} /\ Current(cache', nextId') /\ nextId' \in Nat /\ nextId <= nextId'
    BY <1>1, <1>2, <1>4
  <2>2. DialogId' BY <1>1 DEF IInv, DialogId
  <2> QED BY <1>2, <1>4, <2>1, <2>2, HandlerKeeps
<1>5. CASE Commit([cache EXCEPT !.dirs = QuickDirs([padded EXCEPT ![i] = path])])
  <2>1. Len(cache.dirs) \in Nat BY <1>2, FunctionOfSeq DEF ShortList
  <2>2. i \in Nat BY ConfigFileAssumption
  <2>3. size \in Nat BY <2>1, <2>2
  <2>4. PICK paths : paths = [padded EXCEPT ![i] = path] OBVIOUS
  <2>5. DOMAIN padded = 1..size OBVIOUS
  <2> HIDE DEF padded, size
  <2>6. paths = [j \in 1..size |-> paths[j]] BY <2>4, <2>5
  <2>7. IsSeq(paths) BY <2>3, <2>6, SeqOfFunction
  <2>8. PICK dirs : dirs = QuickDirs(paths) OBVIOUS
  <2>9. ShortList(dirs, DirCap) BY <2>7, <2>8, QuickDirsKeeps
  <2>10. PICK cfg : cfg = [cache EXCEPT !.dirs = dirs] OBVIOUS
  <2>11. Current(cfg, nextId) BY <1>2, <2>9, <2>10, ListChangeKeeps
  <2>12. Commit(cfg) BY <1>5, <2>4, <2>8, <2>10
  <2> QED BY <1>1, <2>11, <2>12, CommitKeeps
<1> QED BY <1>3, <1>4, <1>5

(* Imports: the lists they are given make sessions, whose ids are the next ones. *)
LEMMA ImportKeeps ==
  ASSUME IInv, NEW entries, up = "idle" => GoodEntries(entries), Import(entries)
  PROVE  IInv'
<1>1. PICK sessions : sessions = Imported(cache.sessions, entries, nextId) OBVIOUS
<1>2. /\ Handler /\ cache' = [cache EXCEPT !.sessions = sessions] /\ up' \in {"idle", "write"}
      /\ nextId' = nextId + Len(sessions) - Len(cache.sessions)
      /\ UNCHANGED <<diskVars, starts, dialog>>
  BY <1>1 DEF Import, uiVars
<1>3. /\ Current(cache, nextId) /\ key # ExportKey /\ nextId \in Nat /\ Sessions(cache.sessions, nextId)
      /\ edits' \in 0..MaxEdits /\ up = "idle"
  BY <1>2, HandlerEdits, HeldInHandler
<1>4. PICK more : more = nextId + Len(sessions) - Len(cache.sessions) OBVIOUS
<1>5. more \in Nat /\ nextId <= more /\ Sessions(sessions, more)
  BY <1>1, <1>3, <1>4, ImportedKeeps
<1>6. Current([cache EXCEPT !.sessions = sessions], more) BY <1>3, <1>5, ListChangeKeeps
<1>7. Current(cache', nextId') BY <1>2, <1>4, <1>6
<1>8. nextId' \in Nat /\ nextId <= nextId' BY <1>2, <1>4, <1>5
<1>9. DialogId'
  <2>1. dialog # Closed => dialog \in Nat /\ dialog < nextId BY DEF IInv, DialogId
  <2> QED BY <1>2, <1>3, <1>8, <2>1 DEF DialogId
<1> QED BY <1>2, <1>3, <1>7, <1>8, <1>9, HandlerKeeps

(* The entries of a list of sessions. *)
LEMMA EntriesAreGood ==
  ASSUME NEW file, IsSeq(file), \A i \in DOMAIN file : IsSession(file[i]) /\ Sound(file[i].secret)
  PROVE  GoodEntries(Entries(file))
<1>1. PICK entries : entries = Entries(file) OBVIOUS
<1>2. entries = [i \in DOMAIN file |-> Entry(file[i])] BY <1>1 DEF Entries
<1>3. Len(file) \in Nat /\ DOMAIN file = 1..Len(file) BY FunctionOfSeq
<1>4. entries = [i \in 1..Len(file) |-> entries[i]] BY <1>2, <1>3
<1>5. IsSeq(entries) /\ DOMAIN entries = DOMAIN file BY <1>3, <1>4, SeqOfFunction
<1>6. \A i \in DOMAIN entries : entries[i].new = file[i] BY <1>2, <1>5 DEF Entry
<1> QED BY <1>1, <1>5, <1>6 DEF GoodEntries

LEMMA ImportStepKeeps ==
  ASSUME IInv, ImportSshConfig \/ BatchImport \/ ImportSessions
  PROVE  IInv'
<1>1. CASE BatchImport
  <2>1. GoodEntries(Entries(Pasted)) BY EntriesAreGood, FilesAssumption
  <2> QED BY <1>1, <2>1, ImportKeeps DEF BatchImport
<1>2. CASE ImportSshConfig
  <2>1. PICK entries : entries = [i \in DOMAIN SshHost |-> SshConfigEntry(SshHost[i])] OBVIOUS
  <2>2. Len(SshHost) \in Nat /\ DOMAIN SshHost = 1..Len(SshHost) BY FunctionOfSeq, FilesAssumption
  <2>3. entries = [i \in 1..Len(SshHost) |-> entries[i]] BY <2>1, <2>2
  <2>4. IsSeq(entries) /\ DOMAIN entries = DOMAIN SshHost BY <2>2, <2>3, SeqOfFunction
  <2>5. ASSUME NEW i \in DOMAIN entries PROVE IsSession(entries[i].new) /\ Sound(entries[i].new.secret)
    <3>1. PICK h : h = SshHost[i] OBVIOUS
    <3>2. entries[i] = SshConfigEntry(h) BY <2>1, <2>4, <3>1
    <3>3. PICK s : s = entries[i].new OBVIOUS
    <3>4. s = [id |-> 0, name |-> h.alias, host |-> h.host,
               user |-> IF h.user = NoName THEN Root ELSE h.user,
               auth |-> IF h.key THEN "key" ELSE "password", group |-> NoName, secret |-> NoSecret]
      BY <3>2, <3>3 DEF SshConfigEntry
    <3>5. IsSession(s) /\ s.secret = NoSecret BY <3>4 DEF IsSession
    <3> QED BY <3>3, <3>5, PlainIsSound
  <2>6. GoodEntries(entries) BY <2>4, <2>5 DEF GoodEntries
  <2> QED BY <1>2, <2>1, <2>6, ImportKeeps DEF ImportSshConfig
<1>3. CASE ImportSessions
  <2>1. PICK file \in Export : Import(Entries(WithSecrets(file, LAMBDA s : Opened(s, key))))
    BY <1>3 DEF ImportSessions
  <2>2. IsSeq(file) /\ \A i \in DOMAIN file : IsSession(file[i]) /\ Sound(Decrypted(file[i].secret, ExportKey))
    BY FilesAssumption
  <2>3. PICK plain : plain = [i \in DOMAIN file |-> [file[i] EXCEPT !.secret = Opened(file[i].secret, key)]]
    OBVIOUS
  <2>4. Import(Entries(plain)) BY <2>1, <2>3 DEF WithSecrets
  <2>5. Len(file) \in Nat /\ DOMAIN file = 1..Len(file) BY <2>2, FunctionOfSeq
  <2>6. plain = [i \in 1..Len(file) |-> plain[i]] BY <2>3, <2>5
  <2>7. IsSeq(plain) /\ DOMAIN plain = DOMAIN file BY <2>5, <2>6, SeqOfFunction
  <2>8. ASSUME NEW i \in DOMAIN plain PROVE IsSession(plain[i]) /\ Sound(plain[i].secret)
    <3>1. PICK s : s = file[i] OBVIOUS
    <3>2. PICK c : c = Opened(s.secret, key) OBVIOUS
    <3>3. IsSession(s) /\ Sound(c) BY <2>2, <2>7, <3>1, <3>2, OpenedIsSound
    <3>4. plain[i] = [s EXCEPT !.secret = c] BY <2>3, <2>7, <3>1, <3>2
    <3>5. s = [id |-> s.id, name |-> s.name, host |-> s.host, user |-> s.user, auth |-> s.auth,
               group |-> s.group, secret |-> s.secret]
      BY <3>3 DEF IsSession
    <3>6. plain[i] = [id |-> s.id, name |-> s.name, host |-> s.host, user |-> s.user, auth |-> s.auth,
                      group |-> s.group, secret |-> c]
      BY <3>4, <3>5
    <3> QED BY <3>3, <3>6 DEF IsSession
  <2>9. GoodEntries(Entries(plain)) BY <2>7, <2>8, EntriesAreGood
  <2> QED BY <2>4, <2>9, ImportKeeps
<1> QED BY <1>1, <1>2, <1>3

-----------------------------------------------------------------------------
(* Every step. *)
LEMMA StepHolds == IInv /\ [Next]_vars => IInv'
<1> SUFFICES ASSUME IInv, [Next]_vars PROVE IInv' OBVIOUS
<1>1. CASE Load BY <1>1, LoadKeeps
<1>2. CASE WriteTmp \/ Rename BY <1>2, SaveKeeps
<1>3. CASE Stop \/ TouchFiles BY <1>3, EndKeeps
<1>4. CASE NewSession \/ DialogSubmit \/ DialogCancel BY <1>4, DialogStepKeeps
<1>5. ASSUME NEW id \in Ids(cache.sessions), OnSession(id) PROVE IInv'
  <2>1. CASE EditSession(id) BY <2>1, DialogStepKeeps
  <2>2. CASE RemoveSession(id) \/ DuplicateSession(id) \/ AskPassword(id) BY <2>2, SessionStepKeeps
  <2>3. ASSUME NEW g, MoveSession(id, g) PROVE IInv' BY <2>3, SessionStepKeeps
  <2> QED BY <1>5, <2>1, <2>2, <2>3 DEF OnSession
<1>6. CASE RememberPassword BY <1>6, RememberKeeps
<1>7. CASE SubmitGroup \/ DeleteGroup \/ SubmitQuickGroup \/ DeleteQuickGroup BY <1>7, GroupStepKeeps
<1>8. CASE ImportSshConfig \/ BatchImport \/ ImportSessions BY <1>8, ImportStepKeeps
<1>9. CASE AddQuickCommand \/ SaveQuickCommand \/ CloseForm BY <1>9, QuickStepKeeps
<1>10. ASSUME NEW i \in Quick, OnQuick(i) PROVE IInv' BY <1>10, QuickStepKeeps DEF OnQuick
<1>11. CASE RunCommand \/ DeleteHistory \/ SetSidebar BY <1>11, HistoryStepKeeps
<1>12. ASSUME NEW i \in 1..DirCap, NEW path, SaveQuickDir(i, path) PROVE IInv'
  BY <1>12, QuickDirStepKeeps
<1>13. CASE UNCHANGED vars
  BY <1>13 DEF vars, diskVars, uiVars, IInv, Counters, DialogId, InMemory, OnFile, LastSave
<1> QED
  BY <1>1, <1>2, <1>3, <1>4, <1>5, <1>6, <1>7, <1>8, <1>9, <1>10, <1>11, <1>12, <1>13 DEF Next

(* Whatever is edited, renamed, imported or read from an older file, and wherever the
   program ends: the lists of the store stay clean and within their caps, and every
   password carries one layer of encryption at most, in memory and on disk. *)
THEOREM StoreStaysSound == Spec => []StoreIsSound
<1>1. Init => IInv BY InitHolds
<1>2. IInv /\ [Next]_vars => IInv' BY StepHolds
<1>3. IInv => StoreIsSound BY InvImpliesSound
<1> QED BY <1>1, <1>2, <1>3, PTL DEF Spec

-----------------------------------------------------------------------------
(* A start after a save that finished: the file still holds it, nothing is left to
   migrate or to drop, and opening what was sealed gives the passwords back. *)
LEMMA LoadOfSave ==
  ASSUME NEW cfg, NEW fresh, Current(cfg, fresh), NEW k \in Nat \ {ExportKey}, NEW now
  PROVE  /\ Locked(Loaded(OnDisk(cfg, k), now)) = Locked(cfg)
         /\ now = k => Loaded(OnDisk(cfg, k), now) = Readable(cfg, k)
<1> DEFINE sealed == SealedWith(cfg.sessions, k)
           opened == OpenedWith(sealed, now)
<1>1. Good(cfg, fresh) /\ IsConfig(cfg) /\ cfg.rev = DefaultsRev BY DEF Current, Good
<1>2. Sessions(cfg.sessions, fresh) /\ IsSeq(cfg.history) /\ Unique(cfg.history)
  BY <1>1 DEF Good, ShortList
<1>3. /\ now = k => opened = OpenedWith(cfg.sessions, k)
      /\ Erased(opened) = Erased(cfg.sessions)
  BY <1>2, RestoredList
<1>4. Sessions(sealed, fresh) BY <1>2, SealedList
<1>5. Sessions(opened, fresh) BY <1>4, OpenedList
<1>6. PICK file : file = OnDisk(cfg, k) OBVIOUS
<1>7. file = [cfg EXCEPT !.sessions = sealed] BY <1>6 DEF OnDisk, SealedWith, WithSecrets
<1>8. HasFields(file, sealed, cfg.groups, cfg.quick, cfg.quickGroups, cfg.history, cfg.dirs, cfg.sidebar, cfg.rev)
  <2> HIDE DEF sealed
  <2> QED BY <1>1, <1>7, ConfigExcept
<1>9. PICK d : d = [file EXCEPT !.sessions = opened, !.history = cfg.history] OBVIOUS
<1>10. Loaded(file, now) = MigrateDefaults(d, Starter)
  <2>1. PICK e : e = [file EXCEPT !.sessions = opened] OBVIOUS
  <2>2. file.sessions = sealed /\ file.history = cfg.history /\ IsConfig(file) BY <1>8 DEF HasFields
  <2>3. e.history = cfg.history BY <2>1, <2>2, ConfigExcept DEF HasFields
  <2>4. DedupKeepLast(cfg.history) = cfg.history BY <1>2, DedupOfUnique
  <2>5. [e EXCEPT !.history = DedupKeepLast(e.history)] = d
    <3> HIDE DEF opened
    <3> QED BY <1>9, <2>1, <2>3, <2>4
  <2>6. opened = WithSecrets(file.sessions, LAMBDA s : Decrypted(s, now))
    BY <2>2 DEF OpenedWith, WithSecrets
  <2> HIDE DEF opened
  <2>7. d = [file EXCEPT !.sessions = WithSecrets(file.sessions, LAMBDA s : Decrypted(s, now)),
                         !.history = DedupKeepLast(file.history)]
    BY <1>9, <2>2, <2>4, <2>6
  <2> QED BY <2>7 DEF Loaded
<1> HIDE DEF sealed, opened
<1>11. HasFields(d, opened, cfg.groups, cfg.quick, cfg.quickGroups, cfg.history, cfg.dirs, cfg.sidebar, cfg.rev)
  <2>1. PICK e : e = [file EXCEPT !.sessions = opened] OBVIOUS
  <2>2. HasFields(e, opened, cfg.groups, cfg.quick, cfg.quickGroups, cfg.history, cfg.dirs, cfg.sidebar, cfg.rev)
    <3>1. HasFields(e, opened, file.groups, file.quick, file.quickGroups, file.history, file.dirs,
                    file.sidebar, file.rev)
      <4>1. IsConfig(file) BY <1>8 DEF HasFields
      <4> QED BY <2>1, <4>1, ConfigExcept
    <3> QED BY <1>8, <3>1 DEF HasFields
  <2>3. d = [e EXCEPT !.history = cfg.history] BY <1>9, <2>1
  <2>4. IsConfig(e) BY <2>2 DEF HasFields
  <2>5. HasFields(d, e.sessions, e.groups, e.quick, e.quickGroups, cfg.history, e.dirs, e.sidebar, e.rev)
    BY <2>3, <2>4, ConfigExcept
  <2> QED BY <2>2, <2>5 DEF HasFields
<1>12. PICK c : c = [cfg EXCEPT !.sessions = opened] OBVIOUS
<1>13. HasFields(c, opened, cfg.groups, cfg.quick, cfg.quickGroups, cfg.history, cfg.dirs, cfg.sidebar, cfg.rev)
  BY <1>1, <1>12, ConfigExcept
<1>14. d = c BY <1>11, <1>13, SameFields
<1>15. Good(c, fresh) BY <1>1, <1>5, <1>12, ChangedConfig
<1>16. c.rev = DefaultsRev BY <1>1, <1>13 DEF HasFields
<1>17. MigrateDefaults(c, Starter) = c BY <1>15, <1>16, MigrateKeeps
<1>18. Loaded(OnDisk(cfg, k), now) = c BY <1>6, <1>10, <1>14, <1>17
<1>19. Locked(c) = Locked(cfg)
  <2>1. PICK erased : erased = Erased(cfg.sessions) OBVIOUS
  <2>2. Locked(cfg) = [cfg EXCEPT !.sessions = erased] BY <2>1 DEF Locked, Erased, WithSecrets
  <2>3. c.sessions = opened BY <1>13 DEF HasFields
  <2>4. Erased(c.sessions) = erased BY <1>3, <2>1, <2>3
  <2>5. Locked(c) = [c EXCEPT !.sessions = erased] BY <2>4 DEF Locked, Erased, WithSecrets
  <2> QED BY <1>12, <2>2, <2>5
<1>20. ASSUME now = k PROVE c = Readable(cfg, k)
  <2>1. opened = OpenedWith(cfg.sessions, k) BY <1>3, <1>20
  <2> QED BY <1>12, <2>1 DEF Readable, OpenedWith, WithSecrets
<1> QED BY <1>18, <1>19, <1>20

(* A start brings back the configuration of the last save that finished, wherever the
   program ended and whichever write failed since; passwords readable when the key is
   the one of that save, and no other. *)
THEOREM StartRestoresTheSaved == Spec => RestartRestoresTheSaved
<1>1. Init => IInv BY InitHolds
<1>2. IInv /\ [Next]_vars => IInv' BY StepHolds
<1>3. IInv /\ [Next]_vars
        => [Load /\ saved # Unknown =>
              /\ Locked(cache') = Locked(saved.cfg)
              /\ key' = saved.key => cache' = Readable(saved.cfg, key')]_vars
  <2> SUFFICES ASSUME IInv, Load, saved # Unknown
               PROVE  /\ Locked(cache') = Locked(saved.cfg)
                      /\ key' = saved.key => cache' = Readable(saved.cfg, key')
    OBVIOUS
  <2>1. /\ Current(saved.cfg, nextId) /\ saved.key \in Nat \ {ExportKey}
        /\ disk = Holding(OnDisk(saved.cfg, saved.key))
    BY DEF IInv, LastSave
  <2>2. disk.is = "config" /\ disk.cfg = OnDisk(saved.cfg, saved.key) BY <2>1 DEF Holding
  <2>3. cache' = Loaded(disk.cfg, key') BY <2>2 DEF Load
  <2>4. PICK now : now = key' OBVIOUS
  <2>5. cache' = Loaded(OnDisk(saved.cfg, saved.key), now) BY <2>2, <2>3, <2>4
  <2> QED BY <2>1, <2>4, <2>5, LoadOfSave
<1> QED BY <1>1, <1>2, <1>3, PTL DEF Spec, RestartRestoresTheSaved

-----------------------------------------------------------------------------
(* A password sealed for an export is opened to what it was. *)
LEMMA FrontAppend ==
  ASSUME NEW S, NEW s \in Seq(S), NEW e \in S
  PROVE  Append(s, e) # <<>> /\ Last(Append(s, e)) = e /\ Front(Append(s, e)) = s
<1>1. /\ Append(s, e) \in Seq(S) /\ Len(Append(s, e)) = Len(s) + 1
      /\ Append(s, e)[Len(s) + 1] = e /\ \A i \in 1..Len(s) : Append(s, e)[i] = s[i]
  BY AppendProperties
<1>2. Len(s) \in Nat BY LenProperties
<1>3. PICK t : t = Append(s, e) OBVIOUS
<1>4. t \in Seq(S) /\ Len(t) = Len(s) + 1 BY <1>1, <1>3
<1>5. t # <<>> /\ Last(t) = e BY <1>1, <1>2, <1>3 DEF Last
<1>6. Front(t) = SubSeq(t, 1, Len(s)) BY <1>2, <1>4 DEF Front
<1>7. \A i \in 1..Len(s) : t[i] \in S BY <1>2, <1>4
<1>8. /\ SubSeq(t, 1, Len(s)) \in Seq(S)
      /\ Len(SubSeq(t, 1, Len(s))) = IF 1 <= Len(s) THEN Len(s) - 1 + 1 ELSE 0
      /\ \A i \in 1..(Len(s) - 1 + 1) : SubSeq(t, 1, Len(s))[i] = t[1 + i - 1]
  BY <1>2, <1>7, SubSeqProperties
<1>9. PICK front : front = SubSeq(t, 1, Len(s)) OBVIOUS
<1>10. front \in Seq(S) /\ Len(front) = Len(s) BY <1>2, <1>8, <1>9
<1>11. \A i \in 1..Len(s) : front[i] = s[i]
  <2> SUFFICES ASSUME NEW i \in 1..Len(s) PROVE front[i] = s[i] OBVIOUS
  <2>1. i \in 1..(Len(s) - 1 + 1) /\ 1 + i - 1 = i BY <1>2
  <2>2. front[i] = t[i] BY <1>8, <1>9, <2>1
  <2> QED BY <1>1, <1>3, <2>2
<1>12. front = s BY <1>10, <1>11, SeqEqual
<1> QED BY <1>3, <1>5, <1>6, <1>9, <1>12

LEMMA ExportedSecret ==
  ASSUME NEW s, Sound(s)
  PROVE  /\ Decrypted(Encrypted(s, ExportKey), ExportKey) = s
         /\ s.value # "" => \A k : Opened(Encrypted(s, ExportKey), k) = s
<1>1. PICK v : s = Secret(v, <<>>) \/ \E x \in Nat \ {ExportKey} : s = Secret(v, <<x>>) BY SoundForms
<1>2. s.value = v
  <2>1. \A l : Secret(v, l).value = v BY DEF Secret
  <2> QED BY <1>1, <2>1
<1>3. Decrypted(s, ExportKey) = s
  <2>1. CASE s = Secret(v, <<>>) BY <2>1, OpenedForms
  <2>2. ASSUME NEW x \in Nat \ {ExportKey}, s = Secret(v, <<x>>) PROVE Decrypted(s, ExportKey) = s
    <3>1. x # ExportKey OBVIOUS
    <3> QED BY <2>2, <3>1, OpenedForms
  <2> QED BY <1>1, <2>1, <2>2
<1>4. CASE v = "" BY <1>2, <1>3, <1>4 DEF Encrypted
<1>5. CASE v # ""
  <2>1. PICK sealed : sealed = Encrypted(s, ExportKey) OBVIOUS
  <2>2. PICK l : l = s.layers OBVIOUS
  <2>3. l \in Seq(Nat) /\ s = Secret(v, l) BY <1>1, <2>2 DEF Sound, Secret
  <2>4. sealed = Secret(v, Append(l, ExportKey))
    <3>1. PICK longer : longer = Append(l, ExportKey) OBVIOUS
    <3>2. sealed = [s EXCEPT !.layers = longer] BY <1>2, <1>5, <2>1, <2>2, <3>1 DEF Encrypted
    <3>3. [Secret(v, l) EXCEPT !.layers = longer] = Secret(v, longer) BY DEF Secret
    <3> QED BY <2>3, <3>1, <3>2, <3>3
  <2>5. Append(l, ExportKey) # <<>> /\ Last(Append(l, ExportKey)) = ExportKey
        /\ Front(Append(l, ExportKey)) = l
    <3>1. ExportKey \in Nat /\ Len(l) \in Nat BY <2>3 DEF ExportKey
    <3>2. Len(Append(l, ExportKey)) = Len(l) + 1 /\ Append(l, ExportKey)[Len(l) + 1] = ExportKey
      BY <2>3, <3>1, AppendProperties
    <3> QED BY <2>3, <3>1, <3>2, FrontAppend DEF Last
  <2>6. Decrypted(sealed, ExportKey) = s
    <3>1. sealed.layers = Append(l, ExportKey) BY <2>4 DEF Secret
    <3>2. [sealed EXCEPT !.layers = l] = s BY <2>3, <2>4 DEF Secret
    <3> QED BY <2>5, <3>1, <3>2 DEF Decrypted
  <2>7. sealed # s
    <3>1. sealed.layers # s.layers
      <4>1. Len(l) # Len(l) + 1 BY <2>3
      <4>2. Len(Append(l, ExportKey)) = Len(l) + 1 BY <2>3, AppendProperties DEF ExportKey
      <4>3. sealed.layers = Append(l, ExportKey) BY <2>4 DEF Secret
      <4> QED BY <2>2, <4>1, <4>2, <4>3
    <3> QED BY <3>1
  <2> QED BY <2>1, <2>6, <2>7 DEF Opened
<1> QED BY <1>4, <1>5

(* export_to and import_from: what is written of a sound list has the shape that
   FilesAssumption asks of exported files, and each password that is set comes back
   as it was, under whatever key the other program has. *)
THEOREM ExportsAreReadBack ==
  ASSUME NEW sessions, NEW fresh, SessionList(sessions, fresh)
  PROVE  /\ IsSeq(Exported(sessions)) /\ DOMAIN Exported(sessions) = DOMAIN sessions
         /\ \A i \in DOMAIN sessions :
              /\ IsSession(Exported(sessions)[i])
              /\ Decrypted(Exported(sessions)[i].secret, ExportKey) = sessions[i].secret
              /\ sessions[i].secret.value # "" =>
                   \A k : Opened(Exported(sessions)[i].secret, k) = sessions[i].secret
<1>1. PICK file : file = Exported(sessions) OBVIOUS
<1>2. file = [i \in DOMAIN sessions |->
                [sessions[i] EXCEPT !.secret = Encrypted(sessions[i].secret, ExportKey)]]
  BY <1>1 DEF Exported, WithSecrets
<1>3. IsSeq(sessions) BY DEF SessionList
<1>4. Len(sessions) \in Nat /\ DOMAIN sessions = 1..Len(sessions) BY <1>3, FunctionOfSeq
<1>5. file = [i \in 1..Len(sessions) |-> file[i]] BY <1>2, <1>4
<1>6. IsSeq(file) /\ DOMAIN file = DOMAIN sessions BY <1>4, <1>5, SeqOfFunction
<1>7. ASSUME NEW i \in DOMAIN sessions
      PROVE  /\ IsSession(file[i])
             /\ Decrypted(file[i].secret, ExportKey) = sessions[i].secret
             /\ sessions[i].secret.value # "" => \A k : Opened(file[i].secret, k) = sessions[i].secret
  <2>1. PICK s : s = sessions[i] OBVIOUS
  <2>2. IsSession(s) /\ Sound(s.secret) BY <2>1 DEF SessionList, SessionBelow
  <2>3. PICK c : c = Encrypted(s.secret, ExportKey) OBVIOUS
  <2>4. file[i] = [s EXCEPT !.secret = c] BY <1>2, <2>1, <2>3
  <2>5. s = [id |-> s.id, name |-> s.name, host |-> s.host, user |-> s.user, auth |-> s.auth,
             group |-> s.group, secret |-> s.secret]
    BY <2>2 DEF IsSession
  <2>6. file[i] = [id |-> s.id, name |-> s.name, host |-> s.host, user |-> s.user, auth |-> s.auth,
                   group |-> s.group, secret |-> c]
    BY <2>4, <2>5
  <2>7. IsSession(file[i]) /\ file[i].secret = c BY <2>6 DEF IsSession
  <2>8. Decrypted(c, ExportKey) = s.secret /\ (s.secret.value # "" => \A k : Opened(c, k) = s.secret)
    BY <2>2, <2>3, ExportedSecret
  <2> QED BY <2>1, <2>7, <2>8
<1> QED BY <1>1, <1>6, <1>7
=============================================================================
