---------------------------- MODULE DirTree_proofs ---------------------------
(***************************************************************************)
(* Proofs about DirTree, for every set of directories: what a refresh, the *)
(* panel's own commands and following the file list do to the tree.        *)
(* The server's directories are closed under ancestors, which is the one    *)
(* invariant all of it rests on.                                           *)
(***************************************************************************)
EXTENDS DirTree, SequenceTheorems, WellFoundedInduction, TLAPS

-----------------------------------------------------------------------------
(* Paths.                                                                  *)

(* The first n names of a path are a path of length n.                     *)
LEMMA UptoIs ==
  ASSUME NEW p \in Path, NEW n \in 0..Len(p)
  PROVE  /\ Upto(p, n) \in Path /\ Upto(p, n) \in Seq(Name)
         /\ Len(Upto(p, n)) = n
         /\ \A i \in 1..n : Upto(p, n)[i] = p[i]
<1>1. p \in Seq(Name) /\ Upto(p, n) \in Path
  BY PathAssumption
<1>2. QED
  BY <1>1, SubSeqProperties, PathAssumption DEF Upto

(* Two paths of one length with the same names are one.                    *)
LEMMA SamePath ==
  ASSUME NEW p \in Path, NEW q \in Path, Len(p) = Len(q),
         \A i \in 1..Len(p) : p[i] = q[i]
  PROVE  p = q
<1>1. p \in Seq(Name) /\ q \in Seq(Name)
  BY PathAssumption
<1>2. QED
  BY <1>1, SeqEqual

LEMMA UptoAll ==
  ASSUME NEW p \in Path
  PROVE  Len(p) \in Nat /\ Upto(p, Len(p)) = p /\ (Len(p) = 0 <=> p = Root)
<1>1. p \in Seq(Name) /\ Len(p) \in Nat /\ Root \in Path
  BY PathAssumption, LenProperties
<1>2. Upto(p, Len(p)) = p
  BY <1>1, UptoIs, SamePath
<1>3. Len(p) = 0 <=> p = Root
  BY <1>1, EmptySeq DEF Root
<1>4. QED
  BY <1>1, <1>2, <1>3

LEMMA UptoUpto ==
  ASSUME NEW p \in Path, NEW n \in 0..Len(p), NEW m \in 0..n
  PROVE  Upto(Upto(p, n), m) = Upto(p, m)
<1>1. Len(p) \in Nat /\ m \in 0..Len(p)
  BY UptoAll
<1>2. /\ Upto(p, n) \in Path /\ Len(Upto(p, n)) = n
      /\ \A i \in 1..n : Upto(p, n)[i] = p[i]
  BY UptoIs
<1>3. /\ Upto(p, m) \in Path /\ Len(Upto(p, m)) = m
      /\ \A i \in 1..m : Upto(p, m)[i] = p[i]
  BY <1>1, UptoIs
<1>4. /\ Upto(Upto(p, n), m) \in Path /\ Len(Upto(Upto(p, n), m)) = m
      /\ \A i \in 1..m : Upto(Upto(p, n), m)[i] = Upto(p, n)[i]
  BY <1>2, UptoIs
<1>5. \A i \in 1..m : Upto(Upto(p, n), m)[i] = Upto(p, m)[i]
  BY <1>1, <1>2, <1>3, <1>4
<1>6. QED
  BY <1>3, <1>4, <1>5, SamePath

LEMMA ParentIs ==
  ASSUME NEW p \in Path, p # Root
  PROVE  /\ Len(p) \in Nat \ {0}
         /\ Parent(p) \in Path /\ Len(Parent(p)) = Len(p) - 1
         /\ \A n \in 0..(Len(p) - 1) : Upto(Parent(p), n) = Upto(p, n)
<1>1. Len(p) \in Nat \ {0} /\ Len(p) - 1 \in 0..Len(p)
  BY UptoAll
<1>2. QED
  BY <1>1, UptoIs, UptoUpto DEF Parent

(* Below is reflexive, closed downwards, and left only through its top.    *)
LEMMA BelowItself == ASSUME NEW p \in Path PROVE p \in Below(p)
BY UptoAll DEF Below

LEMMA BelowIsClosed ==
  ASSUME NEW p \in Path, NEW q \in Path, NEW n \in 0..Len(q), Upto(q, n) \in Below(p)
  PROVE  q \in Below(p)
<1>1. Len(p) \in Nat /\ Len(q) \in Nat /\ Len(Upto(q, n)) = n
  BY UptoAll, UptoIs
<1>2. Len(p) <= n /\ Upto(Upto(q, n), Len(p)) = p
  BY <1>1 DEF Below
<1>3. Upto(q, Len(p)) = p
  BY <1>1, <1>2, UptoUpto
<1>4. QED
  BY <1>1, <1>2, <1>3 DEF Below

LEMMA ParentBelow ==
  ASSUME NEW p \in Path, NEW q \in Path, q # Root
  PROVE  /\ Parent(q) \in Below(p) => q \in Below(p)
         /\ q \in Below(p) /\ q # p => Parent(q) \in Below(p)
<1>1. Len(q) \in Nat \ {0} /\ Len(p) \in Nat /\ Len(q) - 1 \in 0..Len(q)
  BY UptoAll
<1>2. Parent(q) \in Below(p) => q \in Below(p)
  BY <1>1, BelowIsClosed DEF Parent
<1>3. ASSUME q \in Below(p), q # p PROVE Parent(q) \in Below(p)
  <2>1. Len(p) # Len(q)
    BY <1>3, UptoAll DEF Below
  <2>2. Len(p) \in 0..(Len(q) - 1)
    BY <1>1, <1>3, <2>1 DEF Below
  <2>3. Upto(Parent(q), Len(p)) = p /\ Len(Parent(q)) = Len(q) - 1 /\ Parent(q) \in Path
    BY <1>3, <2>2, ParentIs DEF Below
  <2>4. QED
    BY <1>1, <2>2, <2>3 DEF Below
<1>4. QED
  BY <1>2, <1>3

(* A moved node lies below the new place, and its ancestors move with it.  *)
LEMMA MovedIs ==
  ASSUME NEW from \in Path, NEW to \in Path, NEW p \in Below(from), Moved(from, to, p) \in Path
  PROVE  /\ Moved(from, to, p) \in Below(to)
         /\ Moved(from, to, p) = to => p = from
         /\ \A n \in Len(to)..Len(Moved(from, to, p)) :
              LET m == n - Len(to) + Len(from)
              IN /\ m \in 0..Len(p) /\ Upto(p, m) \in Below(from)
                 /\ Upto(Moved(from, to, p), n) = Moved(from, to, Upto(p, m))
<1> DEFINE k == Len(from)
           rest == SubSeq(p, k + 1, Len(p))
           q == to \o rest
<1>1. /\ p \in Path /\ p \in Seq(Name) /\ to \in Seq(Name) /\ Moved(from, to, p) = q
      /\ k \in Nat /\ Len(p) \in Nat /\ Len(to) \in Nat /\ k <= Len(p) /\ q \in Path
  BY UptoAll, PathAssumption DEF Below, Moved
<1>2. /\ rest \in Seq(Name) /\ Len(rest) = Len(p) - k
      /\ \A i \in 1..(Len(p) - k) : rest[i] = p[k + i]
  <2>1. \A i \in (k + 1)..Len(p) : p[i] \in Name
    BY <1>1
  <2>2. QED
    BY <1>1, <2>1, SubSeqProperties
<1>3. /\ q \in Seq(Name) /\ Len(q) = Len(to) + Len(p) - k
      /\ \A i \in 1..Len(q) : q[i] = IF i <= Len(to) THEN to[i] ELSE p[k + i - Len(to)]
  <2> HIDE DEF rest, q
  <2>1. /\ q \in Seq(Name) /\ Len(q) = Len(to) + Len(rest)
        /\ \A i \in 1..(Len(to) + Len(rest)) : q[i] = IF i <= Len(to) THEN to[i] ELSE rest[i - Len(to)]
    BY <1>1, <1>2, ConcatProperties DEF q
  <2>2. Len(q) = Len(to) + Len(p) - k
    BY <1>1, <1>2, <2>1
  <2>3. ASSUME NEW i \in 1..Len(q)
        PROVE  q[i] = IF i <= Len(to) THEN to[i] ELSE p[k + i - Len(to)]
    <3>1. i \in 1..(Len(to) + Len(rest))
      BY <1>1, <1>2, <2>2
    <3>2. CASE i <= Len(to)
      BY <2>1, <3>1, <3>2
    <3>3. CASE ~(i <= Len(to))
      <4>1. i - Len(to) \in 1..(Len(p) - k) /\ k + (i - Len(to)) = k + i - Len(to)
        BY <1>1, <2>2, <3>3
      <4>2. q[i] = rest[i - Len(to)] /\ rest[i - Len(to)] = p[k + (i - Len(to))]
        BY <1>2, <2>1, <3>1, <3>3, <4>1
      <4>3. QED
        BY <3>3, <4>1, <4>2
    <3>4. QED
      BY <3>2, <3>3
  <2>4. QED
    BY <2>1, <2>2, <2>3
<1> HIDE DEF rest, q
<1>4. Upto(q, Len(to)) = to
  <2>0. Len(to) \in 0..Len(q) /\ \A i \in 1..Len(to) : i \in 1..Len(q) /\ i <= Len(to)
    BY <1>1, <1>3
  <2>1. /\ Upto(q, Len(to)) \in Path /\ Len(Upto(q, Len(to))) = Len(to)
        /\ \A i \in 1..Len(to) : Upto(q, Len(to))[i] = q[i]
    BY <1>1, <2>0, UptoIs
  <2>2. \A i \in 1..Len(to) : Upto(q, Len(to))[i] = to[i]
    BY <1>3, <2>0, <2>1
  <2>3. QED
    BY <2>1, <2>2, SamePath
<1>5. q \in Below(to)
  BY <1>1, <1>3, <1>4 DEF Below
<1>6. q = to => p = from
  <2>1. q = to => Len(p) = k
    BY <1>1, <1>3
  <2>2. QED
    BY <1>1, <2>1, UptoAll DEF Below
<1>7. ASSUME NEW n \in Len(to)..Len(q)
      PROVE  LET m == n - Len(to) + k
             IN /\ m \in 0..Len(p) /\ Upto(p, m) \in Below(from)
                /\ Upto(q, n) = Moved(from, to, Upto(p, m))
  <2> DEFINE m == n - Len(to) + k
             r == Upto(p, m)
             part == SubSeq(r, k + 1, m)
  <2>1. m \in k..Len(p) /\ m \in 0..Len(p) /\ n \in 0..Len(q)
    BY <1>1, <1>3
  <2>2. /\ r \in Path /\ r \in Seq(Name) /\ Len(r) = m /\ \A i \in 1..m : r[i] = p[i]
    BY <1>1, <2>1, UptoIs
  <2>3. r \in Below(from)
    <3>1. Upto(r, k) = Upto(p, k)
      BY <1>1, <2>1, UptoUpto
    <3>2. QED
      BY <1>1, <2>1, <2>2, <3>1 DEF Below
  <2>4. Moved(from, to, r) = to \o part
    BY <2>2, <2>3 DEF Moved
  <2>5. /\ part \in Seq(Name) /\ Len(part) = m - k
        /\ \A i \in 1..(m - k) : part[i] = r[k + i]
    <3> HIDE DEF r
    <3>1. \A i \in (k + 1)..m : r[i] \in Name
      BY <1>1, <2>1, <2>2
    <3> HIDE DEF m
    <3>2. QED
      BY <1>1, <2>1, <3>1, SubSeqProperties
  <2>6. /\ to \o part \in Seq(Name) /\ Len(to \o part) = Len(to) + m - k
        /\ \A i \in 1..(Len(to) + m - k) :
             (to \o part)[i] = IF i <= Len(to) THEN to[i] ELSE part[i - Len(to)]
    <3> HIDE DEF part, m
    <3>1. /\ to \o part \in Seq(Name) /\ Len(to \o part) = Len(to) + Len(part)
          /\ \A i \in 1..(Len(to) + Len(part)) :
               (to \o part)[i] = IF i <= Len(to) THEN to[i] ELSE part[i - Len(to)]
      BY <1>1, <2>5, ConcatProperties
    <3>2. QED
      BY <1>1, <2>1, <2>5, <3>1
  <2>7. /\ Upto(q, n) \in Seq(Name) /\ Len(Upto(q, n)) = n
        /\ \A i \in 1..n : Upto(q, n)[i] = q[i]
    BY <1>1, <2>1, UptoIs
  <2>8. Len(to \o part) = n
    BY <1>1, <2>1, <2>6
  <2>9. \A i \in 1..n : Upto(q, n)[i] = (to \o part)[i]
    <3> SUFFICES ASSUME NEW i \in 1..n PROVE Upto(q, n)[i] = (to \o part)[i]
      OBVIOUS
    <3>1. CASE i <= Len(to)
      <4>1. i \in 1..Len(q) /\ i \in 1..(Len(to) + m - k)
        BY <1>1, <1>3, <2>1
      <4>2. q[i] = to[i]
        BY <1>3, <3>1, <4>1
      <4>3. (to \o part)[i] = to[i]
        BY <2>6, <3>1, <4>1
      <4>4. QED
        BY <2>7, <4>2, <4>3
    <3>2. CASE i > Len(to)
      <4> DEFINE j == i - Len(to)
      <4>1. j \in 1..(m - k) /\ k + j \in 1..m /\ i \in 1..Len(q) /\ k + i - Len(to) = k + j
        BY <1>1, <1>3, <2>1, <3>2
      <4>2. q[i] = p[k + j]
        BY <1>1, <1>3, <3>2, <4>1
      <4>3. (to \o part)[i] = part[j]
        BY <1>1, <2>1, <2>6, <3>2, <4>1
      <4>4. part[j] = p[k + j]
        BY <2>2, <2>5, <4>1
      <4>5. QED
        BY <2>7, <4>2, <4>3, <4>4
    <3>3. QED
      BY <1>1, <3>1, <3>2
  <2>10. Upto(q, n) = to \o part
    <3> HIDE DEF part
    <3>1. QED
      BY <2>6, <2>7, <2>8, <2>9, SeqEqual
  <2>11. QED
    BY <2>1, <2>3, <2>4, <2>10
<1>8. QED
  BY <1>1, <1>5, <1>6, <1>7

(* A set of numbers that is not empty has a least one.                     *)
LEMMA Least ==
  ASSUME NEW T \in SUBSET Nat, T # {}
  PROVE  \E x \in T : \A y \in T : x <= y
<1>1. PICK x \in T : \A y \in T : ~(<<y, x>> \in OpToRel(<, Nat))
  BY NatLessThanWellFounded, WFMin, Zenon
<1>2. ASSUME NEW y \in T PROVE x <= y
  <2>1. ~(<<y, x>> \in OpToRel(<, Nat))
    BY <1>1
  <2>2. x \in Nat /\ y \in Nat
    OBVIOUS
  <2>3. y < x => <<y, x>> \in OpToRel(<, Nat)
    BY <2>2 DEF OpToRel
  <2>4. ~(y < x)
    BY <2>1, <2>3, Zenon
  <2>5. QED
    BY <2>2, <2>4, SMT
<1>3. QED
  BY <1>2

-----------------------------------------------------------------------------
(* The server's directories.                                               *)

LEMMA TreeIs ==
  ASSUME NEW on \in Trees
  PROVE  /\ on \subseteq Path /\ Root \in on
         /\ \A p \in on : \A n \in 0..Len(p) : Upto(p, n) \in on
         /\ \A p \in on : p # Root => Parent(p) \in on
<1>1. /\ on \subseteq Path /\ Root \in on
      /\ \A p \in on : \A n \in 0..Len(p) : Upto(p, n) \in on
  BY DEF Trees, Above
<1>2. ASSUME NEW p \in on, p # Root PROVE Parent(p) \in on
  <2>1. Len(p) - 1 \in 0..Len(p)
    BY <1>1, <1>2, ParentIs
  <2>2. QED
    BY <1>1, <2>1 DEF Parent
<1>3. QED
  BY <1>1, <1>2

LEMMA IsTree ==
  ASSUME NEW on \in SUBSET Path, Root \in on,
         \A p \in on : \A n \in 0..Len(p) : Upto(p, n) \in on
  PROVE  on \in Trees
BY DEF Trees, Above

LEMMA RootIsAbove == ASSUME NEW p \in Path, p # Root PROVE Root \notin Below(p)
<1>1. Root \in Path /\ Len(Root) = 0 /\ Len(p) \in Nat \ {0}
  BY PathAssumption, UptoAll, ParentIs
<1>2. QED
  BY <1>1 DEF Below

(* Without a directory and all below it the rest is a tree.                *)
LEMMA TreeWithout ==
  ASSUME NEW on \in Trees, NEW p \in Path, p # Root
  PROVE  on \ Below(p) \in Trees
<1>1. /\ on \subseteq Path /\ Root \in on
      /\ \A q \in on : \A n \in 0..Len(q) : Upto(q, n) \in on
  BY TreeIs
<1>2. Root \in on \ Below(p)
  BY <1>1, RootIsAbove
<1>3. \A q \in on \ Below(p) : \A n \in 0..Len(q) : Upto(q, n) \in on \ Below(p)
  BY <1>1, BelowIsClosed
<1>4. QED
  BY <1>1, <1>2, <1>3, IsTree

LEMMA TreeWithAncestors ==
  ASSUME NEW on \in Trees, NEW p \in Path
  PROVE  on \cup Above(p) \in Trees
<1>1. /\ on \subseteq Path /\ Root \in on
      /\ \A q \in on : \A n \in 0..Len(q) : Upto(q, n) \in on
  BY TreeIs
<1>2. Above(p) \subseteq Path
  BY UptoIs DEF Above
<1>3. ASSUME NEW q \in Above(p), NEW n \in 0..Len(q) PROVE Upto(q, n) \in Above(p)
  <2>1. PICK m \in 0..Len(p) : q = Upto(p, m)
    BY DEF Above
  <2>2. n \in 0..m /\ n \in 0..Len(p)
    BY <2>1, UptoIs, UptoAll
  <2>3. Upto(q, n) = Upto(p, n)
    BY <2>1, <2>2, UptoUpto
  <2>4. QED
    BY <2>2, <2>3 DEF Above
<1>4. QED
  BY <1>1, <1>2, <1>3, IsTree

LEMMA TreeWith ==
  ASSUME NEW on \in Trees, NEW p \in Path, p # Root, Parent(p) \in on
  PROVE  on \cup {p} \in Trees
<1>1. /\ on \subseteq Path /\ Root \in on
      /\ \A q \in on : \A n \in 0..Len(q) : Upto(q, n) \in on
  BY TreeIs
<1>2. ASSUME NEW n \in 0..Len(p) PROVE Upto(p, n) \in on \cup {p}
  <2>1. CASE n = Len(p)
    BY <2>1, UptoAll
  <2>2. CASE n # Len(p)
    <3>1. n \in 0..(Len(p) - 1) /\ n \in 0..Len(Parent(p)) /\ Upto(Parent(p), n) = Upto(p, n)
      BY <2>2, ParentIs
    <3>2. QED
      BY <1>1, <3>1
  <2>3. QED
    BY <2>1, <2>2
<1>3. QED
  BY <1>1, <1>2, IsTree

(* So is what a rename makes of it.                                        *)
LEMMA TreeMoved ==
  ASSUME NEW from \in Path, NEW to \in Path, dirs \in Trees, Moves(from, to)
  PROVE  dirs' \in Trees
<1>1. /\ dirs \subseteq Path /\ Root \in dirs /\ dirs' \subseteq Path
      /\ \A q \in dirs : \A n \in 0..Len(q) : Upto(q, n) \in dirs
      /\ from \in dirs /\ from # Root /\ to \notin dirs /\ to \notin Below(from)
      /\ Parent(to) \in dirs /\ to # Root
      /\ dirs' = {Moved(from, to, p) : p \in dirs}
  BY TreeIs DEF Moves
<1>2. \A p \in dirs : p \notin Below(from) => Moved(from, to, p) = p /\ p \in dirs'
  BY <1>1 DEF Moved
<1>3. Root \in dirs'
  BY <1>1, <1>2, RootIsAbove
<1>4. Parent(to) \notin Below(from)
  BY <1>1, ParentBelow
<1>5. ASSUME NEW q \in dirs', NEW n \in 0..Len(q) PROVE Upto(q, n) \in dirs'
  <2>1. PICK p \in dirs : q = Moved(from, to, p)
    BY <1>1
  <2>2. CASE p \notin Below(from)
    <3>1. q = p
      BY <1>2, <2>1, <2>2
    <3>2. Upto(p, n) \in dirs /\ Upto(p, n) \notin Below(from)
      BY <1>1, <2>2, <3>1, BelowIsClosed
    <3>3. QED
      BY <1>2, <3>1, <3>2
  <2>3. CASE p \in Below(from)
    <3>1. /\ q \in Below(to)
          /\ \A i \in Len(to)..Len(q) :
               LET m == i - Len(to) + Len(from)
               IN /\ m \in 0..Len(p) /\ Upto(p, m) \in Below(from)
                  /\ Upto(q, i) = Moved(from, to, Upto(p, m))
      BY <1>1, <2>1, <2>3, MovedIs
    <3>2. Len(to) \in Nat \ {0} /\ Len(q) \in Nat
      BY <1>1, ParentIs, UptoAll
    <3>3. CASE n >= Len(to)
      <4> DEFINE m == n - Len(to) + Len(from)
      <4>1. m \in 0..Len(p) /\ Upto(q, n) = Moved(from, to, Upto(p, m))
        BY <3>1, <3>2, <3>3
      <4>2. Upto(p, m) \in dirs
        BY <1>1, <4>1
      <4>3. QED
        BY <1>1, <4>1, <4>2
    <3>4. CASE n < Len(to)
      <4>1. n \in 0..(Len(to) - 1) /\ n \in 0..Len(to) /\ Upto(q, Len(to)) = to
            /\ Len(to) \in 0..Len(q)
        BY <3>1, <3>2, <3>4 DEF Below
      <4>2. Upto(q, n) = Upto(to, n)
        BY <1>1, <4>1, UptoUpto
      <4>3. Upto(to, n) = Upto(Parent(to), n) /\ n \in 0..Len(Parent(to))
        BY <1>1, <4>1, ParentIs
      <4>4. Upto(Parent(to), n) \in dirs /\ Upto(Parent(to), n) \notin Below(from)
        BY <1>1, <1>4, <4>3, BelowIsClosed
      <4>5. QED
        BY <1>2, <4>2, <4>3, <4>4
    <3>5. QED
      BY <3>2, <3>3, <3>4
  <2>4. QED
    BY <2>2, <2>3
<1>6. QED
  BY <1>1, <1>3, <1>5, IsTree

(* The server always has a tree of directories, whoever changes it.        *)
LEMMA InitTree == Init => dirs \in Trees
BY DEF Init

LEMMA RemainsTree == ASSUME NEW p \in Path PROVE Remains(p) \subseteq Trees
BY DEF Remains

LEMMA NextTree == dirs \in Trees /\ [Next]_vars => dirs' \in Trees
<1> SUFFICES ASSUME dirs \in Trees, [Next]_vars
             PROVE  dirs' \in Trees
  OBVIOUS
<1>1. CASE Elsewhere
  BY <1>1 DEF Elsewhere
<1>2. ASSUME NEW ok \in Listable, Command(ok) PROVE dirs' \in Trees
  <2>1. ASSUME NEW p \in Path, ListDir(p, ok) \/ RefreshDir(p, ok) \/ ToggleTreeNode(p, ok)
        PROVE  dirs' \in Trees
    BY <2>1 DEF ListDir, RefreshDir, ToggleTreeNode
  <2>2. ASSUME NEW p \in Path, Delete(p, ok) PROVE dirs' \in Trees
    BY <2>2, TreeWithout DEF Delete
  <2>3. ASSUME NEW p \in Path, MkDir(p, ok) PROVE dirs' \in Trees
    BY <2>3, TreeWith DEF MkDir
  <2>4. ASSUME NEW from \in Path, NEW to \in Path, Rename(from, to, ok) PROVE dirs' \in Trees
    BY <2>4, TreeMoved DEF Rename
  <2>5. QED
    BY <1>2, <2>1, <2>2, <2>3, <2>4 DEF Command
<1>3. ASSUME NEW ok \in Listable, ShellCommand(ok) PROVE dirs' \in Trees
  <2>1. ASSUME NEW p \in Path, ShellListDir(p, ok) PROVE dirs' \in Trees
    BY <2>1 DEF ShellListDir
  <2>2. ASSUME NEW p \in Path, ShellDelete(p, ok) PROVE dirs' \in Trees
    BY <2>2, TreeWithout, RemainsTree DEF ShellDelete
  <2>3. ASSUME NEW p \in Path, ShellMkDir(p, ok) PROVE dirs' \in Trees
    BY <2>3, TreeWithAncestors DEF ShellMkDir
  <2>4. ASSUME NEW from \in Path, NEW to \in Path, ShellRename(from, to) PROVE dirs' \in Trees
    BY <2>4, TreeMoved DEF ShellRename
  <2>5. QED
    BY <1>3, <2>1, <2>2, <2>3, <2>4 DEF ShellCommand
<1>4. ASSUME NEW p \in Path, DeleteStops(p) PROVE dirs' \in Trees
  BY <1>4, RemainsTree DEF DeleteStops
<1>5. CASE UNCHANGED vars
  BY <1>5 DEF vars
<1>6. QED
  BY <1>1, <1>2, <1>3, <1>4, <1>5 DEF Next

TreeInv == dirs \in Trees

LEMMA AlwaysTree == Spec => []TreeInv
<1>1. Init => TreeInv
  BY InitTree DEF TreeInv
<1>2. TreeInv /\ [Next]_vars => TreeInv'
  BY NextTree DEF TreeInv
<1>3. QED
  BY <1>1, <1>2, PTL DEF Spec

-----------------------------------------------------------------------------
(* The cache.                                                              *)

TrueOf(c, on) == \A d \in DOMAIN c : d \in on /\ c[d] = Kids(d, on)

(* What is listed is true; what was true and is not listed stays so.       *)
LEMMA ListedIs ==
  ASSUME NEW c, NEW ds, NEW on \in SUBSET Path
  PROVE  LET new == Listed(c, ds, on, Path)
         IN /\ DOMAIN new = DOMAIN c \cup (ds \cap on)
            /\ \A d \in DOMAIN new : d \in ds \cap on => new[d] = Kids(d, on)
            /\ \A d \in DOMAIN new : d \notin ds \cap on => new[d] = c[d]
            /\ TrueOf(c, on) => TrueOf(new, on)
<1>1. ds \cap on \cap Path = ds \cap on
  OBVIOUS
<1>2. QED
  BY <1>1 DEF Listed, TrueOf

LEMMA KidsAre ==
  ASSUME NEW on \in SUBSET Path, NEW d, NEW q
  PROVE  q \in Kids(d, on) <=> q \in on /\ q # Root /\ Parent(q) = d
BY DEF Kids

(* A command lists the parents again: the others have the children they had. *)
LEMMA SyncedIs ==
  ASSUME NEW c, NEW ds, NEW on \in SUBSET Path, NEW before \in SUBSET Path,
         \A d \in DOMAIN c : d \in before /\ d \in on /\ c[d] = Kids(d, before),
         \A d \in DOMAIN c : d \notin ds => Kids(d, before) = Kids(d, on)
  PROVE  TrueOf(Synced(c, ds, on, Path), on)
<1> DEFINE fresh == (ds \cap DOMAIN c) \cap on \cap Path
           new == [d \in DOMAIN c \cup fresh |-> IF d \in fresh THEN Kids(d, on) ELSE c[d]]
<1>1. Synced(c, ds, on, Path) = new
  BY DEF Synced, Listed
<1>2. ASSUME NEW d \in DOMAIN c PROVE d \in on /\ new[d] = Kids(d, on)
  <2>1. CASE d \in ds
    BY <2>1
  <2>2. CASE d \notin ds
    BY <2>2
  <2>3. QED
    BY <2>1, <2>2
<1>3. DOMAIN new = DOMAIN c
  OBVIOUS
<1>4. QED
  BY <1>1, <1>2, <1>3 DEF TrueOf

LEMMA WithoutIs ==
  ASSUME NEW c, NEW p
  PROVE  /\ DOMAIN Without(c, p) = DOMAIN c \ Below(p)
         /\ \A d \in DOMAIN Without(c, p) : Without(c, p)[d] = c[d]
BY DEF Without

-----------------------------------------------------------------------------
(* The panel's own commands.                                               *)

LEMMA DeleteIsSeen ==
  ASSUME dirs \in Trees, CacheIsTrue, NEW p \in Path, Delete(p, Path)
  PROVE  CacheIsTrue'
<1>1. p # Root /\ dirs' = dirs \ Below(p) /\ dirs \subseteq Path
      /\ cache' = Synced(Without(cache, p), {Parent(p)}, dirs', Path)
  BY TreeIs DEF Delete
<1>2. \A d \in DOMAIN Without(cache, p) :
        d \in dirs /\ d \in dirs' /\ Without(cache, p)[d] = Kids(d, dirs)
  BY <1>1, WithoutIs DEF CacheIsTrue
<1>3. ASSUME NEW d \in DOMAIN Without(cache, p), d \notin {Parent(p)}
      PROVE  Kids(d, dirs) = Kids(d, dirs')
  <2>1. d \notin Below(p)
    BY WithoutIs
  <2>2. ASSUME NEW q \in dirs, q # Root, Parent(q) = d PROVE q \notin Below(p)
    BY <1>1, <1>3, <2>1, <2>2, ParentBelow
  <2>3. QED
    BY <1>1, <2>2 DEF Kids
<1>4. TrueOf(Synced(Without(cache, p), {Parent(p)}, dirs', Path), dirs')
  <2>1. dirs \in SUBSET Path /\ dirs' \in SUBSET Path
    BY <1>1
  <2>2. QED
    BY <1>2, <1>3, <2>1, SyncedIs
<1>5. QED
  BY <1>1, <1>4 DEF CacheIsTrue, TrueOf

LEMMA MkDirIsSeen ==
  ASSUME dirs \in Trees, CacheIsTrue, NEW p \in Path, MkDir(p, Path)
  PROVE  CacheIsTrue'
<1>1. p # Root /\ dirs' = dirs \cup {p} /\ dirs \subseteq Path
      /\ cache' = Synced(cache, {Parent(p)}, dirs', Path)
  BY TreeIs DEF MkDir
<1>2. \A d \in DOMAIN cache : d \in dirs /\ d \in dirs' /\ cache[d] = Kids(d, dirs)
  BY <1>1 DEF CacheIsTrue
<1>3. ASSUME NEW d \in DOMAIN cache, d \notin {Parent(p)}
      PROVE  Kids(d, dirs) = Kids(d, dirs')
  BY <1>1, <1>3 DEF Kids
<1>4. TrueOf(Synced(cache, {Parent(p)}, dirs', Path), dirs')
  <2>1. dirs \in SUBSET Path /\ dirs' \in SUBSET Path
    BY <1>1
  <2>2. QED
    BY <1>2, <1>3, <2>1, SyncedIs
<1>5. QED
  BY <1>1, <1>4 DEF CacheIsTrue, TrueOf

LEMMA RenameIsSeen ==
  ASSUME dirs \in Trees, CacheIsTrue, NEW from \in Path, NEW to \in Path, Rename(from, to, Path)
  PROVE  CacheIsTrue'
<1>1. /\ dirs \subseteq Path /\ dirs' \subseteq Path
      /\ \A q \in dirs : \A n \in 0..Len(q) : Upto(q, n) \in dirs
      /\ from # Root /\ to # Root /\ to \notin dirs
      /\ dirs' = {Moved(from, to, p) : p \in dirs}
      /\ cache' = Synced(Without(cache, from), {Parent(from), Parent(to)}, dirs', Path)
  BY TreeIs DEF Rename, Moves
<1>2. \A p \in dirs : p \notin Below(from) => Moved(from, to, p) = p /\ p \in dirs'
  BY <1>1 DEF Moved
<1>3. \A d \in DOMAIN Without(cache, from) :
        d \in dirs /\ d \in dirs' /\ Without(cache, from)[d] = Kids(d, dirs)
  <2>1. \A d \in DOMAIN Without(cache, from) :
          d \in DOMAIN cache /\ d \notin Below(from) /\ Without(cache, from)[d] = cache[d]
    BY WithoutIs
  <2>2. QED
    BY <1>2, <2>1 DEF CacheIsTrue
<1>4. ASSUME NEW d \in DOMAIN Without(cache, from), d \notin {Parent(from), Parent(to)}
      PROVE  Kids(d, dirs) = Kids(d, dirs')
  <2>1. d \notin Below(from) /\ d \in dirs
    BY <1>3, WithoutIs
  <2>2. ASSUME NEW q \in dirs, q # Root, Parent(q) = d PROVE q \in dirs'
    BY <1>1, <1>2, <1>4, <2>1, <2>2, ParentBelow
  <2>3. ASSUME NEW q \in dirs', q # Root, Parent(q) = d PROVE q \in dirs
    <3>1. PICK p \in dirs : q = Moved(from, to, p)
      BY <1>1
    <3>2. CASE p \in Below(from)
      <4>1. q \in Path /\ q \in Below(to) /\ q # to
        BY <1>1, <1>4, <2>3, <3>1, <3>2, MovedIs
      <4>2. d \in Below(to)
        BY <1>1, <2>3, <4>1, ParentBelow
      <4>3. Len(to) \in 0..Len(d) /\ Upto(d, Len(to)) = to
        BY <1>1, <2>1, <4>2, UptoAll DEF Below
      <4>4. QED
        BY <1>1, <2>1, <4>3
    <3>3. CASE p \notin Below(from)
      BY <1>2, <3>1, <3>3
    <3>4. QED
      BY <3>2, <3>3
  <2>4. QED
    BY <1>1, <2>2, <2>3 DEF Kids
<1>5. TrueOf(Synced(Without(cache, from), {Parent(from), Parent(to)}, dirs', Path), dirs')
  <2>1. dirs \in SUBSET Path /\ dirs' \in SUBSET Path
    BY <1>1
  <2>2. QED
    BY <1>3, <1>4, <2>1, SyncedIs
<1>6. QED
  BY <1>1, <1>5 DEF CacheIsTrue, TrueOf

LEMMA CommandIsSeen ==
  ASSUME dirs \in Trees, mode = "sftp", CacheIsTrue, Command(Path)
  PROVE  CacheIsTrue'
<1>1. dirs \in SUBSET Path
  BY TreeIs
<1>2. ASSUME NEW ds, cache' = Listed(cache, ds, dirs, Path), dirs' = dirs PROVE CacheIsTrue'
  <2>1. TrueOf(cache, dirs)
    BY DEF CacheIsTrue, TrueOf
  <2>2. TrueOf(Listed(cache, ds, dirs, Path), dirs)
    BY <1>1, <2>1, ListedIs
  <2>3. QED
    BY <1>2, <2>2 DEF CacheIsTrue, TrueOf
<1>3. ASSUME NEW p \in Path, ListDir(p, Path) PROVE CacheIsTrue'
  BY <1>2, <1>3 DEF ListDir, Ensure, CacheIsTrue
<1>4. ASSUME NEW p \in Path, RefreshDir(p, Path) PROVE CacheIsTrue'
  BY <1>2, <1>4 DEF RefreshDir
<1>5. ASSUME NEW p \in Path, ToggleTreeNode(p, Path) PROVE CacheIsTrue'
  BY <1>2, <1>5 DEF ToggleTreeNode, CacheIsTrue
<1>6. QED
  BY <1>3, <1>4, <1>5, DeleteIsSeen, MkDirIsSeen, RenameIsSeen DEF Command

(* For every set of directories: the commands of the SFTP worker that      *)
(* create, delete and rename directories leave nothing stale in the tree's *)
(* cache, also below the directory that went away, if their listings       *)
(* succeed and nobody else changes the server.                             *)
THEOREM OwnChangesSeen == Spec => OwnChangesAreSeen
<1>1. TreeInv => (mode = "sftp" /\ CacheIsTrue /\ Command(Path) => CacheIsTrue')
  BY CommandIsSeen DEF TreeInv
<1>2. QED
  BY <1>1, AlwaysTree, PTL DEF OwnChangesAreSeen

-----------------------------------------------------------------------------
(* A refresh.                                                              *)

(* The node nearest to the root that is shown and gone would hang below a  *)
(* node that is there, whose list is new.                                  *)
LEMMA RefreshIs ==
  ASSUME dirs \in Trees, NEW d \in Path, RefreshDir(d, Path)
  PROVE  TreeIsTrue'
<1>1. /\ dirs' = dirs /\ expanded' = expanded /\ dirs \subseteq Path /\ Root \in dirs
      /\ cache' = Listed(cache, expanded, dirs, Path)
  BY TreeIs DEF RefreshDir, Again
<1>2. \A q \in DOMAIN cache' : q \in expanded \cap dirs => cache'[q] = Kids(q, dirs)
  <2>1. dirs \in SUBSET Path
    BY <1>1
  <2> DEFINE new == Listed(cache, expanded, dirs, Path)
  <2>2. \A q \in DOMAIN new : q \in expanded \cap dirs => new[q] = Kids(q, dirs)
    BY <2>1 DEF Listed
  <2>3. QED
    BY <1>1, <2>2
<1>3. ASSUME NEW p \in Shown', p \notin dirs PROVE FALSE
  <2> DEFINE Gone == {n \in 0..Len(p) : Upto(p, n) \notin dirs}
  <2>1. p \in Path /\ Len(p) \in Nat /\ Upto(p, Len(p)) = p
    BY <1>3, UptoAll DEF Shown
  <2>2. Gone \in SUBSET Nat /\ Len(p) \in Gone
    BY <1>3, <2>1
  <2> HIDE DEF Gone
  <2>3. PICK n \in Gone : \A m \in Gone : n <= m
    BY <2>2, Least
  <2>4. n \in 0..Len(p) /\ Upto(p, n) \notin dirs
    BY <2>3 DEF Gone
  <2>5. n # 0
    <3>1. Upto(p, 0) \in Path /\ Len(Upto(p, 0)) = 0
      BY <2>1, UptoIs
    <3>2. Upto(p, 0) = Root
      BY <3>1, UptoAll
    <3>3. QED
      BY <1>1, <2>4, <3>2
  <2> DEFINE m == n - 1
  <2>6. m \in 0..(Len(p) - 1) /\ m \in 0..Len(p) /\ m + 1 = n /\ ~(n <= m)
    BY <2>1, <2>4, <2>5
  <2>7. Upto(p, m) \in dirs
    BY <2>3, <2>6 DEF Gone
  <2>8. /\ Upto(p, m) \in expanded' \cap DOMAIN cache'
        /\ Upto(p, m + 1) \in cache'[Upto(p, m)]
    BY <1>3, <2>6 DEF Shown
  <2>9. Upto(p, n) \in Kids(Upto(p, m), dirs)
    BY <1>1, <1>2, <2>6, <2>7, <2>8
  <2>10. QED
    BY <2>4, <2>9 DEF Kids
<1>4. QED
  BY <1>1, <1>2, <1>3 DEF TreeIsTrue

(* For every set of directories: after a refresh whose listings succeed    *)
(* the tree shows what the server has, whatever was cached before.         *)
THEOREM RefreshIsTrue == Spec => RefreshShowsTheServer
<1>1. TreeInv => ((\E p \in Path : RefreshDir(p, Path)) => TreeIsTrue')
  BY RefreshIs DEF TreeInv
<1>2. QED
  BY <1>1, AlwaysTree, PTL DEF RefreshShowsTheServer

-----------------------------------------------------------------------------
(* The file list.                                                          *)

LEMMA EnsureIs ==
  ASSUME dirs \in Trees, NEW p \in dirs, CacheIsTrue, Ensure(p, Path), dirs' = dirs
  PROVE  p \in Shown'
<1> DEFINE way == {Upto(p, n) : n \in 0..(Len(p) - 1)}
           all == Filled(p, Path)
<1>1. /\ dirs \subseteq Path /\ p \in Path /\ Len(p) \in Nat
      /\ \A n \in 0..Len(p) : Upto(p, n) \in dirs
  BY TreeIs, UptoAll
<1>2. way \subseteq dirs
  BY <1>1
<1>3. TrueOf(cache, dirs)
  BY DEF CacheIsTrue, TrueOf
<1>4. TrueOf(all, dirs) /\ way \subseteq DOMAIN all
  <2> DEFINE missing == way \ DOMAIN cache
  <2>1. all = Listed(cache, missing, dirs, Path)
    BY DEF Filled
  <2> HIDE DEF all, missing
  <2>2. DOMAIN all = DOMAIN cache \cup (missing \cap dirs) /\ TrueOf(all, dirs)
    BY <1>1, <1>3, <2>1, ListedIs
  <2>3. QED
    BY <1>2, <2>2 DEF missing
(* A step of the way: the next name is in the list of the one before it.   *)
<1>5. ASSUME NEW n \in 0..(Len(p) - 1) PROVE Upto(p, n + 1) \in Kids(Upto(p, n), dirs)
  <2>1. n + 1 \in 0..Len(p) /\ n \in 0..(n + 1) /\ (n + 1) - 1 = n /\ n + 1 # 0
    BY <1>1
  <2>2. Upto(p, n + 1) \in dirs /\ Upto(p, n + 1) \in Path /\ Len(Upto(p, n + 1)) = n + 1
    BY <1>1, <2>1, UptoIs
  <2>3. Upto(p, n + 1) # Root
    BY <2>1, <2>2, UptoAll
  <2>4. Parent(Upto(p, n + 1)) = Upto(p, n)
    BY <1>1, <2>1, <2>2, UptoUpto DEF Parent
  <2>5. QED
    BY <2>2, <2>3, <2>4 DEF Kids
<1>6. \A n \in 0..Len(p) : Reaches(all, p, n)
  <2> HIDE DEF all
  <2>1. ASSUME NEW n \in 0..(Len(p) - 1)
        PROVE  Upto(p, n) \in DOMAIN all /\ Upto(p, n + 1) \in all[Upto(p, n)]
    BY <1>4, <1>5 DEF TrueOf
  <2>2. \A n \in 0..Len(p) : 0..(n - 1) \subseteq 0..(Len(p) - 1)
    BY <1>1
  <2>3. QED
    BY <2>1, <2>2 DEF Reaches
<1> DEFINE reached == Reached(all, p)
<1>7. reached = {Upto(p, n) : n \in 0..Len(p)}
  <2> HIDE DEF all
  <2>1. {m \in 0..Len(p) : Reaches(all, p, m)} = 0..Len(p)
    BY <1>6
  <2>2. QED
    BY <2>1 DEF Reached
<1> DEFINE ds == ({Root} \cup (reached \ {p})) \ DOMAIN cache
<1>8. expanded' = expanded \cup {Root} \cup reached /\ cache' = Listed(cache, ds, dirs, Path)
  BY DEF Ensure
<1> HIDE DEF all, ds
<1>9. DOMAIN cache' = DOMAIN cache \cup (ds \cap dirs) /\ TrueOf(cache', dirs)
  BY <1>1, <1>3, <1>8, ListedIs
<1>10. ASSUME NEW n \in 0..(Len(p) - 1)
       PROVE  /\ Upto(p, n) \in expanded' \cap DOMAIN cache'
              /\ Upto(p, n + 1) \in cache'[Upto(p, n)]
  <2>1. n \in 0..Len(p) /\ n # Len(p) /\ Upto(p, n) \in dirs
    BY <1>1
  <2>2. Upto(p, n) \in reached
    BY <1>7, <2>1
  <2>3. Upto(p, n) # p
    BY <1>1, <2>1, UptoIs
  <2>4. Upto(p, n) \in DOMAIN cache'
    BY <1>9, <2>1, <2>2, <2>3 DEF ds
  <2>5. QED
    BY <1>5, <1>8, <1>9, <2>2, <2>4 DEF TrueOf
<1>11. QED
  BY <1>1, <1>10 DEF Shown

(* For every set of directories and both workers: the directory that the   *)
(* file list opens has its node in the tree, with the way to it expanded.  *)
THEOREM TheListIsFollowed == Spec => FollowsTheList
<1>1. TreeInv =>
        \A p \in dirs : CacheIsTrue /\ (ListDir(p, Path) \/ ShellListDir(p, Path)) => p \in Shown'
  <2> SUFFICES ASSUME dirs \in Trees, NEW p \in dirs, CacheIsTrue,
                      ListDir(p, Path) \/ ShellListDir(p, Path)
               PROVE  p \in Shown'
    BY DEF TreeInv
  <2>1. Ensure(p, Path) /\ dirs' = dirs
    BY TreeIs DEF ListDir, ShellListDir
  <2>2. QED
    BY <2>1, EnsureIs
<1>2. QED
  BY <1>1, AlwaysTree, PTL DEF FollowsTheList
=============================================================================
