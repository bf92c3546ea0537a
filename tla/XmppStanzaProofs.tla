------------------------- MODULE XmppStanzaProofs -------------------------
(***************************************************************************)
(* Theorems about the heap of stanza nodes.                                *)
(***************************************************************************)
EXTENDS XmppStanza, FiniteSetTheorems, SequenceTheorems, WellFoundedInduction, TLAPS

-----------------------------------------------------------------------------
(* Iteration, and the two recursive functions of the model.                *)

N == Cardinality(Nodes)
Pointers == Nodes \cup {Null}

LEMMA SizeIsNat == N \in Nat /\ IsFiniteSet(Nodes)
BY NodesAreFinite, FS_CardinalityType DEF N

\* A set with 0 in it, and n + 1 for each n of it below m, has 0 .. m in it.
LEMMA UpTo ==
  ASSUME NEW S, 0 \in S, NEW m \in Nat,
         \A n \in 0 .. m - 1 : n \in S => n + 1 \in S
  PROVE  0 .. m \subseteq S
<1> SUFFICES ASSUME (0 .. m) \ S # {} PROVE FALSE
  OBVIOUS
<1> DEFINE T == (0 .. m) \ S
           less == OpToRel(<, Nat)
<1>1. IsWellFoundedOn(less, Nat)
  BY NatLessThanWellFounded
<1>2. \A x, y \in Nat : <<y, x>> \in less <=> y < x
  BY DEF OpToRel
<1>3. T \in SUBSET Nat /\ T # {}
  OBVIOUS
<1> HIDE DEF less, T
<1>4. \E x \in T : \A y \in T : ~ (<<y, x>> \in less)
  BY <1>1, <1>3, WFMin
<1>5. PICK x \in T : \A y \in T : ~ (y < x)
  BY <1>2, <1>3, <1>4
<1> USE DEF T
<1>6. x # 0 /\ x - 1 \in 0 .. m - 1 /\ x = (x - 1) + 1
  BY <1>5
<1>7. x - 1 \in S
  BY <1>5, <1>6
<1> QED
  BY <1>5, <1>6, <1>7

\* A function can be iterated.
Iterates(g, T, start, step, m) ==
  /\ g \in [0 .. m -> T]
  /\ g[0] = start
  /\ \A k \in 1 .. m : g[k] = step[g[k - 1]]

LEMMA IterationExists ==
  ASSUME NEW T, NEW start \in T, NEW step \in [T -> T], NEW m \in Nat
  PROVE  \E g : Iterates(g, T, start, step, m)
<1> DEFINE S == {k \in 0 .. m : \E g : Iterates(g, T, start, step, k)}
<1>1. 0 \in S
  <2> DEFINE g == [k \in 0 .. 0 |-> start]
  <2>1. Iterates(g, T, start, step, 0)
    BY DEF Iterates
  <2> HIDE DEF g
  <2> QED
    BY <2>1
<1>2. ASSUME NEW n \in 0 .. m - 1, n \in S
      PROVE  n + 1 \in S
  <2>1. PICK g : Iterates(g, T, start, step, n)
    BY <1>2
  <2> DEFINE h == [k \in 0 .. n + 1 |-> IF k = n + 1 THEN step[g[n]] ELSE g[k]]
  <2>2. h \in [0 .. n + 1 -> T]
    BY <2>1 DEF Iterates
  <2>3. h[0] = start
    BY <2>1 DEF Iterates
  <2>4. ASSUME NEW k \in 1 .. n + 1
        PROVE  h[k] = step[h[k - 1]]
    <3>1. CASE k = n + 1
      BY <3>1
    <3>2. CASE k # n + 1
      BY <3>2, <2>1 DEF Iterates
    <3> QED
      BY <3>1, <3>2
  <2> HIDE DEF h
  <2>5. Iterates(h, T, start, step, n + 1)
    BY <2>2, <2>3, <2>4 DEF Iterates
  <2> QED
    BY <2>5
<1> HIDE DEF S
<1>3. 0 .. m \subseteq S
  BY <1>1, <1>2, UpTo
<1> USE DEF S
<1> QED
  BY <1>3

-----------------------------------------------------------------------------
(* Following pointers.                                                      *)

\* What Follow is on the way: the first k nodes from y on.
Walk(g, p, m) ==
  /\ \A k \in 0 .. m, y \in Pointers : g[k][y] \in Seq(Nodes)
  /\ \A y \in Pointers : g[0][y] = <<>>
  /\ \A k \in 1 .. m : g[k][Null] = <<>>
  /\ \A k \in 1 .. m, y \in Nodes : g[k][y] = <<y>> \o g[k - 1][p[y]]

LEMMA FollowWalks ==
  ASSUME NEW p \in [Nodes -> Pointers]
  PROVE  \E g : /\ Walk(g, p, N + 1)
                /\ \A x \in Pointers : Follow(p, x) = g[N][x]
<1> DEFINE T == [Pointers -> Seq(Nodes)]
           start == [y \in Pointers |-> <<>>]
           Longer(f) == [y \in Pointers |-> IF y = Null THEN <<>> ELSE <<y>> \o f[p[y]]]
           step == [f \in T |-> Longer(f)]
           Def(g) == [k \in 0 .. N |->
                        [y \in Pointers |->
                           IF k = 0 \/ y = Null THEN <<>> ELSE <<y>> \o g[k - 1][p[y]]]]
<1>1. start \in T
  OBVIOUS
<1>2. step \in [T -> T]
  <2>1. ASSUME NEW f \in T, NEW y \in Pointers
        PROVE  (IF y = Null THEN <<>> ELSE <<y>> \o f[p[y]]) \in Seq(Nodes)
    <3>1. CASE y = Null
      BY <3>1
    <3>2. CASE y # Null
      <4>1. <<y>> \in Seq(Nodes) /\ f[p[y]] \in Seq(Nodes)
        BY <3>2 DEF Pointers
      <4> QED
        BY <4>1, <3>2, ConcatProperties
    <3> QED
      BY <3>1, <3>2
  <2>2. ASSUME NEW f \in T PROVE Longer(f) \in T
    BY <2>1
  <2> HIDE DEF T, Longer
  <2> QED
    BY <2>2
<1>3. PICK g : Iterates(g, T, start, step, N + 1)
  <2> HIDE DEF T, start, step
  <2> QED
    BY <1>1, <1>2, SizeIsNat, IterationExists
<1>4. /\ g \in [0 .. N + 1 -> T]
      /\ g[0] = start
      /\ \A k \in 1 .. N + 1 : g[k] = Longer(g[k - 1])
  <2> HIDE DEF T, start, step
  <2>1. /\ g \in [0 .. N + 1 -> T] /\ g[0] = start
        /\ \A k \in 1 .. N + 1 : g[k] = step[g[k - 1]]
    BY <1>3 DEF Iterates
  <2>2. \A k \in 1 .. N + 1 : k - 1 \in 0 .. N + 1
    BY SizeIsNat
  <2>3. \A k \in 1 .. N + 1 : g[k - 1] \in T
    BY <2>1, <2>2
  <2> USE DEF step
  <2>4. \A h \in T : step[h] = Longer(h)
    OBVIOUS
  <2> HIDE DEF step, Longer
  <2> QED
    BY <2>1, <2>3, <2>4
<1> HIDE DEF start, step
<1>t. \A k \in 1 .. N + 1 : k \in 0 .. N + 1 /\ k - 1 \in 0 .. N + 1 /\ k # 0
  BY SizeIsNat
<1>z. \A y \in Pointers : g[0][y] = <<>>
  BY <1>4 DEF start
<1>n. \A k \in 1 .. N + 1, y \in Pointers :
        g[k][y] = IF y = Null THEN <<>> ELSE <<y>> \o g[k - 1][p[y]]
  BY <1>4
<1>5. Walk(g, p, N + 1)
  <2>1. \A k \in 0 .. N + 1, y \in Pointers : g[k][y] \in Seq(Nodes)
    BY <1>4
  <2> QED
    BY <1>z, <1>n, <2>1, NullIsNoNode DEF Walk, Pointers
<1> HIDE DEF T
<1> DEFINE g0 == [k \in 0 .. N |-> g[k]]
<1>6. g0 = Def(g0)
  <2>1. ASSUME NEW k \in 0 .. N
        PROVE  g[k] = [y \in Pointers |->
                         IF k = 0 \/ y = Null THEN <<>> ELSE <<y>> \o g0[k - 1][p[y]]]
    <3>1. CASE k = 0
      BY <3>1, <1>4 DEF start
    <3>2. CASE k # 0
      <4>1. k \in 1 .. N + 1 /\ g0[k - 1] = g[k - 1]
        BY <3>2, SizeIsNat
      <4> HIDE DEF g0
      <4> QED
        BY <3>2, <4>1, <1>4
    <3> QED
      BY <3>1, <3>2
  <2> QED
    BY <2>1
<1> DEFINE f == CHOOSE h : h = Def(h)
<1>7. f = Def(f)
  <2> HIDE DEF g0, Def
  <2> QED
    BY <1>6
<1>8. \A k \in 0 .. N : f[k] = g[k]
  <2> DEFINE S == {k \in 0 .. N : f[k] = g[k]}
  <2> HIDE DEF f
  <2>1. \A k \in 0 .. N : f[k] = [y \in Pointers |->
            IF k = 0 \/ y = Null THEN <<>> ELSE <<y>> \o f[k - 1][p[y]]]
    BY <1>7
  <2>2. 0 \in S
    BY <2>1, <1>4, SizeIsNat DEF start
  <2>3. ASSUME NEW n \in 0 .. N - 1, n \in S PROVE n + 1 \in S
    <3>0. n + 1 \in 0 .. N /\ n + 1 \in 1 .. N + 1 /\ n + 1 # 0 /\ (n + 1) - 1 = n
      BY SizeIsNat
    <3>1. f[n + 1] = [y \in Pointers |-> IF y = Null THEN <<>> ELSE <<y>> \o f[n][p[y]]]
      BY <2>1, <3>0
    <3>2. g[n + 1] = Longer(g[n])
      BY <1>4, <3>0
    <3>3. f[n] = g[n]
      BY <2>3
    <3> QED
      BY <3>0, <3>1, <3>2, <3>3
  <2> HIDE DEF S
  <2>4. 0 .. N \subseteq S
    BY <2>2, <2>3, SizeIsNat, UpTo
  <2> USE DEF S
  <2> QED
    BY <2>4
<1>9. \A x \in Pointers : Follow(p, x) = f[N][x]
  BY DEF Follow, N, Pointers
<1> HIDE DEF f
<1> QED
  BY <1>5, <1>8, <1>9, SizeIsNat

\* Pointers that stay in the set R, and that do not run in a circle there.
Inside(p, R) == \A x \in R : p[x] \in R \cup {Null}
Ends(p, R) == \A S \in SUBSET R : S # {} => \E x \in S : p[x] \notin S

(* The nodes that are followed are the first one, and those that follow    *)
(* the next one: with pointers that end, the bound is never reached.       *)
LEMMA FollowUnfolds ==
  ASSUME NEW p \in [Nodes -> Pointers], NEW R \in SUBSET Nodes, Inside(p, R), Ends(p, R)
  PROVE  /\ Follow(p, Null) = <<>>
         /\ \A x \in R : Follow(p, x) = <<x>> \o Follow(p, p[x])
         /\ \A x \in R \cup {Null} : Follow(p, x) \in Seq(Nodes)
<1>1. PICK g : /\ Walk(g, p, N + 1)
               /\ \A x \in Pointers : Follow(p, x) = g[N][x]
  BY FollowWalks
<1>n. N \in Nat
  BY SizeIsNat
<1>r. IsFiniteSet(R) /\ Cardinality(R) \in Nat /\ Cardinality(R) <= N
  BY SizeIsNat, FS_Subset, FS_CardinalityType DEF N
<1> DEFINE Settled(k) == {x \in R : \A j \in k .. N : g[j + 1][x] = g[j][x]}
<1>2. ASSUME NEW k \in 0 .. N - 1, NEW x \in R, p[x] \in Settled(k) \cup {Null}
      PROVE  x \in Settled(k + 1)
  <2>1. SUFFICES ASSUME NEW j \in k + 1 .. N PROVE g[j + 1][x] = g[j][x]
    OBVIOUS
  <2>2. g[j + 1][x] = <<x>> \o g[j][p[x]] /\ g[j][x] = <<x>> \o g[j - 1][p[x]]
    <3>1. j \in 1 .. N + 1 /\ j + 1 \in 1 .. N + 1 /\ (j + 1) - 1 = j
      BY <1>n
    <3> QED
      BY <1>1, <3>1 DEF Walk
  <2>3. g[j][p[x]] = g[j - 1][p[x]]
    <3>1. CASE p[x] = Null
      <4>1. j \in 1 .. N + 1 /\ (j - 1 = 0 \/ j - 1 \in 1 .. N + 1) /\ Null \in Pointers
        BY <1>n DEF Pointers
      <4> QED
        BY <1>1, <3>1, <4>1 DEF Walk
    <3>2. CASE p[x] \in Settled(k)
      <4>1. j - 1 \in k .. N /\ (j - 1) + 1 = j
        BY <1>n
      <4> QED
        BY <3>2, <4>1
    <3> QED
      BY <1>2, <3>1, <3>2
  <2> QED
    BY <2>2, <2>3
<1>3. ASSUME NEW k \in 0 .. N - 1 PROVE Settled(k) \subseteq Settled(k + 1)
  BY <1>n
<1> DEFINE Grown == {k \in 0 .. N : Settled(k) = R \/ Cardinality(Settled(k)) >= k}
<1>4. \A k \in Nat : Settled(k) \in SUBSET R
  OBVIOUS
<1> HIDE DEF Settled
<1>f. \A k \in Nat : IsFiniteSet(Settled(k)) /\ Cardinality(Settled(k)) \in Nat
  BY <1>4, <1>r, FS_Subset, FS_CardinalityType
<1>5. 0 \in Grown
  BY <1>f, <1>n
<1>6. ASSUME NEW k \in 0 .. N - 1, k \in Grown PROVE k + 1 \in Grown
  <2>0. k \in Nat /\ k + 1 \in Nat /\ k + 1 \in 0 .. N
    BY <1>n
  <2>1. CASE Settled(k) = R
    BY <2>0, <2>1, <1>3, <1>4
  <2>2. CASE Settled(k) # R
    <3>1. R \ Settled(k) # {} /\ R \ Settled(k) \in SUBSET R
      BY <2>0, <2>2, <1>4
    <3>2. PICK x \in R \ Settled(k) : p[x] \notin R \ Settled(k)
      BY <3>1 DEF Ends
    <3>3. x \in Settled(k + 1)
      BY <3>2, <1>2 DEF Inside
    <3>4. Settled(k) \cup {x} \in SUBSET Settled(k + 1)
      BY <3>3, <1>3
    <3>5. Cardinality(Settled(k) \cup {x}) = Cardinality(Settled(k)) + 1
      <4>1. IsFiniteSet(Settled(k)) /\ x \notin Settled(k)
        BY <3>2, <2>0, <1>f
      <4>2. /\ IsFiniteSet(Settled(k) \cup {x})
            /\ Cardinality(Settled(k) \cup {x}) =
                 IF x \in Settled(k) THEN Cardinality(Settled(k)) ELSE Cardinality(Settled(k)) + 1
        BY <4>1, FS_AddElement, Zenon
      <4> QED
        BY <4>1, <4>2
    <3>6. Cardinality(Settled(k) \cup {x}) <= Cardinality(Settled(k + 1))
      BY <3>4, <2>0, <1>f, FS_Subset
    <3> QED
      BY <3>5, <3>6, <2>0, <2>2, <1>6, <1>f
  <2> QED
    BY <2>1, <2>2
<1>7. Settled(N) = R
  <2> HIDE DEF Grown
  <2>1. 0 .. N \subseteq Grown
    BY <1>5, <1>6, <1>n, UpTo
  <2> USE DEF Grown
  <2>2. Settled(N) = R \/ Cardinality(Settled(N)) >= N
    BY <2>1, <1>n
  <2>3. Cardinality(Settled(N)) >= N => Cardinality(Settled(N)) = Cardinality(R)
    BY <1>n, <1>4, <1>f, <1>r, FS_Subset
  <2> QED
    BY <2>2, <2>3, <1>n, <1>4, <1>r, FS_Subset
<1> USE DEF Settled
<1>8. ASSUME NEW x \in R PROVE Follow(p, x) = <<x>> \o Follow(p, p[x])
  <2>1. g[N + 1][x] = g[N][x]
    BY <1>7, <1>n
  <2>2. g[N + 1][x] = <<x>> \o g[N][p[x]]
    <3>1. N + 1 \in 1 .. N + 1 /\ (N + 1) - 1 = N /\ x \in Nodes
      BY <1>n
    <3>2. g[N + 1][x] = <<x>> \o g[(N + 1) - 1][p[x]]
      BY <1>1, <3>1 DEF Walk
    <3> QED
      BY <3>1, <3>2
  <2>3. x \in Pointers /\ p[x] \in Pointers
    BY DEF Pointers
  <2> QED
    BY <1>1, <2>1, <2>2, <2>3
<1>9. Null \in Pointers /\ g[N][Null] = <<>>
  BY <1>1, <1>n DEF Walk, Pointers
<1>10. \A x \in R \cup {Null} : Follow(p, x) \in Seq(Nodes)
  <2>1. \A x \in R \cup {Null} : x \in Pointers
    BY DEF Pointers
  <2> QED
    BY <1>1, <1>n, <2>1 DEF Walk
<1> QED
  BY <1>1, <1>8, <1>9, <1>10

\* What holds of the last node of a walk, and of each node whose next one has it, holds
\* of all.
LEMMA Backwards ==
  ASSUME NEW p, NEW R, Inside(p, R), Ends(p, R), NEW G,
         \A x \in R : p[x] \in G \cup {Null} => x \in G
  PROVE  R \subseteq G
<1> SUFFICES ASSUME R \ G # {} PROVE FALSE
  OBVIOUS
<1>1. PICK x \in R \ G : p[x] \notin R \ G
  BY DEF Ends
<1> QED
  BY <1>1 DEF Inside

\* The sequence s starts at x, follows p, and leaves nothing out.
Follows(s, p, x) ==
  /\ s \in Seq(Nodes) /\ s # <<>> /\ s[1] = x
  /\ \A i \in 1 .. Len(s) - 1 : s[i + 1] = p[s[i]]
  /\ p[s[Len(s)]] = Null

LEMMA FollowRight ==
  ASSUME NEW p \in [Nodes -> Pointers], NEW R \in SUBSET Nodes, Inside(p, R), Ends(p, R)
  PROVE  \A x \in R : /\ Follows(Follow(p, x), p, x)
                      /\ Follow(p, x) \in Seq(R)
<1> DEFINE Right(x) == /\ Follows(Follow(p, x), p, x)
                       /\ Follow(p, x) \in Seq(R)
           G == {x \in R : Right(x)}
<1>1. ASSUME NEW x \in R, p[x] \in G \cup {Null} PROVE x \in G
  <2> DEFINE s == Follow(p, x)
             t == Follow(p, p[x])
  <2>0. <<x>> \in Seq(Nodes) /\ <<x>> \in Seq(R) /\ Len(<<x>>) = 1 /\ <<x>>[1] = x
    OBVIOUS
  <2>1. s = <<x>> \o t /\ Follow(p, Null) = <<>>
    BY FollowUnfolds
  <2>2. CASE p[x] = Null
    <3>1. s = <<x>>
      BY <2>1, <2>2, <2>0
    <3> HIDE DEF s
    <3>2. Follows(s, p, x) /\ s \in Seq(R)
      BY <3>1, <2>0, <2>2 DEF Follows
    <3> QED
      BY <3>2 DEF s
  <2>3. CASE p[x] \in G
    <3>1. Follows(t, p, p[x]) /\ t \in Seq(R)
      BY <2>3
    <3> HIDE DEF s, t
    <3>2. t \in Seq(Nodes) /\ Len(t) \in Nat /\ Len(t) > 0
      BY <3>1, EmptySeq, LenProperties DEF Follows
    <3>3. s \in Seq(Nodes) /\ s \in Seq(R) /\ Len(s) = Len(t) + 1
      BY <3>1, <3>2, <2>0, <2>1, ConcatProperties
    <3>4. s[1] = x /\ \A i \in 1 .. Len(t) : s[i + 1] = t[i]
      BY <3>2, <2>0, <2>1, ConcatProperties
    <3>5. \A i \in 1 .. Len(s) - 1 : s[i + 1] = p[s[i]]
      <4>1. ASSUME NEW i \in 1 .. Len(s) - 1 PROVE s[i + 1] = p[s[i]]
        <5>1. CASE i = 1
          BY <5>1, <3>1, <3>2, <3>3, <3>4 DEF Follows
        <5>2. CASE i # 1
          <6>1. i - 1 \in 1 .. Len(t) - 1 /\ i \in 1 .. Len(t) /\ (i - 1) + 1 = i
            BY <5>2, <3>2, <3>3
          <6>2. s[i] = t[i - 1] /\ s[i + 1] = t[i]
            BY <6>1, <3>4, <3>2
          <6> QED
            BY <6>1, <6>2, <3>1 DEF Follows
        <5> QED
          BY <5>1, <5>2
      <4> QED
        BY <4>1
    <3>6. s[Len(s)] = t[Len(t)]
      BY <3>2, <3>3, <3>4
    <3>7. s # <<>>
      BY <3>2, <3>3
    <3>8. Follows(s, p, x)
      BY <3>1, <3>3, <3>4, <3>5, <3>6, <3>7 DEF Follows
    <3> QED
      BY <3>3, <3>8 DEF s
  <2> QED
    BY <1>1, <2>2, <2>3
<1> HIDE DEF G
<1>2. R \subseteq G
  BY <1>1, Backwards
<1> QED
  BY <1>2 DEF G

\* The nodes of a walk: the first one, and those of the walk from the next one.
LEMMA RangeOfFollow ==
  ASSUME NEW p \in [Nodes -> Pointers], NEW R \in SUBSET Nodes, Inside(p, R), Ends(p, R),
         NEW x \in R
  PROVE  /\ Range(Follow(p, x)) = {x} \cup (IF p[x] = Null THEN {} ELSE Range(Follow(p, p[x])))
         /\ Range(Follow(p, x)) \subseteq R
         /\ Len(Follow(p, x)) \in Nat
         /\ Len(Follow(p, x)) = 1 + (IF p[x] = Null THEN 0 ELSE Len(Follow(p, p[x])))
<1> DEFINE s == Follow(p, x)
           t == Follow(p, p[x])
<1>1. s = <<x>> \o t /\ Follow(p, Null) = <<>> /\ t \in Seq(Nodes)
  BY FollowUnfolds DEF Inside
<1>2. s \in Seq(R)
  BY FollowRight
<1>3. p[x] = Null => t = <<>>
  BY <1>1
<1> HIDE DEF s, t
<1>4. /\ Len(<<x>>) = 1 /\ <<x>>[1] = x /\ <<x>> \in Seq(Nodes)
      /\ Len(t) \in Nat /\ DOMAIN t = 1 .. Len(t)
  BY <1>1, LenProperties
<1>5. /\ Len(s) = 1 + Len(t)
      /\ \A i \in 1 .. 1 + Len(t) : s[i] = IF i = 1 THEN x ELSE t[i - 1]
      /\ DOMAIN s = 1 .. 1 + Len(t)
  BY <1>1, <1>4, ConcatProperties, LenProperties
<1>6. Range(s) = {x} \cup Range(t)
  <2>1. ASSUME NEW y \in Range(s) PROVE y \in {x} \cup Range(t)
    <3>1. PICK i \in DOMAIN s : y = s[i]
      BY DEF Range
    <3>2. CASE i = 1
      BY <3>1, <3>2, <1>5
    <3>3. CASE i # 1
      <4>1. i - 1 \in DOMAIN t /\ y = t[i - 1]
        BY <3>1, <3>3, <1>4, <1>5
      <4> QED
        BY <4>1 DEF Range
    <3> QED
      BY <3>2, <3>3
  <2>2. x \in Range(s)
    <3>1. 1 \in DOMAIN s /\ s[1] = x
      BY <1>4, <1>5
    <3> QED
      BY <3>1 DEF Range
  <2>3. ASSUME NEW y \in Range(t) PROVE y \in Range(s)
    <3>1. PICK i \in DOMAIN t : y = t[i]
      BY DEF Range
    <3>2. i + 1 \in DOMAIN s /\ s[i + 1] = y
      BY <3>1, <1>4, <1>5
    <3> QED
      BY <3>2 DEF Range
  <2> QED
    BY <2>1, <2>2, <2>3
<1>7. p[x] = Null => Range(t) = {} /\ Len(t) = 0
  BY <1>3, <1>4 DEF Range
<1>8. Range(s) \subseteq R
  <2>1. \A i \in DOMAIN s : s[i] \in R
    BY <1>2, ElementOfSeq, LenProperties
  <2> QED
    BY <2>1 DEF Range
<1> QED
  BY <1>4, <1>5, <1>6, <1>7, <1>8 DEF s, t

-----------------------------------------------------------------------------
(* What is reached from a set.                                              *)

\* What Closure is on the way: what is reached from x in k steps.
Layers(g, next, m) ==
  /\ \A k \in 0 .. m, x \in Nodes : g[k][x] \in SUBSET Nodes
  /\ \A x \in Nodes : g[0][x] = {x}
  /\ \A k \in 1 .. m, x \in Nodes :
       g[k][x] = {x} \cup UNION {g[k - 1][y] : y \in next[x]}

LEMMA ClosureLayers ==
  ASSUME NEW next \in [Nodes -> SUBSET Nodes], NEW S \in SUBSET Nodes
  PROVE  \E g : /\ Layers(g, next, N)
                /\ Closure(next, S) = UNION {g[N][x] : x \in S}
<1> DEFINE T == [Nodes -> SUBSET Nodes]
           start == [x \in Nodes |-> {x}]
           Wider(f) == [x \in Nodes |-> {x} \cup UNION {f[y] : y \in next[x]}]
           step == [f \in T |-> Wider(f)]
           Def(g) == [k \in 0 .. N |->
                        [x \in Nodes |->
                           {x} \cup IF k = 0 THEN {}
                                    ELSE UNION {g[k - 1][y] : y \in next[x]}]]
<1>1. start \in T
  OBVIOUS
<1>2. step \in [T -> T]
  <2>1. ASSUME NEW f \in T PROVE Wider(f) \in T
    OBVIOUS
  <2> HIDE DEF T, Wider
  <2> QED
    BY <2>1
<1>3. PICK g : Iterates(g, T, start, step, N)
  <2> HIDE DEF T, start, step
  <2> QED
    BY <1>1, <1>2, SizeIsNat, IterationExists
<1>4. /\ g \in [0 .. N -> T]
      /\ g[0] = start
      /\ \A k \in 1 .. N : g[k] = Wider(g[k - 1])
  <2> HIDE DEF T, start, step
  <2>1. /\ g \in [0 .. N -> T] /\ g[0] = start
        /\ \A k \in 1 .. N : g[k] = step[g[k - 1]]
    BY <1>3 DEF Iterates
  <2>2. \A k \in 1 .. N : k - 1 \in 0 .. N
    BY SizeIsNat
  <2>3. \A k \in 1 .. N : g[k - 1] \in T
    BY <2>1, <2>2
  <2> USE DEF step
  <2>4. \A h \in T : step[h] = Wider(h)
    OBVIOUS
  <2> HIDE DEF step, Wider
  <2> QED
    BY <2>1, <2>3, <2>4
<1> HIDE DEF start, step
<1>5. \E h : h = Def(h)
  <2>1. g = Def(g)
    <3>1. ASSUME NEW k \in 0 .. N
          PROVE  g[k] = [x \in Nodes |->
                           {x} \cup IF k = 0 THEN {}
                                    ELSE UNION {g[k - 1][y] : y \in next[x]}]
      <4>1. CASE k = 0
        BY <4>1, <1>4 DEF start
      <4>2. CASE k # 0
        <5>1. k \in 1 .. N
          BY <4>2, SizeIsNat
        <5>2. g[k] = Wider(g[k - 1])
          BY <5>1, <1>4
        <5> QED
          BY <4>2, <5>2
      <4> QED
        BY <4>1, <4>2
    <3> QED
      BY <3>1, <1>4
  <2> HIDE DEF Def
  <2> QED
    BY <2>1
<1> DEFINE f == CHOOSE h : h = Def(h)
<1>6. f = Def(f)
  <2> HIDE DEF Def
  <2> QED
    BY <1>5
<1>7. Closure(next, S) = UNION {f[N][x] : x \in S}
  BY DEF Closure, N
<1> HIDE DEF f
<1>d. \A k \in 0 .. N : f[k] = [x \in Nodes |->
                           {x} \cup IF k = 0 THEN {}
                                    ELSE UNION {f[k - 1][y] : y \in next[x]}]
  BY <1>6
<1>8. \A x \in Nodes : f[0][x] = {x}
  <2>1. 0 \in 0 .. N
    BY SizeIsNat
  <2>2. f[0] = [x \in Nodes |-> {x} \cup {}]
    BY <1>d, <2>1
  <2> QED
    BY <2>2
<1>9. ASSUME NEW k \in 1 .. N, NEW x \in Nodes
      PROVE  f[k][x] = {x} \cup UNION {f[k - 1][y] : y \in next[x]}
  <2>1. k \in 0 .. N /\ k # 0
    BY SizeIsNat
  <2>2. f[k] = [y \in Nodes |-> {y} \cup UNION {f[k - 1][z] : z \in next[y]}]
    BY ONLY <1>d, <2>1
  <2> QED
    BY ONLY <2>2, x \in Nodes
<1> DEFINE Q == {k \in 0 .. N : \A x \in Nodes : f[k][x] \in SUBSET Nodes}
<1>10. 0 \in Q
  BY <1>8, SizeIsNat
<1>11. ASSUME NEW k \in 0 .. N - 1, k \in Q PROVE k + 1 \in Q
  <2>1. k + 1 \in 1 .. N /\ k + 1 \in 0 .. N /\ (k + 1) - 1 = k
    BY SizeIsNat
  <2>2. \A x \in Nodes : f[k + 1][x] = {x} \cup UNION {f[k][y] : y \in next[x]}
    BY <1>9, <2>1
  <2>3. \A x \in Nodes : f[k][x] \in SUBSET Nodes
    BY <1>11
  <2> QED
    BY <2>1, <2>2, <2>3
<1> HIDE DEF Q
<1>12. 0 .. N \subseteq Q
  BY <1>10, <1>11, SizeIsNat, UpTo
<1> USE DEF Q
<1>13. \A k \in 0 .. N, x \in Nodes : f[k][x] \in SUBSET Nodes
  BY <1>12
<1>14. Layers(f, next, N)
  BY <1>8, <1>9, <1>13 DEF Layers
<1> QED
  BY <1>7, <1>14

(* The closure of S is the smallest set that has S in it and is closed     *)
(* under next.                                                             *)
LEMMA ClosureIs ==
  ASSUME NEW next \in [Nodes -> SUBSET Nodes], NEW S \in SUBSET Nodes
  PROVE  /\ S \subseteq Closure(next, S) /\ Closure(next, S) \subseteq Nodes
         /\ \A x \in Closure(next, S) : next[x] \subseteq Closure(next, S)
         /\ \A D : S \subseteq D /\ (\A x \in D \cap Nodes : next[x] \subseteq D)
                     => Closure(next, S) \subseteq D
<1>1. PICK g : /\ Layers(g, next, N)
               /\ Closure(next, S) = UNION {g[N][x] : x \in S}
  BY ClosureLayers
<1>n. N \in Nat /\ IsFiniteSet(Nodes) /\ N = Cardinality(Nodes)
  BY SizeIsNat DEF N
<1>0. /\ \A k \in 0 .. N, x \in Nodes : g[k][x] \in SUBSET Nodes
      /\ \A x \in Nodes : g[0][x] = {x}
      /\ \A k \in 0 .. N - 1, x \in Nodes :
           g[k + 1][x] = {x} \cup UNION {g[k][y] : y \in next[x]}
  <2>1. \A k \in 0 .. N - 1 : k + 1 \in 1 .. N /\ (k + 1) - 1 = k
    BY <1>n
  <2> QED
    BY <1>1, <2>1 DEF Layers
<1>2. ASSUME NEW D, \A x \in D \cap Nodes : next[x] \subseteq D, NEW k \in 0 .. N
      PROVE  \A x \in D \cap Nodes : g[k][x] \subseteq D
  <2> DEFINE Q == {j \in 0 .. N : \A x \in D \cap Nodes : g[j][x] \subseteq D}
  <2>1. 0 \in Q
    BY <1>0, <1>n
  <2>2. ASSUME NEW j \in 0 .. N - 1, j \in Q PROVE j + 1 \in Q
    <3>1. j + 1 \in 0 .. N
      BY <1>n
    <3>2. ASSUME NEW x \in D \cap Nodes PROVE g[j + 1][x] \subseteq D
      <4>1. \A y \in next[x] : y \in D \cap Nodes /\ g[j][y] \subseteq D
        BY <1>2, <2>2
      <4> QED
        BY <4>1, <1>0
    <3> QED
      BY <3>1, <3>2
  <2> HIDE DEF Q
  <2>3. 0 .. N \subseteq Q
    BY <2>1, <2>2, <1>n, UpTo
  <2> USE DEF Q
  <2> QED
    BY <2>3
<1>3. ASSUME NEW k \in 0 .. N PROVE \A x \in Nodes : x \in g[k][x]
  <2>1. CASE k = 0
    BY <2>1, <1>0
  <2>2. CASE k # 0
    <3>1. k - 1 \in 0 .. N - 1 /\ (k - 1) + 1 = k
      BY <1>n, <2>2
    <3> QED
      BY <3>1, <1>0
  <2> QED
    BY <2>1, <2>2
<1> DEFINE Closed(C) == \A w \in C : next[w] \subseteq C
\* One step more reaches what is next.
<1>4. ASSUME NEW k \in 0 .. N - 1
      PROVE  \A x \in Nodes : \A w \in g[k][x] :
               w \in g[k + 1][x] /\ next[w] \subseteq g[k + 1][x]
  <2> DEFINE Q == {j \in 0 .. N - 1 :
                     \A x \in Nodes : \A w \in g[j][x] :
                       w \in g[j + 1][x] /\ next[w] \subseteq g[j + 1][x]}
  <2>1. 0 \in Q
    <3>1. \A x \in Nodes : g[0 + 1][x] = {x} \cup UNION {{y} : y \in next[x]}
      BY <1>0, <1>n
    <3> QED
      BY <3>1, <1>0, <1>n
  <2>2. ASSUME NEW j \in 0 .. (N - 1) - 1, j \in Q PROVE j + 1 \in Q
    <3>1. j \in 0 .. N - 1 /\ j + 1 \in 0 .. N - 1
      BY <1>n
    <3>2. ASSUME NEW x \in Nodes, NEW w \in g[j + 1][x]
          PROVE  w \in g[(j + 1) + 1][x] /\ next[w] \subseteq g[(j + 1) + 1][x]
      <4>1. g[(j + 1) + 1][x] = {x} \cup UNION {g[j + 1][y] : y \in next[x]}
        BY <1>0, <3>1
      <4>2. g[j + 1][x] = {x} \cup UNION {g[j][y] : y \in next[x]}
        BY <1>0, <3>1
      <4>3. CASE w = x
        <5>1. \A y \in next[x] : y \in g[j + 1][y]
          <6>1. next[x] \subseteq Nodes /\ j + 1 \in 0 .. N
            BY <3>1, <1>n
          <6> QED
            BY <6>1, <1>3
        <5> QED
          BY <4>1, <4>3, <5>1
      <4>4. CASE w # x
        <5>1. PICK y \in next[x] : w \in g[j][y]
          BY <4>2, <4>4
        <5>2. w \in g[j + 1][y] /\ next[w] \subseteq g[j + 1][y]
          BY <5>1, <2>2
        <5> QED
          BY <4>1, <5>1, <5>2
      <4> QED
        BY <4>3, <4>4
    <3> QED
      BY <3>1, <3>2
  <2> HIDE DEF Q
  <2>3. 0 .. N - 1 \subseteq Q
    BY <2>1, <2>2, <1>n, UpTo
  <2> USE DEF Q
  <2> QED
    BY <2>3
\* The layers are closed when they grow no more, and they cannot grow for ever.
<1>5. ASSUME NEW x \in Nodes PROVE Closed(g[N][x])
  <2> DEFINE Q == {j \in 0 .. N : Closed(g[j][x]) \/ Cardinality(g[j][x]) >= j + 1}
  <2>f. \A j \in 0 .. N : IsFiniteSet(g[j][x]) /\ Cardinality(g[j][x]) \in Nat
    BY <1>0, <1>n, FS_Subset, FS_CardinalityType
  <2>1. 0 \in Q
    <3>1. g[0][x] = {x} /\ 0 \in 0 .. N
      BY <1>0, <1>n
    <3>2. Cardinality({x}) = 1
      BY FS_Singleton
    <3>3. Cardinality(g[0][x]) >= 0 + 1
      BY <3>1, <3>2
    <3> QED
      BY <3>1, <3>3
  <2>2. ASSUME NEW j \in 0 .. N - 1, j \in Q PROVE j + 1 \in Q
    <3>1. j \in 0 .. N /\ j + 1 \in 0 .. N
      BY <1>n
    <3>2. CASE Closed(g[j][x])
      <4>0. g[j][x] \in SUBSET Nodes /\ x \in g[j][x]
        BY <1>0, <1>3, <3>1
      <4>1. g[j + 1][x] \subseteq g[j][x]
        BY <1>2, <4>0, <3>1, <3>2
      <4>2. g[j][x] \subseteq g[j + 1][x]
        BY <1>4
      <4>3. g[j + 1][x] = g[j][x]
        BY <4>1, <4>2
      <4> QED
        BY <4>3, <3>1, <3>2
    <3>3. CASE ~ Closed(g[j][x])
      <4>1. PICK w \in g[j][x], v \in Nodes : v \in next[w] /\ v \notin g[j][x]
        BY <3>3, <3>1, <1>0
      <4>2. g[j][x] \cup {v} \in SUBSET g[j + 1][x]
        BY <4>1, <1>4
      <4>3. Cardinality(g[j][x] \cup {v}) = Cardinality(g[j][x]) + 1
        <5> DEFINE A == g[j][x]
        <5>1. IsFiniteSet(A) /\ v \notin A
          BY <4>1, <2>f, <3>1
        <5> HIDE DEF A
        <5>2. /\ IsFiniteSet(A \cup {v})
              /\ Cardinality(A \cup {v}) =
                   IF v \in A THEN Cardinality(A) ELSE Cardinality(A) + 1
          BY <5>1, FS_AddElement
        <5>3. Cardinality(A \cup {v}) = Cardinality(A) + 1
          BY <5>1, <5>2
        <5> QED
          BY <5>3 DEF A
      <4>4. Cardinality(g[j][x] \cup {v}) <= Cardinality(g[j + 1][x])
        BY <4>2, <2>f, <3>1, FS_Subset
      <4> QED
        BY <4>3, <4>4, <2>2, <3>1, <3>3, <2>f, <1>n
    <3> QED
      BY <3>2, <3>3
  <2> HIDE DEF Q
  <2>3. 0 .. N \subseteq Q
    BY <2>1, <2>2, <1>n, UpTo
  <2> USE DEF Q
  <2>4. N \in Q /\ g[N][x] \in SUBSET Nodes
    BY <2>3, <1>0, <1>n
  <2>5. Cardinality(g[N][x]) <= N
    BY <2>4, <1>n, FS_Subset
  <2> QED
    BY <2>4, <2>5, <2>f, <1>n
<1>6. N \in 0 .. N
  BY <1>n
<1>7. S \subseteq Closure(next, S) /\ Closure(next, S) \subseteq Nodes
  BY <1>0, <1>1, <1>3, <1>6
<1>8. \A x \in Closure(next, S) : next[x] \subseteq Closure(next, S)
  BY <1>1, <1>5
<1>9. ASSUME NEW D, S \subseteq D, \A x \in D \cap Nodes : next[x] \subseteq D
      PROVE  Closure(next, S) \subseteq D
  BY <1>1, <1>2, <1>6, <1>9
<1> QED
  BY <1>7, <1>8, <1>9

-----------------------------------------------------------------------------
(* The heap as a forest.                                                    *)

Parents(h) == [x \in Nodes |-> h[x].parent]
Nexts(h) == [x \in Nodes |-> h[x].next]
Prevs(h) == [x \in Nodes |-> h[x].prev]

\* The pointers of the nodes in R are to nodes in R, and agree with each other.
Linked(h, R) ==
  \A x \in R :
    /\ {h[x].parent, h[x].prev, h[x].next, h[x].children} \subseteq R \cup {Null}
    /\ h[x].children # Null =>
         h[h[x].children].parent = x /\ h[h[x].children].prev = Null
    /\ h[x].next # Null =>
         h[h[x].next].prev = x /\ h[h[x].next].parent = h[x].parent
    /\ h[x].prev # Null => h[h[x].prev].next = x
    /\ h[x].parent # Null /\ h[x].prev = Null => h[h[x].parent].children = x
    /\ h[x].parent = Null => h[x].prev = Null /\ h[x].next = Null

\* No way along the pointers is a circle.
Grounded(h, R) == Ends(Parents(h), R) /\ Ends(Nexts(h), R) /\ Ends(Prevs(h), R)

Forest(h, R) ==
  /\ h \in [Nodes -> NodeType]
  /\ R \in SUBSET Nodes
  /\ Linked(h, R)
  /\ Grounded(h, R)

LEMMA PointersAre ==
  ASSUME NEW h, NEW R, Forest(h, R)
  PROVE  /\ Parents(h) \in [Nodes -> Pointers] /\ Inside(Parents(h), R)
         /\ Nexts(h) \in [Nodes -> Pointers] /\ Inside(Nexts(h), R)
         /\ Prevs(h) \in [Nodes -> Pointers] /\ Inside(Prevs(h), R)
         /\ Ends(Parents(h), R) /\ Ends(Nexts(h), R) /\ Ends(Prevs(h), R)
         /\ \A x \in R : /\ Parents(h)[x] = h[x].parent
                         /\ Nexts(h)[x] = h[x].next
                         /\ Prevs(h)[x] = h[x].prev
         /\ R \in SUBSET Nodes /\ Null \notin R
<1>1. \A x \in Nodes : h[x] \in NodeType
  BY DEF Forest
<1>2. \A x \in Nodes : h[x].parent \in Pointers /\ h[x].next \in Pointers /\ h[x].prev \in Pointers
  BY <1>1 DEF NodeType, Pointers
<1>3. R \in SUBSET Nodes
  BY DEF Forest
<1>4. \A x \in R : {h[x].parent, h[x].prev, h[x].next, h[x].children} \subseteq R \cup {Null}
  BY DEF Forest, Linked
<1>5. Inside(Parents(h), R)
  BY <1>3, <1>4 DEF Inside, Parents
<1>6. Inside(Nexts(h), R)
  BY <1>3, <1>4 DEF Inside, Nexts
<1>7. Inside(Prevs(h), R)
  BY <1>3, <1>4 DEF Inside, Prevs
<1>8. \A x \in R : /\ Parents(h)[x] = h[x].parent
                   /\ Nexts(h)[x] = h[x].next
                   /\ Prevs(h)[x] = h[x].prev
  BY <1>3 DEF Parents, Nexts, Prevs
<1>9. /\ Parents(h) \in [Nodes -> Pointers] /\ Nexts(h) \in [Nodes -> Pointers]
      /\ Prevs(h) \in [Nodes -> Pointers]
  BY <1>2 DEF Parents, Nexts, Prevs
<1> QED
  BY <1>3, <1>5, <1>6, <1>7, <1>8, <1>9, NullIsNoNode DEF Forest, Grounded

(* The list of the children of n.                                          *)
LEMMA KidsWalk ==
  ASSUME NEW h, NEW R, Forest(h, R), NEW n \in R
  PROVE  /\ Kids(h, n) \in Seq(R)
         /\ h[n].children = Null => Kids(h, n) = <<>>
         /\ h[n].children # Null => Follows(Kids(h, n), Nexts(h), h[n].children)
<1>1. Kids(h, n) = Follow(Nexts(h), h[n].children)
  BY DEF Kids, Nexts
<1>2. h[n].children \in R \cup {Null}
  BY DEF Forest, Linked
<1>3. /\ Nexts(h) \in [Nodes -> Pointers] /\ R \in SUBSET Nodes
      /\ Inside(Nexts(h), R) /\ Ends(Nexts(h), R)
  BY PointersAre
<1>4. CASE h[n].children = Null
  <2>1. Kids(h, n) = <<>>
    BY <1>1, <1>3, <1>4, FollowUnfolds
  <2> QED
    BY <1>4, <2>1
<1>5. CASE h[n].children # Null
  <2>1. h[n].children \in R
    BY <1>2, <1>5
  <2>2. /\ Follows(Follow(Nexts(h), h[n].children), Nexts(h), h[n].children)
        /\ Follow(Nexts(h), h[n].children) \in Seq(R)
    BY <1>3, <2>1, FollowRight
  <2> QED
    BY <1>1, <1>5, <2>2
<1> QED
  BY <1>4, <1>5

\* Neighbours in the list.
ListRight(h, R, n, kids) ==
  /\ kids \in Seq(R) /\ Len(kids) \in Nat /\ DOMAIN kids = 1 .. Len(kids)
  /\ kids # <<>> <=> h[n].children # Null
  /\ kids # <<>> <=> Len(kids) > 0
  /\ kids # <<>> => kids[1] = h[n].children /\ h[kids[Len(kids)]].next = Null
  /\ \A i \in 1 .. Len(kids) - 1 : h[kids[i]].next = kids[i + 1]
  /\ \A i \in 1 .. Len(kids) :
       /\ kids[i] \in R
       /\ h[kids[i]].parent = n
       /\ h[kids[i]].prev = IF i = 1 THEN Null ELSE kids[i - 1]

LEMMA KidsListed ==
  ASSUME NEW h, NEW R, Forest(h, R), NEW n \in R
  PROVE  ListRight(h, R, n, Kids(h, n))
<1> DEFINE s == Kids(h, n)
<1>1. /\ s \in Seq(R)
      /\ h[n].children = Null => s = <<>>
      /\ h[n].children # Null => Follows(s, Nexts(h), h[n].children)
  BY KidsWalk
<1> HIDE DEF s
<1>2. /\ Len(s) \in Nat /\ DOMAIN s = 1 .. Len(s) /\ \A i \in 1 .. Len(s) : s[i] \in R
      /\ s # <<>> <=> Len(s) > 0
  BY <1>1, LenProperties, ElementOfSeq, EmptySeq
<1>3. s # <<>> <=> h[n].children # Null
  BY <1>1 DEF Follows
<1>4. /\ R \in SUBSET Nodes /\ Null \notin R
      /\ \A x \in R : Nexts(h)[x] = h[x].next
  BY PointersAre
<1>5. /\ s # <<>> => s[1] = h[n].children /\ h[s[Len(s)]].next = Null
      /\ \A i \in 1 .. Len(s) - 1 : h[s[i]].next = s[i + 1]
  <2>1. \A i \in 1 .. Len(s) : Nexts(h)[s[i]] = h[s[i]].next
    BY <1>2, <1>4
  <2>2. CASE s = <<>>
    BY <1>2, <2>2
  <2>3. CASE s # <<>>
    <3>1. Follows(s, Nexts(h), h[n].children)
      BY <1>1, <2>3
    <3>2. Len(s) \in 1 .. Len(s) /\ \A i \in 1 .. Len(s) - 1 : i \in 1 .. Len(s)
      BY <1>2, <2>3
    <3> QED
      BY <3>1, <3>2, <2>1 DEF Follows
  <2> QED
    BY <2>2, <2>3
<1>l. /\ h[n].children # Null =>
           h[h[n].children].parent = n /\ h[h[n].children].prev = Null
      /\ \A x \in R : h[x].next # Null =>
           h[h[x].next].prev = x /\ h[h[x].next].parent = h[x].parent
  BY DEF Forest, Linked
<1> DEFINE Good(i) == /\ h[s[i]].parent = n
                      /\ h[s[i]].prev = IF i = 1 THEN Null ELSE s[i - 1]
           Q == {j \in 0 .. Len(s) : j > 0 => Good(j)}
<1>6. 0 \in Q
  BY <1>2
<1>7. ASSUME NEW j \in 0 .. Len(s) - 1, j \in Q PROVE j + 1 \in Q
  <2>1. j + 1 \in 1 .. Len(s) /\ j + 1 \in 0 .. Len(s) /\ (j + 1) - 1 = j
    BY <1>2
  <2>2. CASE j = 0
    <3>1. s[1] = h[n].children /\ h[n].children # Null
      BY <1>2, <1>3, <1>5, <2>1
    <3> QED
      BY <2>1, <2>2, <3>1, <1>l
  <2>3. CASE j # 0
    <3>1. j \in 1 .. Len(s) - 1 /\ j \in 1 .. Len(s)
      BY <2>3, <1>2
    <3>2. h[s[j]].next = s[j + 1] /\ s[j] \in R /\ s[j + 1] # Null
      BY <3>1, <2>1, <1>2, <1>4, <1>5
    <3>3. h[s[j + 1]].prev = s[j] /\ h[s[j + 1]].parent = h[s[j]].parent
      BY <3>2, <1>l
    <3>4. h[s[j]].parent = n
      BY <1>7, <2>3
    <3> QED
      BY <2>1, <2>3, <3>3, <3>4
  <2> QED
    BY <2>2, <2>3
<1> HIDE DEF Q
<1>8. 0 .. Len(s) \subseteq Q
  BY <1>2, <1>6, <1>7, UpTo
<1>9. \A i \in 1 .. Len(s) : Good(i)
  BY <1>2, <1>8 DEF Q
<1>10. ListRight(h, R, n, s)
  BY <1>1, <1>2, <1>3, <1>5, <1>9 DEF ListRight
<1> QED
  BY <1>10 DEF s

\* A list of children names no node twice.
LEMMA KidsOnce ==
  ASSUME NEW h, NEW R, Forest(h, R), NEW n \in R
  PROVE  IsInjective(Kids(h, n))
<1> DEFINE s == Kids(h, n)
<1>1. ListRight(h, R, n, s)
  BY KidsListed
<1> HIDE DEF s
<1>2. /\ Len(s) \in Nat /\ DOMAIN s = 1 .. Len(s)
      /\ \A i \in 1 .. Len(s) : s[i] \in R
      /\ \A i \in 1 .. Len(s) - 1 : h[s[i]].next = s[i + 1]
  BY <1>1 DEF ListRight
<1>3. Ends(Nexts(h), R) /\ \A x \in R : Nexts(h)[x] = h[x].next
  BY PointersAre
<1>4. ASSUME NEW i \in 1 .. Len(s), NEW j \in 1 .. Len(s), i < j, s[i] = s[j]
      PROVE  FALSE
  <2> DEFINE S == {s[k] : k \in i .. j - 1}
  <2>1. S \in SUBSET R /\ S # {}
    <3>1. i \in i .. j - 1 /\ \A k \in i .. j - 1 : k \in 1 .. Len(s)
      BY <1>2, <1>4
    <3> QED
      BY <3>1, <1>2
  <2>2. PICK k \in i .. j - 1 : Nexts(h)[s[k]] \notin S
    BY <2>1, <1>3 DEF Ends
  <2>3. k \in 1 .. Len(s) - 1 /\ k \in 1 .. Len(s) /\ (k + 1 \in i .. j - 1 \/ k + 1 = j) /\ i \in i .. j - 1
    BY <1>2, <1>4
  <2>4. Nexts(h)[s[k]] = s[k + 1]
    BY <2>3, <1>2, <1>3
  <2>5. s[k + 1] \in S
    BY <2>3, <1>4
  <2> QED
    BY <2>2, <2>4, <2>5
<1>5. IsInjective(s)
  <2> SUFFICES ASSUME NEW i \in 1 .. Len(s), NEW j \in 1 .. Len(s), s[i] = s[j], i # j
               PROVE  FALSE
    BY <1>2 DEF IsInjective
  <2>1. i < j \/ j < i
    BY <1>2
  <2> QED
    BY <2>1, <1>4
<1> QED
  BY <1>5 DEF s

\* The children of n are the nodes that name it as their parent.
LEMMA KidsRight ==
  ASSUME NEW h, NEW R, Forest(h, R), NEW n \in R
  PROVE  Range(Kids(h, n)) = {x \in R : h[x].parent = n}
<1> DEFINE s == Kids(h, n)
<1>1. ListRight(h, R, n, s)
  BY KidsListed
<1> HIDE DEF s
<1>2. ASSUME NEW y \in Range(s) PROVE y \in R /\ h[y].parent = n
  BY <1>1 DEF Range, ListRight
<1> DEFINE G == {x \in R : h[x].parent = n => x \in Range(s)}
<1>p. /\ Inside(Prevs(h), R) /\ Ends(Prevs(h), R)
      /\ R \in SUBSET Nodes /\ Null \notin R
      /\ \A x \in R : Prevs(h)[x] = h[x].prev
  BY PointersAre
<1>3. ASSUME NEW x \in R, Prevs(h)[x] \in G \cup {Null} PROVE x \in G
  <2> SUFFICES ASSUME h[x].parent = n PROVE x \in Range(s)
    OBVIOUS
  <2>1. CASE h[x].prev = Null
    <3>1. h[n].children = x
      BY <2>1, <1>p DEF Forest, Linked
    <3>2. s # <<>> /\ s[1] = x /\ 1 \in DOMAIN s
      BY <3>1, <1>1, <1>p DEF ListRight
    <3> QED
      BY <3>2 DEF Range
  <2>2. CASE h[x].prev # Null
    <3> DEFINE y == h[x].prev
    <3>1. y \in G /\ y \in R /\ h[y].next = x
      BY <2>2, <1>3, <1>p DEF Forest, Linked
    <3>2. h[y].parent = n
      BY <3>1, <1>p DEF Forest, Linked
    <3>3. PICK i \in DOMAIN s : s[i] = y
      BY <3>1, <3>2 DEF Range
    <3>4. i \in 1 .. Len(s) /\ Len(s) \in Nat /\ (i = Len(s) \/ i \in 1 .. Len(s) - 1)
      BY <1>1, <3>3 DEF ListRight
    <3>5. i # Len(s)
      <4>1. i = Len(s) => h[y].next = Null
        BY <1>1, <3>3, <3>4 DEF ListRight
      <4> QED
        BY <4>1, <3>1, <1>p
    <3>6. s[i + 1] = x /\ i + 1 \in DOMAIN s
      BY <1>1, <3>1, <3>3, <3>4, <3>5 DEF ListRight
    <3> QED
      BY <3>6 DEF Range
  <2> QED
    BY <2>1, <2>2
<1> HIDE DEF G
<1>4. R \subseteq G
  BY <1>p, <1>3, Backwards
<1>5. \A x \in R : h[x].parent = n => x \in Range(s)
  BY <1>4 DEF G
<1>6. Range(s) = {x \in R : h[x].parent = n}
  BY <1>2, <1>5
<1> QED
  BY <1>6 DEF s

-----------------------------------------------------------------------------
(* The nodes above and below a node.                                        *)

Up(h, x) == Range(Path(h, x))
Level(h, x) == Len(Path(h, x))

\* What is above a node, along its parent.
LEMMA PathIs ==
  ASSUME NEW h, NEW R, Forest(h, R), NEW x \in R
  PROVE  /\ Up(h, x) = {x} \cup (IF h[x].parent = Null THEN {} ELSE Up(h, h[x].parent))
         /\ Up(h, x) \subseteq R
         /\ Root(h, x) = IF h[x].parent = Null THEN x ELSE Root(h, h[x].parent)
         /\ Root(h, x) \in R /\ h[Root(h, x)].parent = Null
         /\ Level(h, x) \in Nat
         /\ Level(h, x) = 1 + (IF h[x].parent = Null THEN 0 ELSE Level(h, h[x].parent))
         /\ h[x].parent \in R \cup {Null}
<1> DEFINE p == Parents(h)
<1>p. /\ p \in [Nodes -> Pointers] /\ Inside(p, R) /\ Ends(p, R)
      /\ R \in SUBSET Nodes /\ Null \notin R
      /\ \A y \in R : p[y] = h[y].parent
  BY PointersAre
<1>f. \A y : Path(h, y) = Follow(p, y)
  BY DEF Path, Parents
<1> HIDE DEF p
<1>1. h[x].parent \in R \cup {Null}
  BY <1>p DEF Inside
<1>2. /\ Range(Follow(p, x)) = {x} \cup (IF p[x] = Null THEN {} ELSE Range(Follow(p, p[x])))
      /\ Range(Follow(p, x)) \subseteq R
      /\ Len(Follow(p, x)) \in Nat
      /\ Len(Follow(p, x)) = 1 + (IF p[x] = Null THEN 0 ELSE Len(Follow(p, p[x])))
  BY <1>p, RangeOfFollow
<1>3. p[x] = h[x].parent
  BY <1>p
<1>4. ASSUME NEW y \in R
      PROVE  /\ Follow(p, y) \in Seq(R) /\ Follows(Follow(p, y), p, y)
             /\ Len(Follow(p, y)) \in Nat /\ Len(Follow(p, y)) > 0
             /\ Root(h, y) = Follow(p, y)[Len(Follow(p, y))]
             /\ Root(h, y) \in R /\ h[Root(h, y)].parent = Null
  <2> DEFINE s == Follow(p, y)
  <2>1. s \in Seq(R) /\ Follows(s, p, y)
    BY <1>p, FollowRight
  <2>2. Root(h, y) = s[Len(s)]
    BY <1>f DEF Root
  <2> HIDE DEF s
  <2>3. Len(s) \in Nat /\ Len(s) > 0
    BY <2>1, EmptySeq, LenProperties DEF Follows
  <2>4. s[Len(s)] \in R /\ p[s[Len(s)]] = Null
    BY <2>1, <2>3, ElementOfSeq DEF Follows
  <2> QED
    BY <2>1, <2>2, <2>3, <2>4, <1>p DEF s
<1>5. Root(h, x) = IF h[x].parent = Null THEN x ELSE Root(h, h[x].parent)
  <2> DEFINE s == Follow(p, x)
             t == Follow(p, p[x])
  <2>1. s = <<x>> \o t /\ Follow(p, Null) = <<>> /\ t \in Seq(Nodes)
    BY <1>p, FollowUnfolds DEF Inside
  <2>2. Len(s) \in Nat /\ Len(s) > 0 /\ Root(h, x) = s[Len(s)] /\ s[1] = x
    BY <1>4 DEF Follows
  <2>3. Len(s) = 1 + (IF p[x] = Null THEN 0 ELSE Len(t))
    BY <1>2
  <2>4. CASE p[x] = Null
    BY <2>2, <2>3, <2>4, <1>3
  <2>5. CASE p[x] # Null
    <3>1. /\ Len(t) \in Nat /\ Len(t) > 0 /\ Root(h, p[x]) = t[Len(t)]
      BY <1>1, <1>3, <1>4, <2>5
    <3> HIDE DEF s, t
    <3>2. Len(s) = 1 + Len(t)
      BY <2>3, <2>5
    <3>3. Len(<<x>>) = 1 /\ <<x>> \in Seq(Nodes)
      BY <1>p
    <3>4. (<<x>> \o t)[1 + Len(t)] = t[Len(t)]
      BY <2>1, <3>1, <3>3, ConcatProperties
    <3> QED
      BY <2>1, <2>2, <2>5, <3>1, <3>2, <3>4, <1>3
  <2> QED
    BY <2>4, <2>5
<1>6. Root(h, x) \in R /\ h[Root(h, x)].parent = Null
  BY <1>4
<1> QED
  BY <1>1, <1>2, <1>3, <1>5, <1>6, <1>f DEF Up, Level

\* What holds of the roots, and of the children of what it holds of, holds of all.
LEMMA Downwards ==
  ASSUME NEW h, NEW R, Forest(h, R), NEW G,
         \A x \in R : h[x].parent \in G \cup {Null} => x \in G
  PROVE  R \subseteq G
<1>1. /\ Inside(Parents(h), R) /\ Ends(Parents(h), R)
      /\ \A x \in R : Parents(h)[x] = h[x].parent
  BY PointersAre
<1> QED
  BY <1>1, Backwards

\* A node above x has the same root, has less above it, and is above what is below x.
LEMMA AboveIs ==
  ASSUME NEW h, NEW R, Forest(h, R), NEW x \in R
  PROVE  /\ x \in Up(h, x) /\ Root(h, x) \in Up(h, x)
         /\ \A y \in Up(h, x) : /\ y \in R /\ Root(h, y) = Root(h, x)
                                /\ Up(h, y) \subseteq Up(h, x)
                                /\ y # x => Level(h, y) < Level(h, x)
<1> DEFINE Right(z) == /\ Root(h, z) \in Up(h, z)
                       /\ \A y \in Up(h, z) : /\ y \in R /\ Root(h, y) = Root(h, z)
                                              /\ Up(h, y) \subseteq Up(h, z)
                                              /\ y # z => Level(h, y) < Level(h, z)
           G == {z \in R : Right(z)}
<1>1. ASSUME NEW z \in R, h[z].parent \in G \cup {Null} PROVE z \in G
  <2>1. /\ Up(h, z) = {z} \cup (IF h[z].parent = Null THEN {} ELSE Up(h, h[z].parent))
        /\ Up(h, z) \subseteq R
        /\ Root(h, z) = IF h[z].parent = Null THEN z ELSE Root(h, h[z].parent)
        /\ Level(h, z) \in Nat
        /\ Level(h, z) = 1 + (IF h[z].parent = Null THEN 0 ELSE Level(h, h[z].parent))
    BY PathIs
  <2>2. CASE h[z].parent = Null
    BY <2>1, <2>2
  <2>3. CASE h[z].parent # Null
    <3> DEFINE p == h[z].parent
    <3>1. p \in R /\ Right(p)
      BY <1>1, <2>3
    <3>2. p \in Up(h, p) /\ Level(h, p) \in Nat /\ Level(h, p) < Level(h, z)
      BY <3>1, <2>1, <2>3, PathIs
    <3>3. Up(h, z) = {z} \cup Up(h, p) /\ Root(h, z) = Root(h, p)
      BY <2>1, <2>3
    <3>4. \A y \in R : Level(h, y) \in Nat
      BY PathIs
    <3> HIDE DEF p
    <3>5. ASSUME NEW y \in Up(h, z)
          PROVE  /\ y \in R /\ Root(h, y) = Root(h, z)
                 /\ Up(h, y) \subseteq Up(h, z)
                 /\ y # z => Level(h, y) < Level(h, z)
      <4>1. CASE y = z
        BY <4>1
      <4>2. CASE y # z
        <5>1. y \in Up(h, p)
          BY <3>3, <4>2
        <5>2. /\ y \in R /\ Root(h, y) = Root(h, p) /\ Up(h, y) \subseteq Up(h, p)
              /\ y # p => Level(h, y) < Level(h, p)
          BY <3>1, <5>1
        <5>3. Level(h, y) \in Nat /\ Level(h, z) \in Nat
          BY <5>2, <3>4
        <5> QED
          BY <5>2, <5>3, <3>2, <3>3
      <4> QED
        BY <4>1, <4>2
    <3>6. Root(h, z) \in Up(h, z)
      BY <3>1, <3>3
    <3> QED
      BY <3>5, <3>6
  <2> QED
    BY <2>2, <2>3
<1> HIDE DEF G
<1>2. R \subseteq G
  BY <1>1, Downwards
<1>3. Right(x)
  BY <1>2 DEF G
<1>4. x \in Up(h, x)
  BY PathIs
<1> QED
  BY <1>3, <1>4

LEMMA KidsAreNodes ==
  ASSUME NEW h \in [Nodes -> NodeType]
  PROVE  [n \in Nodes |-> Range(Kids(h, n))] \in [Nodes -> SUBSET Nodes]
<1> SUFFICES ASSUME NEW n \in Nodes PROVE Range(Kids(h, n)) \subseteq Nodes
  OBVIOUS
<1> DEFINE p == Nexts(h)
<1>1. \A x \in Nodes : h[x].next \in Pointers /\ h[x].children \in Pointers
  BY DEF NodeType, Pointers
<1>2. p \in [Nodes -> Pointers] /\ Kids(h, n) = Follow(p, h[n].children)
  BY <1>1 DEF Nexts, Kids
<1> HIDE DEF p
<1>3. PICK g : /\ Walk(g, p, N + 1)
               /\ \A x \in Pointers : Follow(p, x) = g[N][x]
  BY <1>2, FollowWalks
<1>4. N \in 0 .. N + 1
  BY SizeIsNat
<1>5. Kids(h, n) \in Seq(Nodes)
  BY <1>1, <1>2, <1>3, <1>4 DEF Walk
<1> DEFINE s == Kids(h, n)
<1> HIDE DEF s
<1>6. s \in Seq(Nodes)
  BY <1>5 DEF s
<1>7. \A i \in DOMAIN s : s[i] \in Nodes
  BY <1>6, LenProperties, ElementOfSeq
<1> QED
  BY <1>7 DEF Range, s

(* The nodes below S are those with a node of S above them.                *)
LEMMA BelowIs ==
  ASSUME NEW h, NEW R, Forest(h, R), NEW S \in SUBSET R
  PROVE  Below(h, S) = {x \in R : Up(h, x) \cap S # {}}
<1> DEFINE kids == [n \in Nodes |-> Range(Kids(h, n))]
           D == {x \in R : Up(h, x) \cap S # {}}
           C == Below(h, S)
<1>r. R \in SUBSET Nodes /\ Null \notin R
  BY PointersAre
<1>1. kids \in [Nodes -> SUBSET Nodes]
  BY KidsAreNodes DEF Forest
<1>2. \A n \in R : kids[n] = {x \in R : h[x].parent = n}
  BY <1>r, KidsRight
<1>3. C = Closure(kids, S)
  BY DEF Below
<1> HIDE DEF kids, C
<1>4. /\ S \subseteq C
      /\ \A x \in C : kids[x] \subseteq C
      /\ \A E : S \subseteq E /\ (\A x \in E \cap Nodes : kids[x] \subseteq E) => C \subseteq E
  <2>1. S \in SUBSET Nodes
    BY <1>r
  <2> QED
    BY <1>1, <1>3, <2>1, ClosureIs
<1>5. C \subseteq D
  <2>1. S \subseteq D
    BY AboveIs
  <2>2. ASSUME NEW x \in D, NEW y \in kids[x] PROVE y \in D
    <3>1. y \in R /\ h[y].parent = x /\ x \in R
      BY <1>2
    <3>2. Up(h, y) = {y} \cup Up(h, x)
      BY <3>1, <1>r, PathIs
    <3> QED
      BY <3>1, <3>2
  <2> HIDE DEF D
  <2> QED
    BY <1>4, <2>1, <2>2
<1>6. D \subseteq C
  <2> DEFINE G == {x \in R : x \in D => x \in C}
  <2>1. ASSUME NEW x \in R, h[x].parent \in G \cup {Null} PROVE x \in G
    <3> SUFFICES ASSUME x \in D PROVE x \in C
      OBVIOUS
    <3>1. Up(h, x) = {x} \cup (IF h[x].parent = Null THEN {} ELSE Up(h, h[x].parent))
      BY PathIs
    <3>2. CASE x \in S
      BY <3>2, <1>4
    <3>3. CASE x \notin S
      <4>1. h[x].parent # Null /\ Up(h, h[x].parent) \cap S # {}
        BY <3>1, <3>3
      <4>2. h[x].parent \in C /\ h[x].parent \in R
        BY <2>1, <4>1
      <4> QED
        BY <4>2, <1>2, <1>4
    <3> QED
      BY <3>2, <3>3
  <2> HIDE DEF G
  <2>2. R \subseteq G
    BY <2>1, Downwards
  <2> USE DEF G
  <2> QED
    BY <2>2
<1> QED
  BY <1>5, <1>6 DEF C

\* A node is below S if it is in S or its parent is below S; nothing is below itself.
LEMMA BelowStep ==
  ASSUME NEW h, NEW R, Forest(h, R), NEW S \in SUBSET R
  PROVE  /\ S \subseteq Below(h, S) /\ Below(h, S) \subseteq R
         /\ \A x \in R : x \in Below(h, S) <=> x \in S \/ h[x].parent \in Below(h, S)
         /\ \A x \in R : S = {x} => h[x].parent \notin Below(h, S)
<1> DEFINE C == Below(h, S)
<1>r. R \in SUBSET Nodes /\ Null \notin R
  BY PointersAre
<1>1. C = {x \in R : Up(h, x) \cap S # {}}
  BY BelowIs
<1> HIDE DEF C
<1>2. S \subseteq C /\ C \subseteq R
  BY <1>1, AboveIs
<1>3. ASSUME NEW x \in R PROVE x \in C <=> x \in S \/ h[x].parent \in C
  <2>1. /\ Up(h, x) = {x} \cup (IF h[x].parent = Null THEN {} ELSE Up(h, h[x].parent))
        /\ h[x].parent \in R \cup {Null}
    BY PathIs
  <2> QED
    BY <2>1, <1>1, <1>r
<1>4. ASSUME NEW x \in R, S = {x}, h[x].parent \in C PROVE FALSE
  <2> DEFINE p == h[x].parent
  <2>1. p \in R /\ x \in Up(h, p) /\ p # Null
    BY <1>1, <1>4, <1>r
  <2>2. Level(h, x) \in Nat /\ Level(h, p) \in Nat /\ Level(h, x) = 1 + Level(h, p)
    BY <2>1, PathIs
  <2>3. x # p => Level(h, x) < Level(h, p)
    BY <2>1, AboveIs
  <2> QED
    BY <2>2, <2>3
<1> QED
  BY <1>2, <1>3, <1>4 DEF C

\* The nodes below a root are the nodes of its tree.
LEMMA BelowRoot ==
  ASSUME NEW h, NEW R, Forest(h, R), NEW r \in R, h[r].parent = Null
  PROVE  /\ Below(h, {r}) = {x \in R : Root(h, x) = r}
         /\ Root(h, r) = r
<1>1. Below(h, {r}) = {x \in R : Up(h, x) \cap {r} # {}}
  BY BelowIs
<1>2. Root(h, r) = r
  BY PathIs
<1>3. \A x \in R : r \in Up(h, x) => Root(h, r) = Root(h, x)
  BY AboveIs
<1>4. \A x \in R : Root(h, x) \in Up(h, x)
  BY AboveIs
<1> QED
  BY <1>1, <1>2, <1>3, <1>4

-----------------------------------------------------------------------------
(* What a release does.                                                     *)

\* With more than one reference the node stays.
LEMMA ReleaseKeeps ==
  ASSUME NEW h \in [Nodes -> NodeType], NEW n \in Nodes, h[n].ref > 1
  PROVE  xmpp_stanza_release(h, n) = [h EXCEPT ![n].ref = @ - 1]
<1> DEFINE last == {x \in Nodes : h[x].ref <= 1}
           kids == [x \in Nodes |-> Range(Kids(h, x)) \cap last]
<1>1. kids \in [Nodes -> SUBSET Nodes]
  OBVIOUS
<1>2. {n} \cap last = {}
  BY DEF NodeType
<1>3. Freed(h, n) = Closure(kids, {})
  BY <1>2 DEF Freed
<1> HIDE DEF kids, last
<1>4. Closure(kids, {}) \subseteq {}
  BY <1>1, ClosureIs
<1>5. Freed(h, n) = {}
  BY <1>3, <1>4
<1> DEFINE gone == Freed(h, n)
           dropped == {n} \cup UNION {Range(Kids(h, x)) : x \in gone}
<1>6. xmpp_stanza_release(h, n) =
        [x \in Nodes |-> IF x \in gone THEN Blank
                         ELSE IF x \in dropped THEN [h[x] EXCEPT !.ref = @ - 1] ELSE h[x]]
  BY DEF xmpp_stanza_release
<1>7. gone = {} /\ dropped = {n}
  BY <1>5
<1> HIDE DEF gone, dropped
<1>8. xmpp_stanza_release(h, n) =
        [x \in Nodes |-> IF x = n THEN [h[x] EXCEPT !.ref = @ - 1] ELSE h[x]]
  BY <1>6, <1>7
<1> QED
  BY <1>8

\* When nothing below the node has another owner, all of it goes.
Removed(h, B) == [x \in Nodes |-> IF x \in B THEN Blank ELSE h[x]]

LEMMA ReleaseRemoves ==
  ASSUME NEW h, NEW R, Forest(h, R), NEW n \in R,
         \A x \in Below(h, {n}) : h[x].ref <= 1
  PROVE  xmpp_stanza_release(h, n) = Removed(h, Below(h, {n}))
<1> DEFINE last == {x \in Nodes : h[x].ref <= 1}
           kids == [x \in Nodes |-> Range(Kids(h, x)) \cap last]
           B == Below(h, {n})
           gone == Freed(h, n)
           dropped == {n} \cup UNION {Range(Kids(h, x)) : x \in gone}
<1>r. R \in SUBSET Nodes
  BY PointersAre
<1>b. /\ n \in B /\ B \subseteq R
      /\ \A x \in R : x \in B <=> x \in {n} \/ h[x].parent \in B
  BY BelowStep
<1>k. \A x \in R : Range(Kids(h, x)) = {y \in R : h[y].parent = x}
  BY KidsRight
<1>1. kids \in [Nodes -> SUBSET Nodes]
  OBVIOUS
<1>2. {n} \cap last = {n}
  BY <1>b, <1>r
<1>3. gone = Closure(kids, {n})
  BY <1>2 DEF Freed
<1>4. \A x \in B : kids[x] \subseteq B /\ kids[x] = Range(Kids(h, x)) /\ Range(Kids(h, x)) \subseteq B
  <2>1. ASSUME NEW x \in B PROVE Range(Kids(h, x)) \subseteq B /\ Range(Kids(h, x)) \subseteq last
    <3>1. Range(Kids(h, x)) \subseteq B
      BY <1>b, <1>k
    <3>2. B \subseteq last
      BY <1>b, <1>r
    <3> QED
      BY <3>1, <3>2
  <2>2. \A x \in B : kids[x] = Range(Kids(h, x)) \cap last
    BY <1>b, <1>r
  <2> HIDE DEF kids, B, last
  <2> QED
    BY <2>1, <2>2
<1> HIDE DEF kids, last, B, gone
<1>5. /\ n \in gone
      /\ \A x \in gone : kids[x] \subseteq gone
      /\ \A E : {n} \subseteq E /\ (\A x \in E \cap Nodes : kids[x] \subseteq E) => gone \subseteq E
  <2>1. {n} \in SUBSET Nodes
    BY <1>r
  <2>2. /\ {n} \subseteq Closure(kids, {n})
        /\ \A x \in Closure(kids, {n}) : kids[x] \subseteq Closure(kids, {n})
        /\ \A E : {n} \subseteq E /\ (\A x \in E \cap Nodes : kids[x] \subseteq E)
                     => Closure(kids, {n}) \subseteq E
    BY <1>1, <2>1, ClosureIs
  <2> QED
    BY <2>2, <1>3
<1>6. gone \subseteq B
  BY <1>5, <1>4, <1>b
<1>7. B \subseteq gone
  <2>1. ASSUME NEW x \in B PROVE x \in gone
    <3> DEFINE G == {y \in R : y \in B => y \in gone}
    <3>1. ASSUME NEW y \in R, h[y].parent \in G \cup {Null} PROVE y \in G
      <4> SUFFICES ASSUME y \in B PROVE y \in gone
        OBVIOUS
      <4>1. CASE y = n
        BY <4>1, <1>5
      <4>2. CASE y # n
        <5>1. h[y].parent \in B /\ h[y].parent \in R /\ h[y].parent # Null
          BY <4>2, <1>b, PointersAre
        <5>2. h[y].parent \in gone
          BY <5>1, <3>1
        <5>3. y \in kids[h[y].parent]
          BY <5>1, <1>4, <1>k
        <5> QED
          BY <5>2, <5>3, <1>5
      <4> QED
        BY <4>1, <4>2
    <3> HIDE DEF G
    <3>2. R \subseteq G
      BY <3>1, Downwards
    <3> QED
      BY <3>2, <1>b DEF G
  <2> QED
    BY <2>1
<1>8. gone = B
  BY <1>6, <1>7
<1>9. dropped \subseteq gone
  BY <1>8, <1>4, <1>5
<1>10. xmpp_stanza_release(h, n) =
        [x \in Nodes |-> IF x \in gone THEN Blank
                         ELSE IF x \in dropped THEN [h[x] EXCEPT !.ref = @ - 1] ELSE h[x]]
  BY DEF xmpp_stanza_release, gone
<1> HIDE DEF dropped
<1>11. \A x \in Nodes : x \notin gone => x \notin dropped
  BY <1>9
<1>12. xmpp_stanza_release(h, n) = [x \in Nodes |-> IF x \in gone THEN Blank ELSE h[x]]
  BY <1>10, <1>11
<1> QED
  BY <1>8, <1>12 DEF B, Removed

-----------------------------------------------------------------------------
(* The operations keep the forest.                                          *)

SamePointers(g, h, x) ==
  /\ g[x].parent = h[x].parent /\ g[x].prev = h[x].prev
  /\ g[x].next = h[x].next /\ g[x].children = h[x].children

\* Part of a forest that no pointer leaves.
LEMMA PartOfForest ==
  ASSUME NEW h, NEW R, Forest(h, R), NEW g \in [Nodes -> NodeType], NEW Q \in SUBSET R,
         \A x \in Q : SamePointers(g, h, x),
         \A x \in Q : {h[x].parent, h[x].prev, h[x].next, h[x].children} \subseteq Q \cup {Null}
  PROVE  Forest(g, Q)
<1>r. R \in SUBSET Nodes /\ Null \notin R
  BY PointersAre
<1>1. Linked(g, Q)
  <2> SUFFICES ASSUME NEW x \in Q
               PROVE  /\ {g[x].parent, g[x].prev, g[x].next, g[x].children} \subseteq Q \cup {Null}
                      /\ g[x].children # Null =>
                           g[g[x].children].parent = x /\ g[g[x].children].prev = Null
                      /\ g[x].next # Null =>
                           g[g[x].next].prev = x /\ g[g[x].next].parent = g[x].parent
                      /\ g[x].prev # Null => g[g[x].prev].next = x
                      /\ g[x].parent # Null /\ g[x].prev = Null => g[g[x].parent].children = x
                      /\ g[x].parent = Null => g[x].prev = Null /\ g[x].next = Null
    BY DEF Linked
  <2>1. SamePointers(g, h, x) /\ x \in R
    OBVIOUS
  <2>2. \A y \in Q : SamePointers(g, h, y)
    OBVIOUS
  <2>3. /\ h[x].children # Null =>
             h[h[x].children].parent = x /\ h[h[x].children].prev = Null
        /\ h[x].next # Null =>
             h[h[x].next].prev = x /\ h[h[x].next].parent = h[x].parent
        /\ h[x].prev # Null => h[h[x].prev].next = x
        /\ h[x].parent # Null /\ h[x].prev = Null => h[h[x].parent].children = x
        /\ h[x].parent = Null => h[x].prev = Null /\ h[x].next = Null
    BY <2>1 DEF Forest, Linked
  <2> QED
    BY <2>1, <2>2, <2>3 DEF SamePointers
<1>2. Grounded(g, Q)
  <2>1. \A x \in Q : /\ Parents(g)[x] = Parents(h)[x] /\ Nexts(g)[x] = Nexts(h)[x]
                     /\ Prevs(g)[x] = Prevs(h)[x]
    BY <1>r DEF SamePointers, Parents, Nexts, Prevs
  <2>2. Ends(Parents(h), R) /\ Ends(Nexts(h), R) /\ Ends(Prevs(h), R)
    BY PointersAre
  <2> QED
    BY <2>1, <2>2 DEF Ends, Grounded
<1> QED
  BY <1>1, <1>2, <1>r DEF Forest

\* Only counts differ.
LEMMA SameForest ==
  ASSUME NEW h, NEW R, Forest(h, R), NEW g \in [Nodes -> NodeType],
         \A x \in R : SamePointers(g, h, x)
  PROVE  Forest(g, R)
<1>1. R \in SUBSET R /\ \A x \in R : SamePointers(g, h, x)
  BY DEF Forest
<1>2. \A x \in R : {h[x].parent, h[x].prev, h[x].next, h[x].children} \subseteq R \cup {Null}
  BY DEF Forest, Linked
<1> QED
  BY <1>1, <1>2, PartOfForest

\* A whole tree is taken away.
LEMMA RemoveForest ==
  ASSUME NEW h, NEW R, Forest(h, R), NEW r \in R, h[r].parent = Null,
         NEW g \in [Nodes -> NodeType], \A x \in R \ Below(h, {r}) : g[x] = h[x]
  PROVE  Forest(g, R \ Below(h, {r}))
<1> DEFINE B == Below(h, {r})
           Q == R \ B
<1>r. R \in SUBSET Nodes /\ Null \notin R
  BY PointersAre
<1>b. /\ r \in B /\ B \subseteq R
      /\ \A x \in R : x \in B <=> x \in {r} \/ h[x].parent \in B
  BY BelowStep
<1> HIDE DEF B
<1>1. ASSUME NEW x \in Q
      PROVE  {h[x].parent, h[x].prev, h[x].next, h[x].children} \subseteq Q \cup {Null}
  <2>1. /\ {h[x].parent, h[x].prev, h[x].next, h[x].children} \subseteq R \cup {Null}
        /\ h[x].children # Null => h[h[x].children].parent = x
        /\ h[x].next # Null => h[h[x].next].parent = h[x].parent
        /\ h[x].parent = Null => h[x].prev = Null /\ h[x].next = Null
    BY DEF Forest, Linked
  <2>2. h[x].prev # Null => h[h[x].prev].parent = h[x].parent
    <3>1. h[x].prev # Null => h[x].prev \in R /\ h[h[x].prev].next = x
      BY <2>1 DEF Forest, Linked
    <3>2. \A y \in R : h[y].next # Null => h[h[y].next].parent = h[y].parent
      BY DEF Forest, Linked
    <3> QED
      BY <3>1, <3>2, <1>r
  <2>3. x \notin B /\ h[x].parent \notin B
    BY <1>b
  <2>4. ASSUME NEW y \in R, h[y].parent = h[x].parent, h[x].parent # Null PROVE y \notin B
    BY <2>3, <2>4, <1>b
  <2>5. h[x].children # Null => h[x].children \notin B
    <3>1. h[x].children # Null => h[x].children # r
      BY <2>1, <1>r
    <3> QED
      BY <3>1, <2>1, <2>3, <1>b
  <2> QED
    BY <2>1, <2>2, <2>3, <2>4, <2>5
<1>2. \A x \in Q : SamePointers(g, h, x)
  BY DEF SamePointers, B
<1>3. Q \in SUBSET R
  OBVIOUS
<1> HIDE DEF Q
<1>4. Forest(g, Q)
  BY <1>1, <1>2, <1>3, PartOfForest
<1> QED
  BY <1>4 DEF Q, B

\* A node of its own is added.
LEMMA NewForest ==
  ASSUME NEW h, NEW R, Forest(h, R), NEW c \in Nodes \ R
  PROVE  Forest(xmpp_stanza_new(h, c), R \cup {c})
<1> DEFINE g == xmpp_stanza_new(h, c)
           Q == R \cup {c}
<1>r. R \in SUBSET Nodes /\ Null \notin R /\ h \in [Nodes -> NodeType]
  BY PointersAre DEF Forest
<1>1. g[c] = [ref |-> 1, parent |-> Null, prev |-> Null, next |-> Null, children |-> Null]
  BY <1>r DEF xmpp_stanza_new, Blank
<1>2. \A x \in Nodes : x # c => g[x] = h[x]
  BY <1>r DEF xmpp_stanza_new
<1>3. g \in [Nodes -> NodeType]
  BY <1>r DEF xmpp_stanza_new, Blank, NodeType
<1> HIDE DEF g
<1>4. Linked(g, Q)
  <2> SUFFICES ASSUME NEW x \in Q
               PROVE  /\ {g[x].parent, g[x].prev, g[x].next, g[x].children} \subseteq Q \cup {Null}
                      /\ g[x].children # Null =>
                           g[g[x].children].parent = x /\ g[g[x].children].prev = Null
                      /\ g[x].next # Null =>
                           g[g[x].next].prev = x /\ g[g[x].next].parent = g[x].parent
                      /\ g[x].prev # Null => g[g[x].prev].next = x
                      /\ g[x].parent # Null /\ g[x].prev = Null => g[g[x].parent].children = x
                      /\ g[x].parent = Null => g[x].prev = Null /\ g[x].next = Null
    BY DEF Linked
  <2>1. CASE x = c
    BY <2>1, <1>1
  <2>2. CASE x # c
    <3>1. \A y \in R : g[y] = h[y]
      BY <1>2, <1>r
    <3>2. /\ {h[x].parent, h[x].prev, h[x].next, h[x].children} \subseteq R \cup {Null}
          /\ h[x].children # Null =>
             h[h[x].children].parent = x /\ h[h[x].children].prev = Null
          /\ h[x].next # Null =>
             h[h[x].next].prev = x /\ h[h[x].next].parent = h[x].parent
          /\ h[x].prev # Null => h[h[x].prev].next = x
          /\ h[x].parent # Null /\ h[x].prev = Null => h[h[x].parent].children = x
          /\ h[x].parent = Null => h[x].prev = Null /\ h[x].next = Null
      BY <2>2 DEF Forest, Linked
    <3>3. x \in R
      BY <2>2
    <3> QED
      BY <3>1, <3>2, <3>3
  <2> QED
    BY <2>1, <2>2
<1>5. Ends(Parents(h), R) /\ Ends(Nexts(h), R) /\ Ends(Prevs(h), R)
  BY PointersAre
<1>6. ASSUME NEW p, NEW q, Ends(p, R), \A x \in R : q[x] = p[x], q[c] = Null
      PROVE  Ends(q, Q)
  <2> SUFFICES ASSUME NEW S \in SUBSET Q, S # {} PROVE \E x \in S : q[x] \notin S
    BY DEF Ends
  <2>1. CASE c \in S
    BY <2>1, <1>6, <1>r, NullIsNoNode
  <2>2. CASE c \notin S
    <3>1. S \in SUBSET R
      BY <2>2
    <3>2. PICK x \in S : p[x] \notin S
      BY <3>1, <1>6 DEF Ends
    <3> QED
      BY <3>1, <3>2, <1>6
  <2> QED
    BY <2>1, <2>2
<1>7. Parents(g)[c] = Null /\ Nexts(g)[c] = Null /\ Prevs(g)[c] = Null
  BY <1>1 DEF Parents, Nexts, Prevs
<1>8. \A x \in R : /\ Parents(g)[x] = Parents(h)[x] /\ Nexts(g)[x] = Nexts(h)[x]
                   /\ Prevs(g)[x] = Prevs(h)[x]
  BY <1>2, <1>r DEF Parents, Nexts, Prevs
<1>9. Grounded(g, Q)
  BY <1>5, <1>6, <1>7, <1>8 DEF Grounded
<1>10. Q \in SUBSET Nodes
  BY <1>r
<1> QED
  BY <1>3, <1>4, <1>9, <1>10 DEF Forest, g

\* The last child of p, or Null.
IsLastChild(h, R, p, l) ==
  /\ l \in R \cup {Null}
  /\ l = Null <=> h[p].children = Null
  /\ l # Null => h[l].parent = p /\ h[l].next = Null

Added(h, p, c, l) ==
  [x \in Nodes |->
     [ref      |-> h[x].ref + (IF x = c THEN 1 ELSE 0),
      parent   |-> IF x = c THEN p ELSE h[x].parent,
      prev     |-> IF x = c THEN l ELSE h[x].prev,
      next     |-> IF x = l THEN c ELSE h[x].next,
      children |-> IF x = p /\ l = Null THEN c ELSE h[x].children]]

LEMMA AddIs ==
  ASSUME NEW h, NEW R, Forest(h, R), NEW p \in R, NEW c \in R, h[c].parent = Null, p # c
  PROVE  \E l : /\ IsLastChild(h, R, p, l)
                /\ xmpp_stanza_add_child(h, p, c) = Added(h, p, c, l)
<1> DEFINE kids == Kids(h, p)
           g == [xmpp_stanza_clone(h, c) EXCEPT ![c].parent = p]
           l == IF kids = <<>> THEN Null ELSE kids[Len(kids)]
<1>r. R \in SUBSET Nodes /\ Null \notin R /\ h \in [Nodes -> NodeType]
  BY PointersAre DEF Forest
<1>1. ListRight(h, R, p, kids)
  BY KidsListed
<1>2. xmpp_stanza_add_child(h, p, c) =
        IF kids = <<>> THEN [g EXCEPT ![p].children = c]
        ELSE [g EXCEPT ![kids[Len(kids)]].next = c, ![c].prev = kids[Len(kids)]]
  BY DEF xmpp_stanza_add_child
<1> HIDE DEF kids
<1>3. kids # <<>> => kids[Len(kids)] \in R /\ h[kids[Len(kids)]].parent = p /\ h[kids[Len(kids)]].next = Null
  BY <1>1 DEF ListRight
<1>4. IsLastChild(h, R, p, l)
  BY <1>1, <1>3, <1>r DEF IsLastChild, ListRight
<1>5. \A x \in Nodes : h[x] = [ref |-> h[x].ref, parent |-> h[x].parent, prev |-> h[x].prev,
                              next |-> h[x].next, children |-> h[x].children]
  BY <1>r DEF NodeType
<1>6. h[c].prev = Null
  BY DEF Forest, Linked
<1>7. \A x \in Nodes : h[x].ref \in Nat
  BY <1>r DEF NodeType
<1>8. xmpp_stanza_add_child(h, p, c) = Added(h, p, c, l)
  <2>1. CASE kids = <<>>
    BY <2>1, <1>2, <1>5, <1>6, <1>7, <1>r DEF xmpp_stanza_clone, Added
  <2>2. CASE kids # <<>>
    <3>1. l = kids[Len(kids)] /\ l \in Nodes /\ l # Null /\ l # c /\ c \in Nodes
      BY <2>2, <1>3, <1>r
    <3>2. xmpp_stanza_add_child(h, p, c) = [g EXCEPT ![l].next = c, ![c].prev = l]
      BY ONLY <2>2, <1>2, <3>1
    <3> HIDE DEF l
    <3>3. g = [h EXCEPT ![c].ref = @ + 1, ![c].parent = p]
      BY ONLY <3>1, <1>r DEF xmpp_stanza_clone
    <3> HIDE DEF g
    <3> DEFINE sum == [g EXCEPT ![l].next = c, ![c].prev = l]
    <3>4. /\ sum[c] = [h[c] EXCEPT !.ref = @ + 1, !.parent = p, !.prev = l]
          /\ sum[l] = [h[l] EXCEPT !.next = c]
          /\ \A x \in Nodes : x # c /\ x # l => sum[x] = h[x]
          /\ sum = [x \in Nodes |-> sum[x]]
      <4>1. DOMAIN h = Nodes /\ DOMAIN g = Nodes
        BY ONLY <3>3, <1>r
      <4>2. /\ g[c] = [h[c] EXCEPT !.ref = @ + 1, !.parent = p]
            /\ \A x \in Nodes : x # c => g[x] = h[x]
        BY ONLY <3>1, <3>3, <4>1
      <4>3. /\ sum[c] = [g[c] EXCEPT !.prev = l]
            /\ sum[l] = [g[l] EXCEPT !.next = c]
            /\ \A x \in Nodes : x # c /\ x # l => sum[x] = g[x]
        BY ONLY <3>1, <4>1
      <4>4. sum = [x \in Nodes |-> sum[x]]
        BY ONLY <4>1
      <4> HIDE DEF sum
      <4> QED
        BY ONLY <3>1, <4>2, <4>3, <4>4
    <3> HIDE DEF sum
    <3>5. ASSUME NEW x \in Nodes PROVE sum[x] = Added(h, p, c, l)[x]
      <4>1. Added(h, p, c, l)[x] =
              [ref      |-> h[x].ref + (IF x = c THEN 1 ELSE 0),
               parent   |-> IF x = c THEN p ELSE h[x].parent,
               prev     |-> IF x = c THEN l ELSE h[x].prev,
               next     |-> IF x = l THEN c ELSE h[x].next,
               children |-> h[x].children]
        BY ONLY <3>1, x \in Nodes DEF Added
      <4>2. /\ h[x] = [ref |-> h[x].ref, parent |-> h[x].parent, prev |-> h[x].prev,
                       next |-> h[x].next, children |-> h[x].children]
            /\ h[x].ref + 0 = h[x].ref
        BY ONLY <1>5, <1>7, x \in Nodes
      <4>3. CASE x = c
        <5>1. sum[x] = [h[x] EXCEPT !.ref = h[x].ref + 1, !.parent = p, !.prev = l] /\ x # l
          BY ONLY <3>1, <3>4, <4>3
        <5> QED
          BY ONLY <4>1, <4>2, <4>3, <5>1
      <4>4. CASE x = l
        <5>1. sum[x] = [h[x] EXCEPT !.next = c] /\ x # c
          BY ONLY <3>1, <3>4, <4>4
        <5> QED
          BY ONLY <4>1, <4>2, <4>4, <5>1
      <4>5. CASE x # c /\ x # l
        <5>1. sum[x] = h[x]
          BY ONLY <3>4, <4>5, x \in Nodes
        <5> QED
          BY ONLY <4>1, <4>2, <4>5, <5>1
      <4> QED
        BY ONLY <4>3, <4>4, <4>5
    <3> QED
      BY ONLY <3>2, <3>4, <3>5 DEF Added, sum
  <2> QED
    BY <2>1, <2>2
<1> QED
  BY <1>4, <1>8

LEMMA AddForest ==
  ASSUME NEW h, NEW R, Forest(h, R), NEW p \in R, NEW c \in R,
         h[c].parent = Null, p \notin Below(h, {c}),
         NEW l, IsLastChild(h, R, p, l)
  PROVE  Forest(Added(h, p, c, l), R)
<1> DEFINE g == Added(h, p, c, l)
           B == Below(h, {c})
<1>r. R \in SUBSET Nodes /\ Null \notin R /\ h \in [Nodes -> NodeType]
  BY PointersAre DEF Forest
<1>b. /\ c \in B /\ B \subseteq R
      /\ \A x \in R : x \in B <=> x \in {c} \/ h[x].parent \in B
  BY BelowStep
<1>c. p # c /\ c # l /\ p # Null
  BY <1>b, <1>r DEF IsLastChild
<1>f. \A x \in Nodes : /\ g[x].ref = h[x].ref + (IF x = c THEN 1 ELSE 0)
                       /\ g[x].parent = IF x = c THEN p ELSE h[x].parent
                       /\ g[x].prev = IF x = c THEN l ELSE h[x].prev
                       /\ g[x].next = IF x = l THEN c ELSE h[x].next
                       /\ g[x].children = IF x = p /\ l = Null THEN c ELSE h[x].children
  BY DEF Added
<1>1. g \in [Nodes -> NodeType]
  <2>1. \A x \in Nodes : /\ h[x].ref \in Nat /\ h[x].parent \in Nodes \cup {Null}
                         /\ h[x].prev \in Nodes \cup {Null}
                         /\ h[x].next \in Nodes \cup {Null}
                         /\ h[x].children \in Nodes \cup {Null}
    BY <1>r DEF NodeType
  <2>2. l \in Nodes \cup {Null} /\ p \in Nodes /\ c \in Nodes
    BY <1>r DEF IsLastChild
  <2> QED
    BY <2>1, <2>2 DEF Added, NodeType
<1> HIDE DEF g, B
<1>k. \A x \in R :
        /\ {h[x].parent, h[x].prev, h[x].next, h[x].children} \subseteq R \cup {Null}
        /\ h[x].children # Null =>
             h[h[x].children].parent = x /\ h[h[x].children].prev = Null
        /\ h[x].next # Null =>
             h[h[x].next].prev = x /\ h[h[x].next].parent = h[x].parent
        /\ h[x].prev # Null => h[h[x].prev].next = x
        /\ h[x].parent # Null /\ h[x].prev = Null => h[h[x].parent].children = x
        /\ h[x].parent = Null => h[x].prev = Null /\ h[x].next = Null
  BY DEF Forest, Linked
<1>l. /\ l \in R \cup {Null}
      /\ l = Null <=> h[p].children = Null
      /\ l # Null => h[l].parent = p /\ h[l].next = Null
  BY DEF IsLastChild
<1>g. \A x \in R : /\ g[x].parent = IF x = c THEN p ELSE h[x].parent
                   /\ g[x].prev = IF x = c THEN l ELSE h[x].prev
                   /\ g[x].next = IF x = l THEN c ELSE h[x].next
                   /\ g[x].children = IF x = p /\ l = Null THEN c ELSE h[x].children
  BY <1>f, <1>r
<1>2. Linked(g, R)
  <2> SUFFICES ASSUME NEW x \in R
               PROVE  /\ {g[x].parent, g[x].prev, g[x].next, g[x].children} \subseteq R \cup {Null}
                      /\ g[x].children # Null =>
                           g[g[x].children].parent = x /\ g[g[x].children].prev = Null
                      /\ g[x].next # Null =>
                           g[g[x].next].prev = x /\ g[g[x].next].parent = g[x].parent
                      /\ g[x].prev # Null => g[g[x].prev].next = x
                      /\ g[x].parent # Null /\ g[x].prev = Null => g[g[x].parent].children = x
                      /\ g[x].parent = Null => g[x].prev = Null /\ g[x].next = Null
    BY DEF Linked
  <2>1. {g[x].parent, g[x].prev, g[x].next, g[x].children} \subseteq R \cup {Null}
    BY <1>g, <1>k, <1>l
  <2>2. g[x].children # Null =>
          g[g[x].children].parent = x /\ g[g[x].children].prev = Null
    <3>1. CASE x = p /\ l = Null
      BY <3>1, <1>g, <1>c
    <3>2. CASE ~ (x = p /\ l = Null)
      <4>1. g[x].children = h[x].children
        BY <3>2, <1>g
      <4>2. h[x].children # Null => h[x].children \in R /\ h[h[x].children].parent = x /\ h[x].children # c
        BY <1>k, <1>r
      <4> QED
        BY <4>1, <4>2, <1>g, <1>k
    <3> QED
      BY <3>1, <3>2
  <2>3. g[x].next # Null =>
          g[g[x].next].prev = x /\ g[g[x].next].parent = g[x].parent
    <3>1. CASE x = l
      BY <3>1, <1>g, <1>c, <1>l, <1>r
    <3>2. CASE x # l
      <4>1. g[x].next = h[x].next
        BY <3>2, <1>g
      <4>2. h[c].prev = Null /\ h[c].next = Null
        BY <1>k
      <4>3. h[x].next # Null => h[x].next \in R /\ h[x].next # c /\ x # c
        BY <1>k, <1>r, <4>2
      <4> QED
        BY <4>1, <4>3, <1>g, <1>k
    <3> QED
      BY <3>1, <3>2
  <2>4. g[x].prev # Null => g[g[x].prev].next = x
    <3>1. CASE x = c
      BY <3>1, <1>g, <1>c, <1>l, <1>r
    <3>2. CASE x # c
      <4>1. g[x].prev = h[x].prev
        BY <3>2, <1>g
      <4>2. h[x].prev # Null => h[x].prev \in R /\ h[h[x].prev].next = x /\ h[x].prev # l
        BY <1>k, <1>l, <1>r
      <4> QED
        BY <4>1, <4>2, <1>g
    <3> QED
      BY <3>1, <3>2
  <2>5. g[x].parent # Null /\ g[x].prev = Null => g[g[x].parent].children = x
    <3>1. CASE x = c
      BY <3>1, <1>g, <1>c, <1>l, <1>r
    <3>2. CASE x # c
      <4>1. g[x].prev = h[x].prev /\ g[x].parent = h[x].parent
        BY <3>2, <1>g
      <4>2. h[x].parent # Null => h[x].parent \in R
        BY <1>k
      <4>3. h[x].parent # Null /\ h[x].prev = Null => h[h[x].parent].children = x
        BY <1>k
      <4> QED
        BY <4>1, <4>2, <4>3, <1>g, <1>l, <1>r
    <3> QED
      BY <3>1, <3>2
  <2>6. g[x].parent = Null => g[x].prev = Null /\ g[x].next = Null
    <3>1. CASE x = c
      BY <3>1, <1>g, <1>c
    <3>2. CASE x # c
      <4>1. g[x].prev = h[x].prev /\ g[x].parent = h[x].parent
        BY <3>2, <1>g
      <4>2. x = l => h[x].parent # Null
        BY <1>l, <1>c, <1>r
      <4>3. x # l => g[x].next = h[x].next
        BY <1>g
      <4> QED
        BY <4>1, <4>2, <4>3, <1>k
    <3> QED
      BY <3>1, <3>2
  <2> QED
    BY <2>1, <2>2, <2>3, <2>4, <2>5, <2>6
<1>q. /\ Ends(Parents(h), R) /\ Ends(Nexts(h), R) /\ Ends(Prevs(h), R)
      /\ \A x \in R : /\ Parents(h)[x] = h[x].parent /\ Nexts(h)[x] = h[x].next
                      /\ Prevs(h)[x] = h[x].prev
  BY PointersAre
<1>p. \A x \in R : /\ Parents(g)[x] = g[x].parent /\ Nexts(g)[x] = g[x].next
                   /\ Prevs(g)[x] = g[x].prev
  BY <1>r DEF Parents, Nexts, Prevs
<1>3. Ends(Parents(g), R)
  <2> SUFFICES ASSUME NEW S \in SUBSET R, S # {} PROVE \E x \in S : Parents(g)[x] \notin S
    BY DEF Ends
  <2>1. CASE c \in S /\ p \in S
    <3>1. S \ B \in SUBSET R /\ S \ B # {}
      BY <2>1 DEF B
    <3>2. PICK x \in S \ B : Parents(h)[x] \notin S \ B
      BY <3>1, <1>q DEF Ends
    <3>3. x # c /\ h[x].parent \notin B
      BY <3>2, <1>b
    <3>4. Parents(g)[x] = h[x].parent /\ Parents(h)[x] = h[x].parent
      BY <3>2, <3>3, <1>p, <1>q, <1>g
    <3> QED
      BY <3>2, <3>3, <3>4
  <2>2. CASE p \notin S
    <3>1. PICK x \in S : Parents(h)[x] \notin S
      BY <1>q DEF Ends
    <3>2. Parents(g)[x] = p \/ Parents(g)[x] = Parents(h)[x]
      BY <1>p, <1>q, <1>g
    <3> QED
      BY <3>1, <3>2, <2>2
  <2>3. CASE c \notin S
    <3>1. PICK x \in S : Parents(h)[x] \notin S
      BY <1>q DEF Ends
    <3>2. Parents(g)[x] = Parents(h)[x]
      BY <2>3, <1>p, <1>q, <1>g
    <3> QED
      BY <3>1, <3>2
  <2> QED
    BY <2>1, <2>2, <2>3
<1>4. Ends(Nexts(g), R)
  <2> SUFFICES ASSUME NEW S \in SUBSET R, S # {} PROVE \E x \in S : Nexts(g)[x] \notin S
    BY DEF Ends
  <2>1. CASE c \in S
    <3>1. Nexts(g)[c] = Null
      BY <1>p, <1>g, <1>c, <1>k
    <3> QED
      BY <2>1, <3>1, <1>r
  <2>2. CASE c \notin S
    <3>1. PICK x \in S : Nexts(h)[x] \notin S
      BY <1>q DEF Ends
    <3>2. Nexts(g)[x] = c \/ Nexts(g)[x] = Nexts(h)[x]
      BY <1>p, <1>q, <1>g
    <3> QED
      BY <3>1, <3>2, <2>2
  <2> QED
    BY <2>1, <2>2
<1>5. Ends(Prevs(g), R)
  <2> SUFFICES ASSUME NEW S \in SUBSET R, S # {} PROVE \E x \in S : Prevs(g)[x] \notin S
    BY DEF Ends
  <2>1. CASE S = {c}
    <3>1. Prevs(g)[c] = l
      BY <1>p, <1>g
    <3> QED
      BY <2>1, <3>1, <1>c
  <2>2. CASE S # {c}
    <3>1. S \ {c} \in SUBSET R /\ S \ {c} # {}
      BY <2>2
    <3>2. PICK x \in S \ {c} : Prevs(h)[x] \notin S \ {c}
      BY <3>1, <1>q DEF Ends
    <3>3. Prevs(g)[x] = h[x].prev /\ Prevs(h)[x] = h[x].prev
      BY <3>2, <1>p, <1>q, <1>g
    <3>4. h[x].prev # c
      BY <1>k, <1>r, <3>2
    <3> QED
      BY <3>2, <3>3, <3>4
  <2> QED
    BY <2>1, <2>2
<1> QED
  BY <1>1, <1>2, <1>3, <1>4, <1>5, <1>r DEF Forest, Grounded, g

\* The copy of the tree below s in the nodes f[m].
Image(f, p) == IF p = Null THEN Null ELSE f[p]

CopyRight(h, s, f, B, g) ==
  /\ g = [n \in Nodes |-> g[n]]
  /\ \A x \in Nodes \ Range(f) : g[x] = h[x]
  /\ \A m \in B :
       /\ f[m] \in Range(f)
       /\ g[f[m]] = [ref      |-> 1,
                     parent   |-> IF m = s THEN Null ELSE Image(f, h[m].parent),
                     prev     |-> IF m = s THEN Null ELSE Image(f, h[m].prev),
                     next     |-> IF m = s THEN Null ELSE Image(f, h[m].next),
                     children |-> Image(f, h[m].children)]

LEMMA CopyIs ==
  ASSUME NEW h \in [Nodes -> NodeType], NEW s, NEW B, NEW f \in Injection(B, Nodes)
  PROVE  CopyRight(h, s, f, B, xmpp_stanza_copy(h, s, f))
<1> DEFINE copy(m) == IF m = s
                      THEN [Blank EXCEPT !.ref = 1, !.children = Image(f, h[s].children)]
                      ELSE [ref |-> 1, parent |-> Image(f, h[m].parent),
                            prev |-> Image(f, h[m].prev), next |-> Image(f, h[m].next),
                            children |-> Image(f, h[m].children)]
           g == xmpp_stanza_copy(h, s, f)
<1>1. g = [n \in Nodes |-> IF n \in Range(f) THEN copy(CHOOSE m \in DOMAIN f : f[m] = n)
                           ELSE h[n]]
  BY DEF xmpp_stanza_copy, Image
<1>2. f \in [B -> Nodes] /\ DOMAIN f = B /\ \A a, b \in B : f[a] = f[b] => a = b
  BY DEF Injection, IsInjective
<1> HIDE DEF copy, g
<1>3. ASSUME NEW m \in B PROVE f[m] \in Range(f) /\ f[m] \in Nodes /\ g[f[m]] = copy(m)
  <2>1. f[m] \in Range(f) /\ f[m] \in Nodes
    BY <1>2 DEF Range
  <2>2. (CHOOSE a \in DOMAIN f : f[a] = f[m]) = m
    BY <1>2
  <2>3. g[f[m]] = copy(CHOOSE a \in DOMAIN f : f[a] = f[m])
    BY <1>1, <2>1
  <2> QED
    BY <2>1, <2>2, <2>3
<1>4. ASSUME NEW m \in B
      PROVE  copy(m) = [ref      |-> 1,
                        parent   |-> IF m = s THEN Null ELSE Image(f, h[m].parent),
                        prev     |-> IF m = s THEN Null ELSE Image(f, h[m].prev),
                        next     |-> IF m = s THEN Null ELSE Image(f, h[m].next),
                        children |-> Image(f, h[m].children)]
  BY DEF copy, Blank
<1>5. \A x \in Nodes \ Range(f) : g[x] = h[x]
  BY <1>1
<1>6. g = [n \in Nodes |-> g[n]]
  BY <1>1
<1>7. CopyRight(h, s, f, B, g)
  BY <1>3, <1>4, <1>5, <1>6 DEF CopyRight
<1> QED
  BY <1>7 DEF g

LEMMA CopyForest ==
  ASSUME NEW h, NEW R, Forest(h, R), NEW s \in R,
         NEW f \in Injection(Below(h, {s}), Nodes \ R)
  PROVE  /\ Forest(xmpp_stanza_copy(h, s, f), R \cup Range(f))
         /\ Range(f) \subseteq Nodes \ R
         /\ CopyRight(h, s, f, Below(h, {s}), xmpp_stanza_copy(h, s, f))
<1> DEFINE g == xmpp_stanza_copy(h, s, f)
           B == Below(h, {s})
           Q == R \cup Range(f)
<1>r. R \in SUBSET Nodes /\ Null \notin R /\ h \in [Nodes -> NodeType]
  BY PointersAre DEF Forest
<1>b. /\ s \in B /\ B \subseteq R
      /\ \A x \in R : x \in B <=> x \in {s} \/ h[x].parent \in B
      /\ h[s].parent \notin B
  BY BelowStep
<1> HIDE DEF B
<1>1. f \in Injection(B, Nodes \ R)
  BY DEF B
<1>2. f \in [B -> Nodes \ R] /\ f \in Injection(B, Nodes) /\ \A a, b \in B : f[a] = f[b] => a = b
  BY <1>1 DEF Injection, IsInjective
<1>3. Range(f) = {f[m] : m \in B} /\ Range(f) \subseteq Nodes \ R
  BY <1>2 DEF Range
<1>4. CopyRight(h, s, f, B, g)
  BY <1>2, <1>r, CopyIs
<1> HIDE DEF g
<1>k. \A x \in R :
        /\ {h[x].parent, h[x].prev, h[x].next, h[x].children} \subseteq R \cup {Null}
        /\ h[x].children # Null =>
             h[h[x].children].parent = x /\ h[h[x].children].prev = Null
        /\ h[x].next # Null =>
             h[h[x].next].prev = x /\ h[h[x].next].parent = h[x].parent
        /\ h[x].prev # Null => h[h[x].prev].next = x
        /\ h[x].parent # Null /\ h[x].prev = Null => h[h[x].parent].children = x
        /\ h[x].parent = Null => h[x].prev = Null /\ h[x].next = Null
  BY DEF Forest, Linked
\* The pointers below s, other than those of s to outside, stay there and miss s.
<1>5. ASSUME NEW m \in B
      PROVE  /\ h[m].children # Null => h[m].children \in B \ {s}
             /\ m # s => /\ h[m].parent \in B
                         /\ h[m].next # Null => h[m].next \in B \ {s}
                         /\ h[m].prev # Null => h[m].prev \in B \ {s}
  <2>1. m \in R
    BY <1>b
  <2>2. h[m].children # Null => h[m].children \in B \ {s}
    BY <2>1, <1>b, <1>k
  <2>3. m # s => h[m].parent \in B
    BY <2>1, <1>b
  <2>4. m # s /\ h[m].next # Null => h[m].next \in B \ {s}
    <3> SUFFICES ASSUME m # s, h[m].next # Null PROVE h[m].next \in B \ {s}
      OBVIOUS
    <3>1. h[m].next \in R /\ h[h[m].next].parent = h[m].parent
      BY <2>1, <1>k
    <3> QED
      BY <3>1, <2>3, <1>b
  <2>5. m # s /\ h[m].prev # Null => h[m].prev \in B \ {s}
    <3> SUFFICES ASSUME m # s, h[m].prev # Null PROVE h[m].prev \in B \ {s}
      OBVIOUS
    <3>1. h[m].prev \in R /\ h[h[m].prev].next = m /\ m # Null
      BY <2>1, <1>k, <1>r
    <3>2. h[h[m].prev].parent = h[m].parent
      BY <3>1, <1>k
    <3> QED
      BY <3>1, <3>2, <2>3, <1>b
  <2> QED
    BY <2>2, <2>3, <2>4, <2>5
<1>6. /\ \A x \in R : g[x] = h[x]
      /\ \A m \in B :
           /\ f[m] \in Range(f) /\ f[m] # Null /\ f[m] \in Nodes
           /\ g[f[m]].parent = IF m = s THEN Null ELSE f[h[m].parent]
           /\ g[f[m]].prev = IF m = s THEN Null ELSE Image(f, h[m].prev)
           /\ g[f[m]].next = IF m = s THEN Null ELSE Image(f, h[m].next)
           /\ g[f[m]].children = Image(f, h[m].children)
  <2>1. \A m \in B : m # s => h[m].parent # Null
    BY <1>5, <1>b, <1>r
  <2>2. \A x \in R : x \in Nodes \ Range(f)
    BY <1>3, <1>r
  <2>3. ASSUME NEW m \in B
        PROVE  /\ f[m] \in Range(f) /\ f[m] # Null /\ f[m] \in Nodes
               /\ g[f[m]].parent = IF m = s THEN Null ELSE Image(f, h[m].parent)
               /\ g[f[m]].prev = IF m = s THEN Null ELSE Image(f, h[m].prev)
               /\ g[f[m]].next = IF m = s THEN Null ELSE Image(f, h[m].next)
               /\ g[f[m]].children = Image(f, h[m].children)
    <3>1. g[f[m]] = [ref      |-> 1,
                     parent   |-> IF m = s THEN Null ELSE Image(f, h[m].parent),
                     prev     |-> IF m = s THEN Null ELSE Image(f, h[m].prev),
                     next     |-> IF m = s THEN Null ELSE Image(f, h[m].next),
                     children |-> Image(f, h[m].children)]
      BY <1>4 DEF CopyRight
    <3>2. f[m] \in Range(f)
      BY <1>3
    <3> QED
      BY <3>1, <3>2, <1>3, NullIsNoNode
  <2>4. \A x \in R : g[x] = h[x]
    BY <2>2, <1>4 DEF CopyRight
  <2>5. \A m \in B : m # s => Image(f, h[m].parent) = f[h[m].parent]
    BY <2>1 DEF Image
  <2> QED
    BY <2>3, <2>4, <2>5
<1>7. \A m \in B :
        /\ Image(f, h[m].children) \in Range(f) \cup {Null}
        /\ m # s => /\ f[h[m].parent] \in Range(f)
                    /\ Image(f, h[m].prev) \in Range(f) \cup {Null}
                    /\ Image(f, h[m].next) \in Range(f) \cup {Null}
  BY <1>5, <1>6 DEF Image
<1>8. g \in [Nodes -> NodeType]
  <2>1. ASSUME NEW x \in Nodes PROVE g[x] \in NodeType
    <3>1. CASE x \in Range(f)
      <4>1. PICK m \in B : x = f[m]
        BY <3>1, <1>3
      <4>2. g[x] = [ref      |-> 1,
                    parent   |-> IF m = s THEN Null ELSE Image(f, h[m].parent),
                    prev     |-> IF m = s THEN Null ELSE Image(f, h[m].prev),
                    next     |-> IF m = s THEN Null ELSE Image(f, h[m].next),
                    children |-> Image(f, h[m].children)]
        BY <4>1, <1>4 DEF CopyRight
      <4>3. /\ Image(f, h[m].children) \in Nodes \cup {Null}
            /\ m # s => /\ Image(f, h[m].parent) \in Nodes \cup {Null}
                        /\ Image(f, h[m].prev) \in Nodes \cup {Null}
                        /\ Image(f, h[m].next) \in Nodes \cup {Null}
        BY <1>3, <1>7 DEF Image
      <4> QED
        BY <4>2, <4>3 DEF NodeType
    <3>2. CASE x \notin Range(f)
      BY <3>2, <1>4, <1>r DEF CopyRight
    <3> QED
      BY <3>1, <3>2
  <2> QED
    BY <2>1, <1>4 DEF CopyRight
<1>9. Linked(g, Q)
  <2> SUFFICES ASSUME NEW x \in Q
               PROVE  /\ {g[x].parent, g[x].prev, g[x].next, g[x].children} \subseteq Q \cup {Null}
                      /\ g[x].children # Null =>
                           g[g[x].children].parent = x /\ g[g[x].children].prev = Null
                      /\ g[x].next # Null =>
                           g[g[x].next].prev = x /\ g[g[x].next].parent = g[x].parent
                      /\ g[x].prev # Null => g[g[x].prev].next = x
                      /\ g[x].parent # Null /\ g[x].prev = Null => g[g[x].parent].children = x
                      /\ g[x].parent = Null => g[x].prev = Null /\ g[x].next = Null
    BY DEF Linked
  <2>1. CASE x \in R
    BY <2>1, <1>6, <1>k
  <2>2. CASE x \notin R
    <3>1. PICK m \in B : x = f[m]
      BY <2>2, <1>3
    <3>2. {g[x].parent, g[x].prev, g[x].next, g[x].children} \subseteq Q \cup {Null}
      BY <3>1, <1>6, <1>7
    <3>3. g[x].children # Null =>
            g[g[x].children].parent = x /\ g[g[x].children].prev = Null
      <4> SUFFICES ASSUME g[x].children # Null
                   PROVE  g[g[x].children].parent = x /\ g[g[x].children].prev = Null
        OBVIOUS
      <4>1. h[m].children # Null /\ g[x].children = f[h[m].children]
        BY <3>1, <1>6 DEF Image
      <4>2. h[m].children \in B \ {s} /\ h[h[m].children].parent = m /\ h[h[m].children].prev = Null
        BY <4>1, <1>5, <1>b, <1>k
      <4> QED
        BY <3>1, <4>1, <4>2, <1>6 DEF Image
    <3>4. g[x].next # Null =>
            g[g[x].next].prev = x /\ g[g[x].next].parent = g[x].parent
      <4> SUFFICES ASSUME g[x].next # Null
                   PROVE  g[g[x].next].prev = x /\ g[g[x].next].parent = g[x].parent
        OBVIOUS
      <4>1. m # s /\ h[m].next # Null /\ g[x].next = f[h[m].next]
        BY <3>1, <1>6 DEF Image
      <4>2. /\ h[m].next \in B \ {s} /\ h[h[m].next].prev = m
            /\ h[h[m].next].parent = h[m].parent /\ m # Null
        BY <4>1, <1>5, <1>b, <1>k, <1>r
      <4> QED
        BY <3>1, <4>1, <4>2, <1>6 DEF Image
    <3>5. g[x].prev # Null => g[g[x].prev].next = x
      <4> SUFFICES ASSUME g[x].prev # Null PROVE g[g[x].prev].next = x
        OBVIOUS
      <4>1. m # s /\ h[m].prev # Null /\ g[x].prev = f[h[m].prev]
        BY <3>1, <1>6 DEF Image
      <4>2. h[m].prev \in B \ {s} /\ h[h[m].prev].next = m /\ m # Null
        BY <4>1, <1>5, <1>b, <1>k, <1>r
      <4> QED
        BY <3>1, <4>1, <4>2, <1>6 DEF Image
    <3>6. g[x].parent # Null /\ g[x].prev = Null => g[g[x].parent].children = x
      <4> SUFFICES ASSUME g[x].parent # Null, g[x].prev = Null PROVE g[g[x].parent].children = x
        OBVIOUS
      <4>1. m # s /\ g[x].parent = f[h[m].parent] /\ h[m].parent \in B
        BY <3>1, <1>5, <1>6
      <4>2. h[m].prev = Null
        BY <3>1, <4>1, <1>5, <1>6 DEF Image
      <4>3. h[h[m].parent].children = m /\ m # Null
        BY <4>1, <4>2, <1>b, <1>k, <1>r
      <4> QED
        BY <3>1, <4>1, <4>3, <1>6 DEF Image
    <3>7. g[x].parent = Null => g[x].prev = Null /\ g[x].next = Null
      BY <3>1, <1>5, <1>6
    <3> QED
      BY <3>2, <3>3, <3>4, <3>5, <3>6, <3>7
  <2> QED
    BY <2>1, <2>2
<1>q. /\ Ends(Parents(h), R) /\ Ends(Nexts(h), R) /\ Ends(Prevs(h), R)
      /\ Inside(Parents(h), R) /\ Inside(Nexts(h), R) /\ Inside(Prevs(h), R)
      /\ \A x \in R : /\ Parents(h)[x] = h[x].parent /\ Nexts(h)[x] = h[x].next
                      /\ Prevs(h)[x] = h[x].prev
  BY PointersAre
<1> DEFINE Mirrors(q, p) ==
             /\ Ends(p, R) /\ Inside(p, R) /\ \A x \in R : q[x] = p[x]
             /\ \A m \in B : q[f[m]] = Null \/ (p[m] \in B /\ q[f[m]] = f[p[m]])
<1>10. ASSUME NEW p, NEW q, Mirrors(q, p)
       PROVE  Ends(q, Q)
  <2> SUFFICES ASSUME NEW S \in SUBSET Q, S # {} PROVE \E x \in S : q[x] \notin S
    BY DEF Ends
  <2>n. Null \notin S
    BY <1>3, <1>r, NullIsNoNode
  <2>1. CASE S \cap R # {}
    <3>1. PICK x \in S \cap R : p[x] \notin S \cap R
      BY <2>1, <1>10 DEF Ends
    <3> QED
      BY <3>1, <2>n, <1>10 DEF Inside
  <2>2. CASE S \cap R = {}
    <3> DEFINE T == {m \in B : f[m] \in S}
    <3>1. T \in SUBSET R /\ T # {}
      BY <2>2, <1>3, <1>b
    <3>2. PICK m \in T : p[m] \notin T
      BY <3>1, <1>10 DEF Ends
    <3> QED
      BY <3>2, <2>n, <1>10
  <2> QED
    BY <2>1, <2>2
<1>p. \A x \in Nodes : /\ Parents(g)[x] = g[x].parent /\ Nexts(g)[x] = g[x].next
                       /\ Prevs(g)[x] = g[x].prev
  BY DEF Parents, Nexts, Prevs
<1>11. \A x \in R : /\ Parents(g)[x] = Parents(h)[x] /\ Nexts(g)[x] = Nexts(h)[x]
                    /\ Prevs(g)[x] = Prevs(h)[x]
  BY <1>p, <1>q, <1>6, <1>r
<1>12. \A m \in B :
         /\ Parents(g)[f[m]] = Null
            \/ (Parents(h)[m] \in B /\ Parents(g)[f[m]] = f[Parents(h)[m]])
         /\ Nexts(g)[f[m]] = Null
            \/ (Nexts(h)[m] \in B /\ Nexts(g)[f[m]] = f[Nexts(h)[m]])
         /\ Prevs(g)[f[m]] = Null
            \/ (Prevs(h)[m] \in B /\ Prevs(g)[f[m]] = f[Prevs(h)[m]])
  <2>1. \A m \in B : /\ Parents(h)[m] = h[m].parent /\ Nexts(h)[m] = h[m].next
                     /\ Prevs(h)[m] = h[m].prev
    BY <1>b, <1>q
  <2> QED
    BY <2>1, <1>p, <1>5, <1>6 DEF Image
<1>13. /\ Mirrors(Parents(g), Parents(h)) /\ Mirrors(Nexts(g), Nexts(h))
       /\ Mirrors(Prevs(g), Prevs(h))
  BY <1>11, <1>12, <1>q
<1> HIDE DEF Mirrors, Q
<1>14. Ends(Parents(g), Q)
  BY <1>10, <1>13
<1>15. Ends(Nexts(g), Q) /\ Ends(Prevs(g), Q)
  BY <1>10, <1>13
<1> USE DEF Q
<1>16. Forest(g, Q)
  BY <1>3, <1>8, <1>9, <1>14, <1>15, <1>r DEF Forest, Grounded
<1> QED
  BY <1>3, <1>4, <1>16 DEF g, B

-----------------------------------------------------------------------------
(* What an operation leaves alone.                                          *)

\* Nodes that keep their parents keep what is above them.
SamePath(g, h, x) ==
  Up(g, x) = Up(h, x) /\ Root(g, x) = Root(h, x) /\ Level(g, x) = Level(h, x)

LEMMA PathFrame ==
  ASSUME NEW h, NEW R, Forest(h, R), NEW g, NEW Q, Forest(g, Q), NEW C \in SUBSET (R \cap Q),
         \A x \in C : g[x].parent = h[x].parent /\ h[x].parent \in C \cup {Null}
  PROVE  \A x \in C : SamePath(g, h, x)
<1> DEFINE p == Parents(h)
           G == {x \in C : SamePath(g, h, x)}
<1>1. /\ R \in SUBSET Nodes /\ Null \notin R /\ Ends(p, R)
      /\ \A x \in R : p[x] = h[x].parent
  BY PointersAre
<1> HIDE DEF p
<1>2. Inside(p, C) /\ Ends(p, C)
  BY <1>1 DEF Inside, Ends
<1>3. ASSUME NEW x \in C, p[x] \in G \cup {Null} PROVE x \in G
  <2>1. x \in R /\ x \in Q /\ p[x] = h[x].parent /\ g[x].parent = h[x].parent
    BY <1>1
  <2>2. /\ Up(h, x) = {x} \cup (IF h[x].parent = Null THEN {} ELSE Up(h, h[x].parent))
        /\ Root(h, x) = IF h[x].parent = Null THEN x ELSE Root(h, h[x].parent)
        /\ Level(h, x) = 1 + (IF h[x].parent = Null THEN 0 ELSE Level(h, h[x].parent))
    BY <2>1, PathIs
  <2>3. /\ Up(g, x) = {x} \cup (IF g[x].parent = Null THEN {} ELSE Up(g, g[x].parent))
        /\ Root(g, x) = IF g[x].parent = Null THEN x ELSE Root(g, g[x].parent)
        /\ Level(g, x) = 1 + (IF g[x].parent = Null THEN 0 ELSE Level(g, g[x].parent))
    BY <2>1, PathIs
  <2>4. CASE p[x] = Null
    BY <2>1, <2>2, <2>3, <2>4 DEF SamePath
  <2>5. CASE p[x] # Null
    <3>1. SamePath(g, h, p[x])
      BY <1>3, <2>5
    <3> QED
      BY <2>1, <2>2, <2>3, <2>5, <3>1 DEF SamePath
  <2> QED
    BY <2>4, <2>5
<1> HIDE DEF G
<1>4. C \subseteq G
  BY <1>2, <1>3, Backwards
<1> QED
  BY <1>4 DEF G

\* Another count.
LEMMA Recounted ==
  ASSUME NEW h, NEW R, Forest(h, R), NEW n \in Nodes, NEW k \in Nat
  PROVE  /\ Forest([h EXCEPT ![n].ref = k], R)
         /\ \A x \in R : SamePath([h EXCEPT ![n].ref = k], h, x)
         /\ \A x \in Nodes : /\ [h EXCEPT ![n].ref = k][x].ref = IF x = n THEN k ELSE h[x].ref
                             /\ SamePointers([h EXCEPT ![n].ref = k], h, x)
<1> DEFINE g == [h EXCEPT ![n].ref = k]
<1>r. R \in SUBSET Nodes /\ h \in [Nodes -> NodeType]
  BY DEF Forest
<1>1. \A x \in Nodes : /\ g[x].ref = IF x = n THEN k ELSE h[x].ref
                       /\ SamePointers(g, h, x)
  BY <1>r DEF NodeType, SamePointers
<1>2. g \in [Nodes -> NodeType]
  BY <1>r DEF NodeType
<1> HIDE DEF g
<1>3. Forest(g, R)
  BY <1>1, <1>2, <1>r, SameForest
<1>4. \A x \in R : g[x].parent = h[x].parent /\ h[x].parent \in R \cup {Null}
  BY <1>1, <1>r DEF SamePointers, Forest, Linked
<1>5. \A x \in R : SamePath(g, h, x)
  <2>1. R \in SUBSET (R \cap R)
    OBVIOUS
  <2> QED
    BY <1>3, <1>4, <2>1, PathFrame
<1> QED
  BY <1>1, <1>3, <1>5 DEF g

\* A tree is gone.
LEMMA TreeGone ==
  ASSUME NEW h, NEW R, Forest(h, R), NEW r \in R, h[r].parent = Null,
         NEW g \in [Nodes -> NodeType], \A x \in R \ Below(h, {r}) : g[x] = h[x]
  PROVE  /\ Forest(g, R \ Below(h, {r}))
         /\ \A x \in R \ Below(h, {r}) : SamePath(g, h, x)
<1> DEFINE B == Below(h, {r})
           Q == R \ B
<1>1. Forest(g, Q)
  BY RemoveForest
<1>2. \A x \in Q : g[x] = h[x]
  OBVIOUS
<1> HIDE DEF B, Q
<1>3. \A x \in Q : g[x].parent \in Q \cup {Null}
  BY <1>1 DEF Forest, Linked
<1>4. Q \in SUBSET (R \cap Q)
  BY DEF Q
<1>5. \A x \in Q : SamePath(g, h, x)
  BY <1>1, <1>2, <1>3, <1>4, PathFrame
<1> QED
  BY <1>1, <1>5 DEF Q, B

\* A new node.
Alone(g, h, R, c) ==
  /\ Forest(g, R \cup {c})
  /\ g[c].ref = 1 /\ g[c].parent = Null
  /\ \A x \in Nodes \ {c} : g[x] = h[x]
  /\ \A x \in R : SamePath(g, h, x)
  /\ Root(g, c) = c /\ Level(g, c) = 1
  /\ Below(g, {c}) = {c}

LEMMA NewAlone ==
  ASSUME NEW h, NEW R, Forest(h, R), NEW c \in Nodes \ R
  PROVE  Alone(xmpp_stanza_new(h, c), h, R, c)
<1> DEFINE g == xmpp_stanza_new(h, c)
           Q == R \cup {c}
           B == Below(g, {c})
<1>r. R \in SUBSET Nodes /\ Null \notin R /\ h \in [Nodes -> NodeType]
  BY PointersAre DEF Forest
<1>1. Forest(g, Q)
  BY NewForest
<1>2. g[c] = [ref |-> 1, parent |-> Null, prev |-> Null, next |-> Null, children |-> Null]
  BY <1>r DEF xmpp_stanza_new, Blank
<1>3. \A x \in Nodes \ {c} : g[x] = h[x]
  BY <1>r DEF xmpp_stanza_new
<1> HIDE DEF g
<1>4. \A x \in R : g[x].parent = h[x].parent /\ h[x].parent \in R \cup {Null}
  <2>1. \A x \in R : x \in Nodes \ {c}
    BY <1>r
  <2>2. \A x \in R : g[x] = h[x]
    BY <1>3, <2>1
  <2>3. \A x \in R : h[x].parent \in R \cup {Null}
    BY DEF Forest, Linked
  <2> QED
    BY <2>2, <2>3
<1>5. \A x \in R : SamePath(g, h, x)
  <2>1. R \in SUBSET (R \cap Q)
    OBVIOUS
  <2> HIDE DEF Q
  <2> QED
    BY <1>1, <1>4, <2>1, PathFrame
<1>6. Root(g, c) = c /\ Level(g, c) = 1
  <2>1. c \in Q /\ g[c].parent = Null
    BY <1>2
  <2> HIDE DEF Q
  <2>2. /\ Root(g, c) = IF g[c].parent = Null THEN c ELSE Root(g, g[c].parent)
        /\ Level(g, c) = 1 + (IF g[c].parent = Null THEN 0 ELSE Level(g, g[c].parent))
    BY <1>1, <2>1, PathIs
  <2> QED
    BY <2>1, <2>2
<1>7. B = {c}
  <2>1. /\ c \in B /\ B \subseteq Q
        /\ \A x \in Q : x \in B <=> x \in {c} \/ g[x].parent \in B
    <3>1. {c} \in SUBSET Q
      OBVIOUS
    <3> HIDE DEF Q
    <3> QED
      BY <1>1, <3>1, BelowStep
  <2> DEFINE G == {x \in Q : x \in B => x = c}
  <2>2. ASSUME NEW x \in Q, g[x].parent \in G \cup {Null} PROVE x \in G
    <3>1. x # c => g[x].parent \in R \cup {Null}
      BY <1>4
    <3>2. Null \notin B
      BY <2>1, <1>r, NullIsNoNode
    <3> HIDE DEF B
    <3> QED
      BY <2>1, <2>2, <3>1, <3>2
  <2> HIDE DEF G, B, Q
  <2>3. Q \subseteq G
    BY <1>1, <2>2, Downwards
  <2> QED
    BY <2>1, <2>3 DEF G
<1>8. g[c].ref = 1 /\ g[c].parent = Null
  BY <1>2
<1>9. /\ Forest(g, Q) /\ g[c].ref = 1 /\ g[c].parent = Null
      /\ \A x \in Nodes \ {c} : g[x] = h[x]
      /\ \A x \in R : SamePath(g, h, x)
      /\ Root(g, c) = c /\ Level(g, c) = 1
      /\ B = {c}
  BY <1>1, <1>3, <1>5, <1>6, <1>7, <1>8
<1> HIDE DEF B, Q
<1> QED
  BY <1>9 DEF g, B, Q, Alone

\* A root that becomes a child.
AttachedTo(g, h, R, p, c) ==
  /\ Forest(g, R)
  /\ \A x \in Nodes : /\ g[x].ref = IF x = c THEN h[x].ref + 1 ELSE h[x].ref
                      /\ g[x].parent = IF x = c THEN p ELSE h[x].parent
  /\ \A x \in R \ Below(h, {c}) : SamePath(g, h, x)
  /\ \A x \in Below(h, {c}) : Root(g, x) = Root(h, p)
  /\ Level(g, c) = 1 + Level(h, p)

LEMMA Attached ==
  ASSUME NEW h, NEW R, Forest(h, R), NEW p \in R, NEW c \in R,
         h[c].parent = Null, p \notin Below(h, {c})
  PROVE  AttachedTo(xmpp_stanza_add_child(h, p, c), h, R, p, c)
<1> DEFINE g == xmpp_stanza_add_child(h, p, c)
           B == Below(h, {c})
<1>r. R \in SUBSET Nodes /\ Null \notin R /\ h \in [Nodes -> NodeType]
  BY PointersAre DEF Forest
<1>b. /\ c \in B /\ B \subseteq R
      /\ \A x \in R : x \in B <=> x \in {c} \/ h[x].parent \in B
  BY BelowStep
<1>1. p # c /\ p \notin B
  BY <1>b
<1>2. PICK l : IsLastChild(h, R, p, l) /\ g = Added(h, p, c, l)
  BY <1>1, AddIs
<1>3. Forest(g, R)
  BY <1>2, AddForest
<1>4. \A x \in Nodes : /\ g[x].ref = h[x].ref + (IF x = c THEN 1 ELSE 0)
                       /\ g[x].parent = IF x = c THEN p ELSE h[x].parent
  BY <1>2 DEF Added
<1>5. \A x \in Nodes : h[x].ref \in Nat
  BY <1>r DEF NodeType
<1>6. \A x \in Nodes : g[x].ref = IF x = c THEN h[x].ref + 1 ELSE h[x].ref
  BY <1>4, <1>5
<1> HIDE DEF g, B
<1>7. \A x \in R \ B : SamePath(g, h, x)
  <2>1. \A x \in R \ B : g[x].parent = h[x].parent /\ h[x].parent \in (R \ B) \cup {Null}
    <3>1. \A x \in R : h[x].parent \in R \cup {Null}
      BY DEF Forest, Linked
    <3> QED
      BY <3>1, <1>b, <1>r, <1>4
  <2>2. R \ B \in SUBSET (R \cap R)
    OBVIOUS
  <2> QED
    BY <1>3, <2>1, <2>2, PathFrame
<1>8. /\ Root(g, c) = Root(g, p) /\ Level(g, c) = 1 + Level(g, p)
      /\ Root(g, p) = Root(h, p) /\ Level(g, p) = Level(h, p)
  <2>1. g[c].parent = p /\ p # Null
    BY <1>4, <1>r
  <2>2. /\ Root(g, c) = IF g[c].parent = Null THEN c ELSE Root(g, g[c].parent)
        /\ Level(g, c) = 1 + (IF g[c].parent = Null THEN 0 ELSE Level(g, g[c].parent))
    BY <1>3, PathIs
  <2> QED
    BY <2>1, <2>2, <1>1, <1>7 DEF SamePath
<1>9. \A x \in B : Root(g, x) = Root(h, p)
  <2> DEFINE G == {x \in R : x \in B => Root(g, x) = Root(h, p)}
  <2>1. ASSUME NEW x \in R, h[x].parent \in G \cup {Null} PROVE x \in G
    <3> SUFFICES ASSUME x \in B PROVE Root(g, x) = Root(h, p)
      OBVIOUS
    <3>1. CASE x = c
      BY <3>1, <1>8
    <3>2. CASE x # c
      <4>1. h[x].parent \in B /\ h[x].parent # Null /\ g[x].parent = h[x].parent
        BY <3>2, <1>b, <1>r, <1>4
      <4>2. Root(g, h[x].parent) = Root(h, p)
        BY <4>1, <2>1
      <4>3. Root(g, x) = IF g[x].parent = Null THEN x ELSE Root(g, g[x].parent)
        BY <1>3, PathIs
      <4> QED
        BY <4>1, <4>2, <4>3
    <3> QED
      BY <3>1, <3>2
  <2> HIDE DEF G
  <2>2. R \subseteq G
    BY <2>1, Downwards
  <2> QED
    BY <2>2, <1>b DEF G
<1>10. AttachedTo(g, h, R, p, c)
  BY <1>3, <1>4, <1>6, <1>7, <1>8, <1>9 DEF AttachedTo, B
<1> QED
  BY <1>10 DEF g

\* A new last child of s.
GrownTo(g, h, R, s, c) ==
  /\ Forest(g, R \cup {c})
  /\ g[c].ref = 1 /\ g[c].parent = s
  /\ \A x \in Nodes \ {c} : g[x].ref = h[x].ref
  /\ \A x \in R : g[x].parent = h[x].parent /\ SamePath(g, h, x)
  /\ Root(g, c) = Root(h, s) /\ Level(g, c) = 1 + Level(h, s)

LEMMA Grown ==
  ASSUME NEW h, NEW R, Forest(h, R), NEW s \in R, NEW c \in Nodes \ R
  PROVE  GrownTo(xmpp_stanza_release(xmpp_stanza_add_child(xmpp_stanza_new(h, c), s, c), c),
                 h, R, s, c)
<1> DEFINE h1 == xmpp_stanza_new(h, c)
           h2 == xmpp_stanza_add_child(h1, s, c)
           h3 == xmpp_stanza_release(h2, c)
           Q == R \cup {c}
<1>1. Alone(h1, h, R, c)
  BY NewAlone
<1> HIDE DEF h1
<1>r. R \in SUBSET Nodes /\ s \in Nodes /\ s # c /\ s \in Q /\ c \in Q
  BY DEF Forest
<1> HIDE DEF Q
<1>2. /\ Forest(h1, Q) /\ h1[c].parent = Null /\ h1[c].ref = 1
      /\ s \notin Below(h1, {c}) /\ Below(h1, {c}) = {c}
      /\ \A x \in R : SamePath(h1, h, x)
      /\ \A x \in Nodes \ {c} : h1[x] = h[x]
  BY <1>1, <1>r DEF Alone, Q
<1>3. AttachedTo(h2, h1, Q, s, c)
  BY <1>r, <1>2, Attached
<1> HIDE DEF h2
<1>4. /\ Forest(h2, Q)
      /\ \A x \in Nodes : /\ h2[x].ref = IF x = c THEN h1[x].ref + 1 ELSE h1[x].ref
                          /\ h2[x].parent = IF x = c THEN s ELSE h1[x].parent
      /\ \A x \in Q \ {c} : SamePath(h2, h1, x)
      /\ Root(h2, c) = Root(h1, s)
      /\ Level(h2, c) = 1 + Level(h1, s)
  BY <1>3, <1>2 DEF AttachedTo
<1>5. h2[c].ref = 2 /\ h2 \in [Nodes -> NodeType]
  BY <1>2, <1>4 DEF Forest
<1>6. h3 = [h2 EXCEPT ![c].ref = @ - 1]
  BY <1>5, ReleaseKeeps
<1>7. h3 = [h2 EXCEPT ![c].ref = 1]
  BY <1>5, <1>6
<1> HIDE DEF h3
<1>8. /\ Forest(h3, Q)
      /\ \A x \in Q : SamePath(h3, h2, x)
      /\ \A x \in Nodes : /\ h3[x].ref = IF x = c THEN 1 ELSE h2[x].ref
                          /\ SamePointers(h3, h2, x)
  <2>1. /\ Forest([h2 EXCEPT ![c].ref = 1], Q)
        /\ \A x \in Q : SamePath([h2 EXCEPT ![c].ref = 1], h2, x)
        /\ \A x \in Nodes : /\ [h2 EXCEPT ![c].ref = 1][x].ref = IF x = c THEN 1 ELSE h2[x].ref
                            /\ SamePointers([h2 EXCEPT ![c].ref = 1], h2, x)
    BY <1>4, Recounted
  <2> QED
    BY <2>1, <1>7
<1>9. h3[c].ref = 1 /\ h3[c].parent = s
  BY <1>4, <1>8 DEF SamePointers
<1>10. \A x \in Nodes \ {c} : h3[x].ref = h[x].ref
  BY <1>2, <1>4, <1>8
<1>11. \A x \in R : h3[x].parent = h[x].parent
  BY <1>2, <1>4, <1>8, <1>r DEF SamePointers
<1>12. \A x \in R : SamePath(h3, h, x)
  BY <1>2, <1>4, <1>8 DEF SamePath, Q
<1>13. Root(h3, c) = Root(h, s) /\ Level(h3, c) = 1 + Level(h, s)
  BY <1>2, <1>4, <1>8, <1>r DEF SamePath
<1>14. GrownTo(h3, h, R, s, c)
  BY <1>8, <1>9, <1>10, <1>11, <1>12, <1>13 DEF GrownTo, Q
<1> QED
  BY <1>14 DEF h1, h2, h3

-----------------------------------------------------------------------------
(* The inductive invariant.                                                 *)

\* The nodes that have an owner.
Owned == Live(node) \ lost

One(condition) == IF condition THEN 1 ELSE 0

\* The count of a node: the program, the parser and the parent.
CountsRight ==
  \A x \in Owned :
    node[x].ref = One(x \in held) + One(x = ParserStanza) + One(node[x].parent # Null)

\* What the program holds is in a tree that it holds.
RootsHeld == \A x \in held : Root(node, x) \in held

\* The stanza of the parser is in a tree of the parser until it is handed to the program,
\* which can put it into a tree that it holds.
ParserRight ==
  IF stanza = Null THEN depth < 2
  ELSE IF calling
       THEN depth = 1 /\ (Root(node, stanza) # stanza => Root(node, stanza) \in held)
       ELSE Level(node, stanza) = depth - 1 /\ Root(node, stanza) \notin held

ScalarsOK ==
  /\ depth \in 0 .. MaxDepth
  /\ reset \in BOOLEAN /\ ended \in BOOLEAN /\ calling \in BOOLEAN
  /\ calling => stanza # Null

StanzaInv ==
  /\ ScalarsOK
  /\ lost \subseteq Live(node)
  /\ held \subseteq Owned /\ stanza \in Owned \cup {Null}
  /\ Forest(node, Owned)
  /\ CountsRight /\ RootsHeld /\ ParserRight

LEMMA OwnedIs ==
  ASSUME StanzaInv
  PROVE  /\ node \in [Nodes -> NodeType] /\ Owned \in SUBSET Nodes /\ Null \notin Owned
         /\ \A x : x \in Owned <=> x \in Nodes /\ node[x].ref # 0 /\ x \notin lost
         /\ \A x \in Nodes : node[x].ref \in Nat
         /\ \A x \in Free(node) : x \in Nodes \ Owned /\ x \notin lost /\ node[x].ref = 0
         /\ \A x \in Owned : node[x].parent \in Owned \cup {Null}
<1>1. Forest(node, Owned) /\ lost \subseteq Live(node)
  BY DEF StanzaInv
<1>2. node \in [Nodes -> NodeType] /\ Owned \in SUBSET Nodes
  BY <1>1 DEF Forest
<1>3. \A x \in Nodes : node[x].ref \in Nat
  BY <1>2 DEF NodeType
<1>4. \A x \in Owned : node[x].parent \in Owned \cup {Null}
  BY <1>1 DEF Forest, Linked
<1> QED
  BY <1>1, <1>2, <1>3, <1>4, NullIsNoNode DEF Owned, Live, Free

\* The stanza of the parser is the root of its own tree, or the one that it delivers.
LEMMA ParserStanzaIs ==
  ASSUME StanzaInv
  PROVE  /\ stanza = Null => ParserStanza = Null
         /\ stanza # Null => /\ stanza \in Owned /\ ParserStanza \in Owned
                             /\ Level(node, stanza) \in Nat /\ Level(node, stanza) > 0
         /\ calling => ParserStanza = stanza
         /\ stanza # Null /\ ~ calling =>
              /\ ParserStanza = Root(node, stanza)
              /\ node[ParserStanza].parent = Null
              /\ ParserStanza \notin held
              /\ Level(node, stanza) = depth - 1
<1>1. /\ Forest(node, Owned) /\ stanza \in Owned \cup {Null} /\ ParserRight
      /\ calling \in BOOLEAN /\ depth \in 0 .. MaxDepth
  BY DEF StanzaInv, ScalarsOK
<1>2. CASE stanza = Null
  BY <1>2, <1>1 DEF ParserStanza, StanzaInv, ScalarsOK
<1>3. CASE stanza # Null
  <2>1. stanza \in Owned
    BY <1>1, <1>3
  <2>2. /\ Root(node, stanza) \in Owned /\ node[Root(node, stanza)].parent = Null
        /\ Level(node, stanza) \in Nat
        /\ Level(node, stanza) =
             1 + (IF node[stanza].parent = Null THEN 0 ELSE Level(node, node[stanza].parent))
        /\ node[stanza].parent \in Owned \cup {Null}
    BY <1>1, <2>1, PathIs
  <2>3. node[stanza].parent # Null => Level(node, node[stanza].parent) \in Nat
    BY <1>1, <2>2, PathIs
  <2>4. Level(node, stanza) > 0
    BY <2>2, <2>3
  <2> QED
    BY <1>1, <1>3, <2>1, <2>2, <2>4 DEF ParserStanza, ParserRight
<1> QED
  BY <1>2, <1>3

LEMMA InvTypeOK ==
  ASSUME StanzaInv
  PROVE  TypeOK
BY OwnedIs DEF StanzaInv, ScalarsOK, TypeOK, Owned, Live, Free

LEMMA InitInv ==
  ASSUME Init
  PROVE  StanzaInv
<1>1. node = [n \in Nodes |-> Blank] /\ held = {} /\ stanza = Null /\ lost = {} /\ depth = 0
  BY DEF Init
<1>2. Owned = {}
  BY <1>1 DEF Owned, Live, Free, Blank
<1>3. node \in [Nodes -> NodeType]
  BY <1>1 DEF Blank, NodeType
<1>4. Forest(node, Owned)
  BY <1>2, <1>3 DEF Forest, Linked, Grounded, Ends
<1>5. ScalarsOK
  <2>1. reset = TRUE /\ ended = TRUE /\ calling = FALSE
    BY DEF Init
  <2>2. 0 \in 0 .. MaxDepth
    BY MaxDepthAssumption
  <2> QED
    BY <1>1, <2>1, <2>2 DEF ScalarsOK
<1> QED
  BY <1>1, <1>2, <1>4, <1>5 DEF StanzaInv, CountsRight, RootsHeld, ParserRight

-----------------------------------------------------------------------------
(* The steps of the parser.                                                 *)

\* The heap and its owners are left alone.
LEMMA HeapKept ==
  ASSUME StanzaInv, UNCHANGED <<node, held, lost>>
  PROVE  /\ Owned' = Owned /\ Forest(node', Owned') /\ RootsHeld'
         /\ (lost \subseteq Live(node))' /\ (held \subseteq Owned)'
         /\ (ParserStanza' = ParserStanza => CountsRight')
<1>1. node' = node /\ held' = held /\ lost' = lost
  OBVIOUS
<1>2. Owned' = Owned
  BY <1>1 DEF Owned, Live, Free
<1>3. Forest(node', Owned')
  BY <1>1, <1>2 DEF StanzaInv
<1>4. RootsHeld'
  BY <1>1 DEF StanzaInv, RootsHeld
<1>5. ParserStanza' = ParserStanza => CountsRight'
  BY <1>1, <1>2 DEF StanzaInv, CountsRight
<1>6. (lost \subseteq Live(node))'
  BY <1>1 DEF StanzaInv, Live, Free
<1> QED
  BY <1>1, <1>2, <1>3, <1>4, <1>5, <1>6 DEF StanzaInv

LEMMA ResetStep ==
  ASSUME StanzaInv, parser_reset
  PROVE  StanzaInv' /\ ParserStanza' = ParserStanza
<1>1. /\ node' = node /\ held' = held /\ lost' = lost /\ stanza' = stanza
      /\ calling' = calling /\ depth' = depth /\ ended' = ended /\ reset' = TRUE
  BY DEF parser_reset
<1>2. ParserStanza' = ParserStanza
  BY <1>1 DEF ParserStanza
<1>3. ParserRight'
  BY <1>1 DEF StanzaInv, ParserRight
<1>4. ScalarsOK'
  BY <1>1 DEF StanzaInv, ScalarsOK
<1>5. /\ Owned' = Owned /\ Forest(node', Owned') /\ RootsHeld'
      /\ (lost \subseteq Live(node))' /\ (held \subseteq Owned)' /\ CountsRight'
  BY <1>1, <1>2, HeapKept
<1> QED
  BY <1>1, <1>2, <1>3, <1>4, <1>5 DEF StanzaInv

LEMMA EndStep ==
  ASSUME StanzaInv, EndElement
  PROVE  StanzaInv' /\ ParserStanza' = ParserStanza
<1> DEFINE inner == depth > 1 /\ node[stanza].parent # Null
<1>1. /\ calling = FALSE /\ depth > 0 /\ depth' = depth - 1
      /\ ended' = (depth = 1)
      /\ calling' = (depth > 1 /\ ~ inner)
      /\ stanza' = (IF inner THEN node[stanza].parent ELSE stanza)
      /\ node' = node /\ held' = held /\ lost' = lost /\ reset' = reset
  BY DEF EndElement, Reading, StanzaInv, ScalarsOK
<1>2. /\ depth \in 0 .. MaxDepth /\ MaxDepth \in Nat /\ depth' \in 0 .. MaxDepth
      /\ ParserRight /\ stanza \in Owned \cup {Null} /\ Forest(node, Owned)
  BY <1>1, MaxDepthAssumption DEF StanzaInv, ScalarsOK
<1>b. reset' \in BOOLEAN /\ ended' \in BOOLEAN /\ calling' \in BOOLEAN
  BY <1>1 DEF StanzaInv, ScalarsOK
<1>h. /\ Owned' = Owned /\ Forest(node', Owned') /\ RootsHeld'
      /\ (lost \subseteq Live(node))' /\ (held \subseteq Owned)'
      /\ (ParserStanza' = ParserStanza => CountsRight')
  BY <1>1, HeapKept
<1>n. Null \notin Owned
  BY OwnedIs
<1> SUFFICES /\ ParserStanza' = ParserStanza /\ ParserRight'
             /\ stanza' \in Owned \cup {Null} /\ (calling' => stanza' # Null)
  BY <1>1, <1>2, <1>b, <1>h DEF StanzaInv, ScalarsOK
<1>3. CASE stanza = Null
  <2>1. depth < 2
    BY <1>2, <1>3 DEF ParserRight
  <2>2. ~ (depth > 1) /\ ~ inner
    BY <1>2, <2>1
  <2> HIDE DEF inner
  <2>3. stanza' = Null /\ ~ calling' /\ depth' < 2
    <3>1. stanza' = Null
      BY <1>1, <1>3, <2>2
    <3>2. ~ calling'
      BY <1>1, <2>2
    <3>3. depth' < 2
      BY <1>1, <1>2, <2>1
    <3> QED
      BY <3>1, <3>2, <3>3
  <2> QED
    BY <1>3, <2>3 DEF ParserStanza, ParserRight
<1>4. CASE stanza # Null
  <2>1. /\ stanza \in Owned /\ Level(node, stanza) \in Nat /\ Level(node, stanza) > 0
        /\ ParserStanza = Root(node, stanza)
        /\ Level(node, stanza) = depth - 1
        /\ ParserStanza \notin held
    BY <1>1, <1>4, ParserStanzaIs
  <2>2. depth > 1
    BY <1>2, <2>1
  <2>3. /\ Root(node, stanza) =
             IF node[stanza].parent = Null THEN stanza ELSE Root(node, node[stanza].parent)
        /\ Level(node, stanza) =
             1 + (IF node[stanza].parent = Null THEN 0 ELSE Level(node, node[stanza].parent))
        /\ node[stanza].parent \in Owned \cup {Null}
    BY <1>2, <2>1, PathIs
  <2>4. CASE node[stanza].parent # Null
    <3>1. stanza' = node[stanza].parent /\ calling' = FALSE /\ stanza' \in Owned /\ stanza' # Null
      BY <1>1, <1>n, <2>2, <2>3, <2>4
    <3>2. ParserStanza' = Root(node, stanza')
      BY <1>1, <3>1 DEF ParserStanza
    <3>3. Level(node, stanza') \in Nat
      BY <1>2, <3>1, PathIs
    <3>4. Root(node, stanza') = Root(node, stanza) /\ Level(node, stanza') = depth' - 1
      BY <1>1, <1>2, <2>1, <2>3, <2>4, <3>1, <3>3
    <3>5. ParserRight'
      BY <1>1, <2>1, <3>1, <3>4 DEF ParserRight
    <3> QED
      BY <2>1, <3>1, <3>2, <3>4, <3>5
  <2>5. CASE node[stanza].parent = Null
    <3>1. stanza' = stanza /\ calling' = TRUE
      BY <1>1, <2>2, <2>5
    <3>2. Root(node, stanza) = stanza /\ depth' = 1
      BY <1>1, <1>2, <2>1, <2>3, <2>5
    <3>3. ParserStanza' = ParserStanza
      BY <2>1, <3>1, <3>2 DEF ParserStanza
    <3>4. ParserRight'
      BY <1>1, <1>4, <3>1, <3>2 DEF ParserRight
    <3> QED
      BY <1>4, <2>1, <3>1, <3>3, <3>4
  <2> QED
    BY <2>4, <2>5
<1> QED
  BY <1>3, <1>4

\* The parser makes a stanza.
LEMMA OpenStep ==
  ASSUME StanzaInv, NEW c \in Free(node), stanza = Null, depth = 1, calling = FALSE,
         node' = xmpp_stanza_new(node, c), stanza' = c, depth' = 2, depth' \in 0 .. MaxDepth,
         UNCHANGED <<held, reset, ended, calling, lost>>
  PROVE  StanzaInv' /\ Owned' = Owned \cup {c} /\ ParserStanza = Null /\ ParserStanza' = c
<1>1. c \in Nodes \ Owned /\ c \notin lost /\ c # Null
  BY OwnedIs, NullIsNoNode
<1>2. Forest(node, Owned) /\ CountsRight /\ RootsHeld /\ held \subseteq Owned /\ lost \subseteq Live(node)
  BY DEF StanzaInv
<1>3. Alone(node', node, Owned, c)
  BY <1>1, <1>2, NewAlone
<1>4. /\ Forest(node', Owned \cup {c})
      /\ node'[c].ref = 1 /\ node'[c].parent = Null
      /\ \A x \in Nodes \ {c} : node'[x] = node[x]
      /\ \A x \in Owned : SamePath(node', node, x)
      /\ Root(node', c) = c /\ Level(node', c) = 1
  BY <1>3 DEF Alone
<1>5. held' = held /\ lost' = lost /\ calling' = calling /\ reset' = reset /\ ended' = ended
  OBVIOUS
<1>6. Owned' = Owned \cup {c} /\ lost' \subseteq Live(node')
  BY <1>1, <1>2, <1>4, <1>5 DEF Owned, Live, Free
<1>7. ParserStanza' = c /\ ParserStanza = Null
  BY <1>1, <1>4, <1>5 DEF ParserStanza
<1>8. CountsRight'
  <2>1. ASSUME NEW x \in Owned
        PROVE  node'[x].ref = One(x \in held) + One(x = c) + One(node'[x].parent # Null)
    <3>1. x # c /\ x # Null /\ node'[x] = node[x]
      BY <1>1, <1>4, OwnedIs
    <3>2. node[x].ref = One(x \in held) + One(x = ParserStanza) + One(node[x].parent # Null)
      BY <1>2 DEF CountsRight
    <3> QED
      BY <3>1, <3>2, <1>7 DEF One
  <2>2. node'[c].ref = One(c \in held) + One(c = c) + One(node'[c].parent # Null)
    <3>1. c \notin held
      BY <1>1, <1>2
    <3> QED
      BY <3>1, <1>4 DEF One
  <2> QED
    BY <1>5, <1>6, <1>7, <2>1, <2>2 DEF CountsRight
<1>9. RootsHeld'
  BY <1>2, <1>4, <1>5 DEF RootsHeld, SamePath
<1>10. ParserRight'
  BY <1>1, <1>2, <1>4, <1>5 DEF ParserRight
<1>11. ScalarsOK'
  BY <1>1, <1>5 DEF StanzaInv, ScalarsOK
<1> QED
  BY <1>2, <1>4, <1>5, <1>6, <1>7, <1>8, <1>9, <1>10, <1>11 DEF StanzaInv

\* The parser adds a node to its stanza.
LEMMA GrowStep ==
  ASSUME StanzaInv, NEW c \in Free(node), stanza # Null, calling = FALSE, Grow(c),
         \/ stanza' = c /\ depth' = depth + 1 /\ depth' \in 0 .. MaxDepth
         \/ stanza' = stanza /\ depth' = depth,
         UNCHANGED <<held, reset, ended, calling, lost>>
  PROVE  StanzaInv' /\ Owned' = Owned \cup {c} /\ ParserStanza' = ParserStanza
<1>1. c \in Nodes \ Owned /\ c \notin lost /\ c # Null
  BY OwnedIs, NullIsNoNode
<1>2. /\ Forest(node, Owned) /\ CountsRight /\ RootsHeld /\ held \subseteq Owned
      /\ lost \subseteq Live(node) /\ depth \in 0 .. MaxDepth
  BY DEF StanzaInv, ScalarsOK
<1>s. /\ stanza \in Owned /\ ParserStanza \in Owned
      /\ ParserStanza = Root(node, stanza)
      /\ ParserStanza \notin held
      /\ Level(node, stanza) = depth - 1
  BY ParserStanzaIs
<1>3. GrownTo(node', node, Owned, stanza, c)
  BY <1>1, <1>2, <1>s, Grown DEF Grow
<1>4. /\ Forest(node', Owned \cup {c})
      /\ node'[c].ref = 1 /\ node'[c].parent = stanza
      /\ \A x \in Nodes \ {c} : node'[x].ref = node[x].ref
      /\ \A x \in Owned : node'[x].parent = node[x].parent /\ SamePath(node', node, x)
      /\ Root(node', c) = Root(node, stanza) /\ Level(node', c) = 1 + Level(node, stanza)
  BY <1>3 DEF GrownTo
<1>5. held' = held /\ lost' = lost /\ calling' = calling /\ reset' = reset /\ ended' = ended
  OBVIOUS
<1>6. Owned' = Owned \cup {c} /\ lost' \subseteq Live(node')
  BY <1>1, <1>2, <1>4, <1>5 DEF Owned, Live, Free
<1>p. Root(node', stanza') = Root(node, stanza) /\ stanza' \in Owned \cup {c} /\ stanza' # Null
  BY <1>1, <1>4, <1>s DEF SamePath
<1>7. ParserStanza' = ParserStanza
  BY <1>5, <1>p, <1>s DEF ParserStanza
<1>8. CountsRight'
  <2>1. ASSUME NEW x \in Owned
        PROVE  node'[x].ref = One(x \in held) + One(x = ParserStanza) + One(node'[x].parent # Null)
    <3>1. node'[x].ref = node[x].ref /\ node'[x].parent = node[x].parent
      BY <1>1, <1>4, OwnedIs
    <3>2. node[x].ref = One(x \in held) + One(x = ParserStanza) + One(node[x].parent # Null)
      BY <1>2 DEF CountsRight
    <3> QED
      BY <3>1, <3>2
  <2>2. node'[c].ref = One(c \in held) + One(c = ParserStanza) + One(node'[c].parent # Null)
    <3>1. c \notin held /\ c # ParserStanza /\ node'[c].parent # Null
      BY <1>1, <1>2, <1>4, <1>s
    <3> QED
      BY <3>1, <1>4 DEF One
  <2> QED
    BY <1>5, <1>6, <1>7, <2>1, <2>2 DEF CountsRight
<1>9. RootsHeld'
  BY <1>2, <1>4, <1>5 DEF RootsHeld, SamePath
<1>10. ParserRight'
  <2>1. Level(node', stanza') = depth' - 1
    BY <1>2, <1>4, <1>s DEF SamePath
  <2>2. Root(node', stanza') \notin held'
    BY <1>p, <1>s, <1>5
  <2> QED
    BY <1>p, <1>5, <2>1, <2>2 DEF ParserRight
<1>11. ScalarsOK'
  BY <1>2, <1>p, <1>5 DEF StanzaInv, ScalarsOK
<1> QED
  BY <1>2, <1>4, <1>5, <1>6, <1>p, <1>7, <1>8, <1>9, <1>10, <1>11 DEF StanzaInv

LEMMA StartStep ==
  ASSUME StanzaInv, StartElement
  PROVE  StanzaInv'
<1>1. /\ calling = FALSE /\ depth < MaxDepth /\ depth' = depth + 1
      /\ held' = held /\ reset' = reset /\ ended' = ended /\ calling' = calling /\ lost' = lost
  BY DEF StartElement, Reading, StanzaInv, ScalarsOK
<1>2. /\ depth \in 0 .. MaxDepth /\ MaxDepth \in Nat /\ depth' \in 0 .. MaxDepth
      /\ ParserRight
  BY <1>1, MaxDepthAssumption DEF StanzaInv, ScalarsOK
<1>3. stanza # Null => Level(node, stanza) \in Nat /\ Level(node, stanza) > 0
                       /\ Level(node, stanza) = depth - 1
  BY <1>1, ParserStanzaIs
<1>4. CASE depth = 0
  <2>1. node' = node /\ stanza' = stanza /\ stanza = Null
    BY <1>2, <1>3, <1>4 DEF StartElement
  <2>2. ParserStanza' = ParserStanza
    BY <1>1, <2>1 DEF ParserStanza
  <2>3. /\ Owned' = Owned /\ Forest(node', Owned') /\ RootsHeld'
        /\ (lost \subseteq Live(node))' /\ (held \subseteq Owned)' /\ CountsRight'
    BY <1>1, <2>1, <2>2, HeapKept
  <2>4. ParserRight'
    BY <1>1, <1>2, <1>4, <2>1 DEF ParserRight
  <2>5. ScalarsOK'
    BY <1>1, <1>2, <2>1 DEF StanzaInv, ScalarsOK
  <2> QED
    BY <2>1, <2>3, <2>4, <2>5 DEF StanzaInv
<1>5. CASE depth = 1
  <2>1. PICK c \in Free(node) : stanza' = c /\ node' = xmpp_stanza_new(node, c)
    BY <1>5 DEF StartElement
  <2>2. stanza = Null
    BY <1>2, <1>3, <1>5
  <2>3. depth' = 2
    BY <1>1, <1>5
  <2> QED
    BY <1>1, <1>2, <1>5, <2>1, <2>2, <2>3, OpenStep
<1>6. CASE depth > 1
  <2>1. PICK c \in Free(node) : stanza' = c /\ Grow(c)
    BY <1>2, <1>6 DEF StartElement
  <2>2. stanza # Null
    BY <1>2, <1>6 DEF ParserRight
  <2> QED
    BY <1>1, <1>2, <2>1, <2>2, GrowStep
<1> QED
  BY <1>2, <1>4, <1>5, <1>6

LEMMA CharactersStep ==
  ASSUME StanzaInv, Characters
  PROVE  StanzaInv'
<1>1. /\ calling = FALSE /\ depth > 1 /\ depth' = depth /\ stanza' = stanza
      /\ held' = held /\ reset' = reset /\ ended' = ended /\ calling' = calling /\ lost' = lost
  BY DEF Characters, Reading, StanzaInv, ScalarsOK
<1>2. depth \in 0 .. MaxDepth /\ MaxDepth \in Nat /\ ParserRight
  BY MaxDepthAssumption DEF StanzaInv, ScalarsOK
<1>3. PICK c \in Free(node) : Grow(c)
  BY DEF Characters
<1>4. stanza # Null
  BY <1>1, <1>2 DEF ParserRight
<1> QED
  BY <1>1, <1>3, <1>4, GrowStep

-----------------------------------------------------------------------------
(* The steps that release.                                                  *)

\* A tree goes, with the reference of its owner.
LEMMA TreeReleased ==
  ASSUME StanzaInv, NEW r \in Owned, node[r].parent = Null,
         (node \in [Nodes -> NodeType])',
         \A x \in Owned \ Below(node, {r}) : node'[x] = node[x],
         Owned' = Owned \ Below(node, {r}),
         held' = held \ {r}, held' \cap Below(node, {r}) = {},
         \/ stanza' = Null /\ depth' < 2 /\ ParserStanza \in Below(node, {r})
         \/ UNCHANGED <<stanza, calling, depth>> /\ stanza \notin Below(node, {r})
  PROVE  /\ Forest(node', Owned') /\ CountsRight' /\ RootsHeld' /\ ParserRight'
         /\ (held \subseteq Owned)' /\ (stanza \in Owned \cup {Null})'
<1> DEFINE B == Below(node, {r})
<1>1. /\ Forest(node, Owned) /\ CountsRight /\ RootsHeld /\ ParserRight /\ held \subseteq Owned
      /\ stanza \in Owned \cup {Null} /\ calling \in BOOLEAN
  BY DEF StanzaInv, ScalarsOK
<1>2. Forest(node', Owned \ B) /\ \A x \in Owned \ B : SamePath(node', node, x)
  BY <1>1, TreeGone
<1>3. r \in B /\ \A x \in Owned \ B : Root(node, x) # r
  <2>1. /\ Below(node, {r}) = {x \in Owned : Root(node, x) = r}
        /\ Root(node, r) = r
    BY <1>1, BelowRoot
  <2> QED
    BY <2>1
<1>4. Null \notin Owned
  BY OwnedIs
<1> HIDE DEF B
<1>5. /\ \A x \in Owned \ B : node'[x] = node[x]
      /\ Owned' = Owned \ B /\ held' = held \ {r} /\ held' \cap B = {}
      /\ \/ stanza' = Null /\ depth' < 2 /\ ParserStanza \in B
         \/ stanza' = stanza /\ calling' = calling /\ depth' = depth /\ stanza \notin B
  BY DEF B
<1>6. held' \subseteq Owned \ B /\ stanza' \in (Owned \ B) \cup {Null}
  BY <1>1, <1>5
<1>7. ASSUME NEW x \in Owned \ B PROVE x = ParserStanza' <=> x = ParserStanza
  <2>1. CASE stanza' = Null /\ ParserStanza \in B
    BY <2>1, <1>4 DEF ParserStanza
  <2>2. CASE stanza' = stanza /\ calling' = calling /\ stanza \notin B
    <3>1. stanza # Null => Root(node', stanza) = Root(node, stanza)
      BY <2>2, <1>1, <1>2 DEF SamePath
    <3> QED
      BY <2>2, <3>1 DEF ParserStanza
  <2> QED
    BY <2>1, <2>2, <1>5
<1>8. CountsRight'
  <2>1. ASSUME NEW x \in Owned \ B
        PROVE  node'[x].ref
                 = One(x \in held') + One(x = ParserStanza') + One(node'[x].parent # Null)
    <3>1. node[x].ref = One(x \in held) + One(x = ParserStanza) + One(node[x].parent # Null)
      BY <1>1 DEF CountsRight
    <3>2. (x \in held' <=> x \in held) /\ (x = ParserStanza' <=> x = ParserStanza)
      BY <1>3, <1>5, <1>7
    <3>3. node'[x] = node[x]
      BY <1>5
    <3> QED
      BY <3>1, <3>2, <3>3 DEF One
  <2> QED
    BY <2>1, <1>5 DEF CountsRight
<1>9. RootsHeld'
  <2>1. ASSUME NEW x \in held' PROVE Root(node', x) \in held'
    <3>1. x \in Owned \ B /\ x \in held
      BY <1>5, <1>6
    <3>2. Root(node', x) = Root(node, x) /\ Root(node, x) \in held /\ Root(node, x) # r
      BY <3>1, <1>1, <1>2, <1>3 DEF SamePath, RootsHeld
    <3> QED
      BY <3>2, <1>5
  <2> QED
    BY <2>1 DEF RootsHeld
<1>10. ParserRight'
  <2>1. CASE stanza' = Null /\ depth' < 2
    BY <2>1 DEF ParserRight
  <2>2. CASE stanza' = stanza /\ calling' = calling /\ depth' = depth /\ stanza \notin B
    <3>1. stanza # Null => /\ Root(node', stanza) = Root(node, stanza)
                           /\ Level(node', stanza) = Level(node, stanza)
                           /\ Root(node, stanza) # r
      BY <2>2, <1>1, <1>2, <1>3 DEF SamePath
    <3> QED
      BY <2>2, <3>1, <1>1, <1>5 DEF ParserRight
  <2> QED
    BY <2>1, <2>2, <1>5
<1> QED
  BY <1>2, <1>5, <1>6, <1>8, <1>9, <1>10

\* What a release does to the nodes that are owned.
Released ==
  \/ Owned' = Owned /\ \A x \in Owned : SamePointers(node', node, x)
  \/ \E r \in Owned :
       /\ node[r].parent = Null
       /\ Owned' = Owned \ Below(node, {r})
       /\ \A x \in Owned \ Below(node, {r}) : node'[x] = node[x]

\* A reference is given back, and others are left.
LEMMA CountedDown ==
  ASSUME StanzaInv, NEW n \in Owned, node[n].ref > 1,
         node' = xmpp_stanza_release(node, n), lost' = lost
  PROVE  /\ Owned' = Owned /\ Forest(node', Owned')
         /\ (lost \subseteq Live(node))'
         /\ \A x \in Owned : SamePath(node', node, x) /\ node'[x].parent = node[x].parent
         /\ \A x \in Owned : node'[x].ref = IF x = n THEN node[x].ref - 1 ELSE node[x].ref
         /\ Released
<1>1. /\ node \in [Nodes -> NodeType] /\ Owned \in SUBSET Nodes
      /\ \A x \in Nodes : node[x].ref \in Nat
      /\ Forest(node, Owned) /\ lost \subseteq Live(node)
  BY OwnedIs DEF StanzaInv
<1>2. n \in Nodes
  BY <1>1
<1> DEFINE k == node[n].ref - 1
<1>3. k \in Nat /\ k # 0 /\ node[n].ref # 0
  BY <1>1, <1>2
<1>4. node' = [node EXCEPT ![n].ref = @ - 1]
  BY <1>1, <1>2, ReleaseKeeps
<1>5. node' = [node EXCEPT ![n].ref = k]
  BY <1>4
<1> HIDE DEF k
<1>6. /\ Forest([node EXCEPT ![n].ref = k], Owned)
      /\ \A x \in Owned : SamePath([node EXCEPT ![n].ref = k], node, x)
      /\ \A x \in Nodes : /\ [node EXCEPT ![n].ref = k][x].ref = IF x = n THEN k ELSE node[x].ref
                          /\ SamePointers([node EXCEPT ![n].ref = k], node, x)
  BY <1>1, <1>2, <1>3, Recounted
<1>7. /\ Forest(node', Owned)
      /\ \A x \in Owned : SamePath(node', node, x)
      /\ \A x \in Nodes : /\ node'[x].ref = IF x = n THEN k ELSE node[x].ref
                          /\ SamePointers(node', node, x)
  BY <1>5, <1>6
<1>8. \A x \in Nodes : node'[x].ref = 0 <=> node[x].ref = 0
  BY <1>3, <1>7
<1>9. Owned' = Owned /\ lost' \subseteq Live(node')
  BY <1>1, <1>8 DEF Owned, Live, Free
<1> QED
  BY <1>1, <1>7, <1>9 DEF SamePointers, k, Released

\* A tree that only one owner holds, by its root.
LEMMA LastOwner ==
  ASSUME StanzaInv, NEW r \in Owned, node[r].parent = Null,
         \A x \in Below(node, {r}) : /\ x \in held => x = r
                                     /\ x = ParserStanza => x = r,
         ~ (r \in held /\ r = ParserStanza)
  PROVE  \A x \in Below(node, {r}) : node[x].ref <= 1
<1>1. Below(node, {r}) \subseteq Owned
  BY BelowStep DEF StanzaInv
<1>2. ASSUME NEW x \in Below(node, {r}) PROVE node[x].ref <= 1
  <2>1. node[x].ref = One(x \in held) + One(x = ParserStanza) + One(node[x].parent # Null)
    BY <1>1 DEF StanzaInv, CountsRight
  <2>2. CASE x = r
    BY <2>1, <2>2 DEF One
  <2>3. CASE x # r
    BY <2>1, <2>3 DEF One
  <2> QED
    BY <2>2, <2>3
<1> QED
  BY <1>2

\* What is left when the whole tree was released.
LEMMA TreeFreed ==
  ASSUME StanzaInv, NEW r \in Owned,
         node' = Removed(node, Below(node, {r})), lost' = lost
  PROVE  /\ (node \in [Nodes -> NodeType])' /\ Owned' = Owned \ Below(node, {r})
         /\ \A x \in Owned \ Below(node, {r}) : node'[x] = node[x]
         /\ (lost \subseteq Live(node))'
<1> DEFINE B == Below(node, {r})
<1>1. /\ node \in [Nodes -> NodeType] /\ Owned \in SUBSET Nodes
      /\ lost \subseteq Live(node) /\ B \subseteq Owned
      /\ \A x : x \in Owned <=> x \in Nodes /\ node[x].ref # 0 /\ x \notin lost
  BY OwnedIs, BelowStep DEF StanzaInv
<1> HIDE DEF B
<1>2. node' = [x \in Nodes |-> IF x \in B THEN Blank ELSE node[x]]
  BY DEF Removed, B
<1>3. Blank \in NodeType /\ Blank.ref = 0
  BY DEF Blank, NodeType
<1>4. node' \in [Nodes -> NodeType]
  BY <1>1, <1>2, <1>3
<1>5. \A x \in Nodes : node'[x].ref = IF x \in B THEN 0 ELSE node[x].ref
  BY <1>2, <1>3
<1>6. Owned' = Owned \ B /\ lost' \subseteq Live(node')
  BY <1>1, <1>5 DEF Owned, Live, Free
<1>7. \A x \in Owned \ B : node'[x] = node[x]
  BY <1>1, <1>2
<1> QED
  BY <1>4, <1>6, <1>7 DEF B

LEMMA ReturnStep ==
  ASSUME StanzaInv, StanzaCallbackReturns
  PROVE  StanzaInv' /\ Released /\ ParserStanza' = Null
<1>1. /\ calling = TRUE /\ stanza' = Null /\ calling' = FALSE
      /\ node' = xmpp_stanza_release(node, stanza)
      /\ held' = held /\ depth' = depth /\ reset' = reset /\ ended' = ended /\ lost' = lost
  BY DEF StanzaCallbackReturns, StanzaInv, ScalarsOK
<1>2. /\ stanza \in Owned /\ ParserStanza = stanza /\ depth = 1
      /\ Root(node, stanza) # stanza => Root(node, stanza) \in held
      /\ Forest(node, Owned) /\ RootsHeld /\ CountsRight /\ held \subseteq Owned
  BY <1>1, ParserStanzaIs DEF StanzaInv, ScalarsOK, ParserRight
<1>3. ScalarsOK'
  BY <1>1 DEF StanzaInv, ScalarsOK
<1>4. /\ node[stanza].ref \in Nat /\ Null \notin Owned
      /\ node[stanza].ref = One(stanza \in held) + 1 + One(node[stanza].parent # Null)
  BY <1>2, OwnedIs DEF CountsRight, One
<1>p. ParserStanza' = Null /\ ParserRight'
  BY <1>1, <1>2 DEF ParserStanza, ParserRight
<1>5. CASE node[stanza].ref > 1
  <2>1. /\ Owned' = Owned /\ Forest(node', Owned')
        /\ (lost \subseteq Live(node))'
        /\ \A x \in Owned : SamePath(node', node, x) /\ node'[x].parent = node[x].parent
        /\ \A x \in Owned : node'[x].ref = IF x = stanza THEN node[x].ref - 1 ELSE node[x].ref
        /\ Released
    BY <1>1, <1>2, <1>5, CountedDown
  <2>2. RootsHeld'
    BY <1>1, <1>2, <2>1 DEF RootsHeld, SamePath
  <2>3. CountsRight'
    <3>1. ASSUME NEW x \in Owned
          PROVE  node'[x].ref
                   = One(x \in held) + One(x = ParserStanza') + One(node'[x].parent # Null)
      <4>1. /\ node[x].ref = One(x \in held) + One(x = stanza) + One(node[x].parent # Null)
            /\ x # Null
        BY <1>2, <1>4 DEF CountsRight
      <4> QED
        BY <4>1, <2>1, <1>p DEF One
    <3> QED
      BY <3>1, <1>1, <2>1 DEF CountsRight
  <2> QED
    BY <1>1, <1>2, <1>3, <1>p, <2>1, <2>2, <2>3 DEF StanzaInv
<1>6. CASE ~ (node[stanza].ref > 1)
  <2>1. stanza \notin held /\ node[stanza].parent = Null
    BY <1>4, <1>6 DEF One
  <2>2. /\ Below(node, {stanza}) = {x \in Owned : Root(node, x) = stanza}
        /\ Root(node, stanza) = stanza
    BY <1>2, <2>1, BelowRoot
  <2>3. \A x \in Below(node, {stanza}) : x \notin held
    BY <1>2, <2>1, <2>2 DEF RootsHeld
  <2>4. \A x \in Below(node, {stanza}) : node[x].ref <= 1
    BY <1>2, <2>1, <2>3, LastOwner
  <2>5. node' = Removed(node, Below(node, {stanza}))
    BY <1>1, <1>2, <2>4, ReleaseRemoves
  <2>6. /\ (node \in [Nodes -> NodeType])' /\ Owned' = Owned \ Below(node, {stanza})
        /\ \A x \in Owned \ Below(node, {stanza}) : node'[x] = node[x]
        /\ (lost \subseteq Live(node))'
    BY <1>1, <1>2, <2>5, TreeFreed
  <2>7. /\ stanza' = Null /\ depth' < 2 /\ ParserStanza \in Below(node, {stanza})
        /\ held' = held \ {stanza} /\ held' \cap Below(node, {stanza}) = {}
    BY <1>1, <1>2, <2>1, <2>2, <2>3
  <2>8. /\ Forest(node', Owned') /\ CountsRight' /\ RootsHeld' /\ ParserRight'
        /\ (held \subseteq Owned)' /\ (stanza \in Owned \cup {Null})'
    BY <1>2, <2>1, <2>6, <2>7, TreeReleased
  <2> QED
    BY <1>2, <1>3, <1>p, <2>1, <2>6, <2>8 DEF StanzaInv, Released
<1> QED
  BY <1>5, <1>6

LEMMA FeedStep ==
  ASSUME StanzaInv, parser_feed
  PROVE  StanzaInv' /\ ParserStanza' = Null /\ (stanza # Null => Released)
<1> DEFINE top == Root(node, stanza)
<1>1. /\ calling = FALSE /\ depth' = 0 /\ stanza' = Null /\ reset' = FALSE /\ ended' = FALSE
      /\ held' = held /\ calling' = FALSE
      /\ stanza = Null => node' = node /\ lost' = lost
      /\ stanza # Null =>
           /\ node' = xmpp_stanza_release(node, stanza)
           /\ lost' = lost \cup (Below(node, {top}) \ Below(node, {stanza}))
  BY DEF parser_feed, StanzaInv, ScalarsOK
<1>2. /\ Forest(node, Owned) /\ RootsHeld /\ held \subseteq Owned
      /\ lost \subseteq Live(node) /\ Null \notin Owned
  BY OwnedIs DEF StanzaInv
<1>3. ScalarsOK'
  <2>1. 0 \in 0 .. MaxDepth
    BY MaxDepthAssumption
  <2> QED
    BY <1>1, <2>1 DEF ScalarsOK
<1>p. ParserStanza' = Null /\ ParserRight'
  BY <1>1 DEF ParserStanza, ParserRight
<1>4. CASE stanza = Null
  <2>1. ParserStanza' = ParserStanza
    BY <1>4, <1>p, ParserStanzaIs
  <2>2. /\ Owned' = Owned /\ Forest(node', Owned') /\ RootsHeld'
        /\ (lost \subseteq Live(node))' /\ (held \subseteq Owned)' /\ CountsRight'
    BY <1>1, <1>4, <2>1, HeapKept
  <2> QED
    BY <1>1, <1>3, <1>4, <1>p, <2>2 DEF StanzaInv
<1>5. CASE stanza # Null
  <2>1. /\ stanza \in Owned /\ top \in Owned /\ ParserStanza = top
        /\ node[top].parent = Null /\ top \notin held
    BY <1>1, <1>5, ParserStanzaIs
  <2> DEFINE B == Below(node, {top})
             C == Below(node, {stanza})
  <2>2. B = {x \in Owned : Root(node, x) = top} /\ top \in B
    <3> HIDE DEF top
    <3>1. B = {x \in Owned : Root(node, x) = top} /\ Root(node, top) = top
      BY <1>2, <2>1, BelowRoot
    <3> QED
      BY <3>1, <2>1
  <2>3. C = {x \in Owned : Up(node, x) \cap {stanza} # {}}
    BY <1>2, <2>1, BelowIs
  <2>4. C \subseteq B
    <3>1. ASSUME NEW x \in C PROVE Root(node, x) = top
      <4>1. x \in Owned /\ stanza \in Up(node, x)
        BY <2>3
      <4>2. Root(node, stanza) = Root(node, x)
        BY <1>2, <4>1, AboveIs
      <4> QED
        BY <4>2
    <3> QED
      BY <2>2, <2>3, <3>1
  <2>5. \A x \in B : x \notin held
    <3> HIDE DEF top
    <3> QED
      BY <1>2, <2>1, <2>2 DEF RootsHeld
  <2>6. \A x \in B : node[x].ref <= 1
    <3> HIDE DEF top
    <3> QED
      BY <2>1, <2>5, LastOwner
  <2>7. node' = Removed(node, C)
    <3>1. \A x \in C : node[x].ref <= 1
      BY <2>4, <2>6
    <3>2. xmpp_stanza_release(node, stanza) = Removed(node, C)
      BY <1>2, <2>1, <3>1, ReleaseRemoves
    <3> QED
      BY <1>1, <1>5, <3>2
  <2>8. /\ node \in [Nodes -> NodeType] /\ Owned \in SUBSET Nodes
        /\ \A x : x \in Owned <=> x \in Nodes /\ node[x].ref # 0 /\ x \notin lost
    BY OwnedIs
  <2>9. lost' = lost \cup (B \ C) /\ B \subseteq Owned
    BY <1>1, <1>5, <2>2
  <2> HIDE DEF B, C, top
  <2>10. node' = [x \in Nodes |-> IF x \in C THEN Blank ELSE node[x]]
    BY <2>7 DEF Removed
  <2>11. Blank \in NodeType /\ Blank.ref = 0
    BY DEF Blank, NodeType
  <2>12. node' \in [Nodes -> NodeType]
    BY <2>8, <2>10, <2>11
  <2>13. \A x \in Nodes : node'[x].ref = IF x \in C THEN 0 ELSE node[x].ref
    BY <2>10, <2>11
  <2>14. Owned' = Owned \ B /\ lost' \subseteq Live(node')
    <3>1. \A x : x \in Owned' <=> x \in Nodes /\ node'[x].ref # 0 /\ x \notin lost'
      BY DEF Owned, Live, Free
    <3>2. \A x : x \in lost => x \in Nodes /\ node[x].ref # 0
      BY <1>2 DEF Live, Free
    <3>3. Owned' = Owned \ B
      BY <3>1, <2>4, <2>8, <2>9, <2>13
    <3>4. \A x \in lost' : x \in Nodes /\ node'[x].ref # 0
      BY <3>2, <2>4, <2>8, <2>9, <2>13
    <3> QED
      BY <3>3, <3>4 DEF Live, Free
  <2>15. \A x \in Owned \ B : node'[x] = node[x]
    BY <2>4, <2>8, <2>10
  <2>16. /\ stanza' = Null /\ depth' < 2 /\ ParserStanza \in B
         /\ held' = held \ {top} /\ held' \cap B = {}
    BY <1>1, <2>1, <2>2, <2>5
  <2>17. /\ Forest(node', Owned') /\ CountsRight' /\ RootsHeld' /\ ParserRight'
         /\ (held \subseteq Owned)' /\ (stanza \in Owned \cup {Null})'
    BY <2>1, <2>12, <2>14, <2>15, <2>16, TreeReleased DEF B
  <2> QED
    BY <1>3, <1>p, <2>1, <2>14, <2>15, <2>17 DEF StanzaInv, Released, B
<1> QED
  BY <1>4, <1>5

LEMMA AppReleaseStep ==
  ASSUME StanzaInv, NEW n \in Nodes, AppRelease(n)
  PROVE  StanzaInv' /\ Released
<1>1. /\ n \in held /\ Below(node, {n}) \cap InHand = {n}
      /\ node' = xmpp_stanza_release(node, n) /\ held' = held \ {n}
      /\ depth' = depth /\ stanza' = stanza /\ reset' = reset /\ ended' = ended
      /\ calling' = calling /\ lost' = lost
  BY DEF AppRelease, parserVars
<1>2. /\ Forest(node, Owned) /\ RootsHeld /\ CountsRight /\ ParserRight /\ held \subseteq Owned
      /\ lost \subseteq Live(node) /\ Null \notin Owned /\ n \in Owned
      /\ stanza \in Owned \cup {Null} /\ calling \in BOOLEAN /\ (calling => stanza # Null)
      /\ node[n].ref \in Nat
  BY <1>1, OwnedIs DEF StanzaInv, ScalarsOK
<1>3. ScalarsOK'
  BY <1>1 DEF StanzaInv, ScalarsOK
<1>4. Below(node, {n}) = {x \in Owned : Up(node, x) \cap {n} # {}}
  BY <1>2, BelowIs
<1>5. \A x \in Below(node, {n}) : (x \in held => x = n) /\ (calling /\ x = stanza => x = n)
  BY <1>1 DEF InHand
<1>6. \A x \in Owned : Root(node, x) = n => x \in Below(node, {n})
  <2>1. \A x \in Owned : Root(node, x) \in Up(node, x)
    BY <1>2, AboveIs
  <2> QED
    BY <2>1, <1>4
<1>7. \A x \in held \ {n} : Root(node, x) \in held \ {n}
  BY <1>2, <1>5, <1>6 DEF RootsHeld
<1>8. CASE node[n].ref > 1
  <2>1. /\ Owned' = Owned /\ Forest(node', Owned')
        /\ (lost \subseteq Live(node))'
        /\ \A x \in Owned : SamePath(node', node, x) /\ node'[x].parent = node[x].parent
        /\ \A x \in Owned : node'[x].ref = IF x = n THEN node[x].ref - 1 ELSE node[x].ref
        /\ Released
    BY <1>1, <1>2, <1>8, CountedDown
  <2>2. RootsHeld'
    <3>1. \A x \in held' : Root(node', x) \in held'
      BY <1>1, <1>2, <1>7, <2>1 DEF SamePath
    <3> QED
      BY <3>1 DEF RootsHeld
  <2>3. stanza # Null => /\ Root(node', stanza) = Root(node, stanza)
                         /\ Level(node', stanza) = Level(node, stanza)
    BY <1>2, <2>1 DEF SamePath
  <2>4. ParserStanza' = ParserStanza
    BY <1>1, <2>3 DEF ParserStanza
  <2>5. ParserRight'
    <3>1. CASE calling
      <4>1. stanza \in Owned /\ depth = 1
            /\ (Root(node, stanza) # stanza => Root(node, stanza) \in held)
        BY <3>1, <1>2 DEF ParserRight
      <4>2. Root(node, stanza) = n => stanza = n
        BY <3>1, <4>1, <1>5, <1>6
      <4>3. Root(node, stanza) # stanza => Root(node, stanza) \in held'
        BY <4>1, <4>2, <1>1
      <4> QED
        BY <3>1, <4>1, <4>3, <2>3, <1>1, <1>2 DEF ParserRight
    <3>2. CASE ~ calling
      BY <3>2, <2>3, <1>1, <1>2 DEF ParserRight
    <3> QED
      BY <3>1, <3>2
  <2>6. CountsRight'
    <3>1. ASSUME NEW x \in Owned
          PROVE  node'[x].ref
                   = One(x \in held') + One(x = ParserStanza') + One(node'[x].parent # Null)
      <4>1. node[x].ref = One(x \in held) + One(x = ParserStanza) + One(node[x].parent # Null)
        BY <1>2 DEF CountsRight
      <4> QED
        BY <4>1, <2>1, <2>4, <1>1 DEF One
    <3> QED
      BY <3>1, <2>1 DEF CountsRight
  <2> QED
    BY <1>1, <1>2, <1>3, <2>1, <2>2, <2>5, <2>6 DEF StanzaInv
<1>9. CASE ~ (node[n].ref > 1)
  <2>1. n # ParserStanza /\ node[n].parent = Null
    <3>1. node[n].ref = 1 + One(n = ParserStanza) + One(node[n].parent # Null)
      BY <1>1, <1>2 DEF CountsRight, One
    <3> QED
      BY <3>1, <1>9 DEF One
  <2>2. Below(node, {n}) = {x \in Owned : Root(node, x) = n} /\ Root(node, n) = n
    BY <1>2, <2>1, BelowRoot
  <2>3. ParserStanza \notin Below(node, {n}) /\ stanza \notin Below(node, {n})
    <3>1. CASE stanza = Null
      <4>1. ParserStanza = Null
        BY <3>1, ParserStanzaIs
      <4> QED
        BY <3>1, <4>1, <2>2, <1>2
    <3>2. CASE stanza # Null /\ calling
      <4>1. ParserStanza = stanza
        BY <3>2, ParserStanzaIs
      <4> QED
        BY <3>2, <4>1, <1>5, <2>1
    <3>3. CASE stanza # Null /\ ~ calling
      <4>1. /\ ParserStanza = Root(node, stanza) /\ ParserStanza \in Owned
            /\ node[ParserStanza].parent = Null
        BY <3>3, ParserStanzaIs
      <4>2. Root(node, ParserStanza) = ParserStanza
        BY <4>1, <1>2, BelowRoot
      <4> QED
        BY <4>1, <4>2, <2>1, <2>2
    <3> QED
      BY <3>1, <3>2, <3>3
  <2>4. \A x \in Below(node, {n}) : node[x].ref <= 1
    <3>1. \A x \in Below(node, {n}) : /\ x \in held => x = n
                                      /\ x = ParserStanza => x = n
      BY <1>5, <2>3
    <3>2. ~ (n \in held /\ n = ParserStanza)
      BY <2>1
    <3> QED
      BY <1>2, <2>1, <3>1, <3>2, LastOwner
  <2>5. node' = Removed(node, Below(node, {n}))
    BY <1>1, <1>2, <2>4, ReleaseRemoves
  <2>6. /\ (node \in [Nodes -> NodeType])' /\ Owned' = Owned \ Below(node, {n})
        /\ \A x \in Owned \ Below(node, {n}) : node'[x] = node[x]
        /\ (lost \subseteq Live(node))'
    BY <1>1, <1>2, <2>5, TreeFreed
  <2>7. held' \cap Below(node, {n}) = {}
    BY <1>1, <1>5
  <2>8. /\ Forest(node', Owned') /\ CountsRight' /\ RootsHeld' /\ ParserRight'
        /\ (held \subseteq Owned)' /\ (stanza \in Owned \cup {Null})'
    BY <1>1, <1>2, <2>1, <2>3, <2>6, <2>7, TreeReleased
  <2> QED
    BY <1>2, <1>3, <2>1, <2>6, <2>8 DEF StanzaInv, Released
<1> QED
  BY <1>8, <1>9

-----------------------------------------------------------------------------
(* The steps of the program.                                                *)

LEMMA AppNewStep ==
  ASSUME StanzaInv, AppNew
  PROVE  /\ StanzaInv' /\ ParserStanza' = ParserStanza
         /\ \E c \in Free(node) : /\ node' = xmpp_stanza_new(node, c)
                                  /\ held' = held \cup {c} /\ Owned' = Owned \cup {c}
<1>1. /\ depth' = depth /\ stanza' = stanza /\ reset' = reset /\ ended' = ended
      /\ calling' = calling /\ lost' = lost
  BY DEF AppNew, parserVars
<1>2. PICK c \in Free(node) : node' = xmpp_stanza_new(node, c) /\ held' = held \cup {c}
  BY DEF AppNew
<1>3. /\ Forest(node, Owned) /\ RootsHeld /\ CountsRight /\ ParserRight /\ held \subseteq Owned
      /\ lost \subseteq Live(node) /\ Null \notin Owned
      /\ stanza \in Owned \cup {Null} /\ calling \in BOOLEAN
      /\ c \in Nodes \ Owned /\ c \notin lost /\ c # Null
  BY OwnedIs, NullIsNoNode DEF StanzaInv, ScalarsOK
<1>4. Alone(node', node, Owned, c)
  BY <1>2, <1>3, NewAlone
<1>5. /\ Forest(node', Owned \cup {c})
      /\ node'[c].ref = 1 /\ node'[c].parent = Null
      /\ \A x \in Nodes \ {c} : node'[x] = node[x]
      /\ \A x \in Owned : SamePath(node', node, x)
      /\ Root(node', c) = c
  BY <1>4 DEF Alone
<1>6. Owned' = Owned \cup {c} /\ lost' \subseteq Live(node')
  BY <1>1, <1>3, <1>5 DEF Owned, Live, Free
<1>7. stanza # Null => /\ Root(node', stanza) = Root(node, stanza)
                       /\ Level(node', stanza) = Level(node, stanza)
                       /\ Root(node, stanza) # c
  <2>1. stanza # Null => Root(node, stanza) \in Owned
    BY <1>3, PathIs
  <2> QED
    BY <2>1, <1>3, <1>5 DEF SamePath
<1>8. ParserStanza' = ParserStanza /\ ParserStanza # c
  <2>1. ParserStanza' = ParserStanza
    BY <1>1, <1>7 DEF ParserStanza
  <2>2. ParserStanza \in Owned \cup {Null}
    BY ParserStanzaIs
  <2> QED
    BY <2>1, <2>2, <1>3
<1>9. CountsRight'
  <2>1. ASSUME NEW x \in Owned
        PROVE  node'[x].ref = One(x \in held') + One(x = ParserStanza) + One(node'[x].parent # Null)
    <3>1. x \in Nodes \ {c} /\ x # c
      BY <1>3, OwnedIs
    <3>2. node'[x] = node[x] /\ (x \in held' <=> x \in held)
      BY <3>1, <1>2, <1>5
    <3>3. node[x].ref = One(x \in held) + One(x = ParserStanza) + One(node[x].parent # Null)
      BY <1>3 DEF CountsRight
    <3> QED
      BY <3>2, <3>3 DEF One
  <2>2. node'[c].ref = One(c \in held') + One(c = ParserStanza) + One(node'[c].parent # Null)
    BY <1>2, <1>5, <1>8 DEF One
  <2> QED
    BY <1>6, <1>8, <2>1, <2>2 DEF CountsRight
<1>10. RootsHeld'
  BY <1>2, <1>3, <1>5 DEF RootsHeld, SamePath
<1>11. ParserRight'
  BY <1>1, <1>2, <1>3, <1>7 DEF ParserRight
<1>12. ScalarsOK'
  BY <1>1 DEF StanzaInv, ScalarsOK
<1> QED
  BY <1>1, <1>2, <1>3, <1>5, <1>6, <1>8, <1>9, <1>10, <1>11, <1>12 DEF StanzaInv

LEMMA AppCloneStep ==
  ASSUME StanzaInv, AppClone
  PROVE  /\ StanzaInv' /\ ParserStanza' = ParserStanza /\ Owned' = Owned
         /\ \A x \in Owned : SamePointers(node', node, x)
<1>1. /\ calling = TRUE /\ stanza \notin held
      /\ node' = xmpp_stanza_clone(node, stanza) /\ held' = held \cup {stanza}
      /\ depth' = depth /\ stanza' = stanza /\ reset' = reset /\ ended' = ended
      /\ calling' = calling /\ lost' = lost
  BY DEF AppClone, parserVars, StanzaInv, ScalarsOK
<1>2. /\ stanza \in Owned /\ ParserStanza = stanza /\ depth = 1
      /\ Root(node, stanza) # stanza => Root(node, stanza) \in held
      /\ Forest(node, Owned) /\ RootsHeld /\ CountsRight /\ held \subseteq Owned
      /\ lost \subseteq Live(node) /\ stanza # Null
  BY <1>1, ParserStanzaIs DEF StanzaInv, ScalarsOK, ParserRight
<1>n. /\ \A x \in Nodes : node[x].ref \in Nat
      /\ Owned \in SUBSET Nodes
      /\ \A x : x \in Owned <=> x \in Nodes /\ node[x].ref # 0 /\ x \notin lost
  BY OwnedIs
<1> DEFINE k == node[stanza].ref + 1
<1>3. k \in Nat /\ k # 0 /\ node[stanza].ref # 0 /\ stanza \in Nodes
  BY <1>2, <1>n
<1>4. node' = [node EXCEPT ![stanza].ref = k]
  BY <1>1 DEF xmpp_stanza_clone
<1> HIDE DEF k
<1>5. /\ Forest([node EXCEPT ![stanza].ref = k], Owned)
      /\ \A x \in Owned : SamePath([node EXCEPT ![stanza].ref = k], node, x)
      /\ \A x \in Nodes : /\ [node EXCEPT ![stanza].ref = k][x].ref
                               = IF x = stanza THEN k ELSE node[x].ref
                          /\ SamePointers([node EXCEPT ![stanza].ref = k], node, x)
  BY <1>2, <1>3, Recounted
<1>6. /\ Forest(node', Owned)
      /\ \A x \in Owned : SamePath(node', node, x)
      /\ \A x \in Nodes : /\ node'[x].ref = IF x = stanza THEN k ELSE node[x].ref
                          /\ SamePointers(node', node, x)
  BY <1>4, <1>5
<1>7. Owned' = Owned /\ lost' \subseteq Live(node')
  BY <1>1, <1>2, <1>3, <1>n, <1>6 DEF Owned, Live, Free
<1>8. ParserStanza' = ParserStanza
  BY <1>1, <1>2 DEF ParserStanza
<1>9. CountsRight'
  <2>1. ASSUME NEW x \in Owned
        PROVE  node'[x].ref = One(x \in held') + One(x = ParserStanza) + One(node'[x].parent # Null)
    <3>1. node[x].ref = One(x \in held) + One(x = ParserStanza) + One(node[x].parent # Null)
      BY <1>2 DEF CountsRight
    <3>2. node'[x].parent = node[x].parent /\ x \in Nodes
      BY <1>6, <1>n DEF SamePointers
    <3>3. CASE x = stanza
      BY <3>1, <3>2, <3>3, <1>1, <1>6 DEF One, k
    <3>4. CASE x # stanza
      BY <3>1, <3>2, <3>4, <1>1, <1>6 DEF One
    <3> QED
      BY <3>3, <3>4
  <2> QED
    BY <1>7, <1>8, <2>1 DEF CountsRight
<1>10. RootsHeld' /\ ParserRight'
  BY <1>1, <1>2, <1>6 DEF RootsHeld, ParserRight, SamePath
<1>11. ScalarsOK'
  BY <1>1 DEF StanzaInv, ScalarsOK
<1> QED
  BY <1>1, <1>2, <1>n, <1>6, <1>7, <1>8, <1>9, <1>10, <1>11 DEF StanzaInv

LEMMA InHandOwned ==
  ASSUME StanzaInv
  PROVE  InHand \in SUBSET Owned
BY DEF StanzaInv, ScalarsOK, InHand

LEMMA AppAddChildStep ==
  ASSUME StanzaInv, NEW p \in Nodes, NEW c \in Nodes, AppAddChild(p, c)
  PROVE  StanzaInv' /\ ParserStanza' = ParserStanza /\ Owned' = Owned
<1> DEFINE B == Below(node, {c})
<1>1. /\ p \in held /\ c \in InHand /\ node[c].parent = Null /\ p \notin B
      /\ node' = xmpp_stanza_add_child(node, p, c) /\ held' = held
      /\ depth' = depth /\ stanza' = stanza /\ reset' = reset /\ ended' = ended
      /\ calling' = calling /\ lost' = lost
  BY DEF AppAddChild, parserVars
<1>2. /\ Forest(node, Owned) /\ RootsHeld /\ CountsRight /\ ParserRight /\ held \subseteq Owned
      /\ lost \subseteq Live(node) /\ Null \notin Owned /\ Owned \in SUBSET Nodes
      /\ stanza \in Owned \cup {Null} /\ calling \in BOOLEAN
      /\ p \in Owned /\ c \in Owned
      /\ \A x \in Nodes : node[x].ref \in Nat
      /\ \A x : x \in Owned <=> x \in Nodes /\ node[x].ref # 0 /\ x \notin lost
  BY <1>1, OwnedIs, InHandOwned DEF StanzaInv, ScalarsOK
<1>3. AttachedTo(node', node, Owned, p, c)
  BY <1>1, <1>2, Attached
<1>4. /\ Forest(node', Owned)
      /\ \A x \in Nodes : /\ node'[x].ref = IF x = c THEN node[x].ref + 1 ELSE node[x].ref
                          /\ node'[x].parent = IF x = c THEN p ELSE node[x].parent
      /\ \A x \in Owned \ B : SamePath(node', node, x)
      /\ \A x \in B : Root(node', x) = Root(node, p)
  BY <1>3 DEF AttachedTo
<1>5. B = {x \in Owned : Root(node, x) = c}
  BY <1>1, <1>2, BelowRoot
<1> HIDE DEF B
<1>6. \A x \in Nodes : node'[x].ref = 0 <=> node[x].ref = 0
  <2>1. node[c].ref \in Nat /\ node[c].ref # 0 /\ c \in Nodes
    BY <1>2
  <2>2. node[c].ref + 1 # 0
    BY <2>1
  <2> QED
    BY <1>4, <2>1, <2>2
<1>7. Owned' = Owned /\ lost' \subseteq Live(node')
  BY <1>1, <1>2, <1>6 DEF Owned, Live, Free
<1>8. stanza # Null /\ ~ calling =>
        /\ Root(node', stanza) = Root(node, stanza)
        /\ Level(node', stanza) = Level(node, stanza)
  <2> SUFFICES ASSUME stanza # Null, ~ calling
               PROVE  /\ Root(node', stanza) = Root(node, stanza)
                      /\ Level(node', stanza) = Level(node, stanza)
    OBVIOUS
  <2>1. Root(node, stanza) \notin held
    BY <1>2 DEF ParserRight
  <2>2. c \in held
    BY <1>1 DEF InHand
  <2>3. stanza \in Owned \ B
    BY <1>2, <1>5, <2>1, <2>2
  <2> QED
    BY <1>4, <2>3 DEF SamePath
<1>9. ParserStanza' = ParserStanza
  BY <1>1, <1>8 DEF ParserStanza
<1>10. CountsRight'
  <2>1. ASSUME NEW x \in Owned
        PROVE  node'[x].ref = One(x \in held) + One(x = ParserStanza) + One(node'[x].parent # Null)
    <3>1. /\ node[x].ref = One(x \in held) + One(x = ParserStanza) + One(node[x].parent # Null)
          /\ x \in Nodes
      BY <1>2 DEF CountsRight
    <3>2. CASE x = c
      <4>1. p # Null /\ node'[x].parent = p /\ node[x].parent = Null
            /\ node'[x].ref = node[x].ref + 1
        BY <3>1, <3>2, <1>1, <1>2, <1>4
      <4> QED
        BY <3>1, <4>1 DEF One
    <3>3. CASE x # c
      BY <3>1, <3>3, <1>4
    <3> QED
      BY <3>2, <3>3
  <2> QED
    BY <1>1, <1>7, <1>9, <2>1 DEF CountsRight
<1>11. Root(node, p) \in held
  BY <1>1, <1>2 DEF RootsHeld
<1>12. RootsHeld'
  <2>1. ASSUME NEW x \in held PROVE Root(node', x) \in held
    <3>1. CASE x \in B
      BY <3>1, <1>4, <1>11
    <3>2. CASE x \notin B
      BY <3>2, <1>2, <1>4 DEF SamePath, RootsHeld
    <3> QED
      BY <3>1, <3>2
  <2> QED
    BY <2>1, <1>1 DEF RootsHeld
<1>13. ParserRight'
  <2>1. CASE stanza = Null \/ ~ calling
    BY <2>1, <1>1, <1>2, <1>8 DEF ParserRight
  <2>2. CASE stanza # Null /\ calling
    <3>1. /\ depth = 1 /\ stanza \in Owned
          /\ Root(node, stanza) # stanza => Root(node, stanza) \in held
      BY <2>2, <1>2 DEF ParserRight
    <3>2. CASE stanza \in B
      BY <3>1, <3>2, <2>2, <1>1, <1>4, <1>11 DEF ParserRight
    <3>3. CASE stanza \notin B
      <4>1. Root(node', stanza) = Root(node, stanza)
        BY <3>1, <3>3, <1>4 DEF SamePath
      <4> QED
        BY <3>1, <4>1, <2>2, <1>1 DEF ParserRight
    <3> QED
      BY <3>2, <3>3
  <2> QED
    BY <2>1, <2>2
<1>14. ScalarsOK'
  BY <1>1 DEF StanzaInv, ScalarsOK
<1> QED
  BY <1>1, <1>2, <1>4, <1>7, <1>9, <1>10, <1>12, <1>13, <1>14 DEF StanzaInv

LEMMA AppCopyStep ==
  ASSUME StanzaInv, NEW s \in Nodes, AppCopy(s)
  PROVE  /\ StanzaInv' /\ ParserStanza' = ParserStanza
         /\ \E f \in Injection(Below(node, {s}), Nodes \ Owned) :
              /\ node' = xmpp_stanza_copy(node, s, f)
              /\ held' = held \cup {f[s]} /\ Owned' = Owned \cup Range(f)
<1> DEFINE B == Below(node, {s})
<1>1. /\ s \in Below(node, InHand)
      /\ depth' = depth /\ stanza' = stanza /\ reset' = reset /\ ended' = ended
      /\ calling' = calling /\ lost' = lost
  BY DEF AppCopy, parserVars
<1>2. PICK f \in Injection(B, Free(node)) :
        node' = xmpp_stanza_copy(node, s, f) /\ held' = held \cup {f[s]}
  BY DEF AppCopy
<1>3. /\ Forest(node, Owned) /\ RootsHeld /\ CountsRight /\ ParserRight /\ held \subseteq Owned
      /\ lost \subseteq Live(node) /\ Null \notin Owned /\ Owned \in SUBSET Nodes
      /\ stanza \in Owned \cup {Null} /\ calling \in BOOLEAN
      /\ \A x \in Free(node) : x \in Nodes \ Owned /\ x \notin lost
      /\ \A x : x \in Owned <=> x \in Nodes /\ node[x].ref # 0 /\ x \notin lost
  BY OwnedIs DEF StanzaInv, ScalarsOK
<1>4. s \in Owned
  <2>1. InHand \in SUBSET Owned
    BY InHandOwned
  <2> QED
    BY <1>1, <1>3, <2>1, BelowStep
<1>b. /\ s \in B /\ B \subseteq Owned
      /\ \A x \in Owned : x \in B <=> x = s \/ node[x].parent \in B
  BY <1>3, <1>4, BelowStep
<1>f. /\ f \in Injection(B, Nodes \ Owned)
      /\ DOMAIN f = B /\ \A a, b \in B : f[a] = f[b] => a = b
      /\ Range(f) = {f[m] : m \in B} /\ Range(f) \subseteq Free(node)
  <2> HIDE DEF B
  <2>1. f \in [B -> Free(node)] /\ IsInjective(f)
    BY DEF Injection
  <2>2. f \in [B -> Nodes \ Owned]
    BY <2>1, <1>3
  <2>3. \A a, b \in B : f[a] = f[b] => a = b
    BY <2>1 DEF IsInjective
  <2>4. Range(f) = {f[m] : m \in B} /\ Range(f) \subseteq Free(node)
    BY <2>1 DEF Range
  <2> QED
    BY <2>1, <2>2, <2>3, <2>4 DEF Injection
<1>5. /\ Forest(node', Owned \cup Range(f))
      /\ CopyRight(node, s, f, B, node')
  BY <1>2, <1>3, <1>4, <1>f, CopyForest
<1> HIDE DEF B
<1>6. /\ \A x \in Nodes \ Range(f) : node'[x] = node[x]
      /\ \A m \in B : /\ f[m] \in Range(f) /\ node'[f[m]].ref = 1
                      /\ node'[f[m]].parent = IF m = s THEN Null ELSE Image(f, node[m].parent)
  <2>1. \A x \in Nodes \ Range(f) : node'[x] = node[x]
    BY <1>5 DEF CopyRight
  <2>2. ASSUME NEW m \in B
        PROVE  /\ f[m] \in Range(f) /\ node'[f[m]].ref = 1
               /\ node'[f[m]].parent = IF m = s THEN Null ELSE Image(f, node[m].parent)
    <3> DEFINE parent == IF m = s THEN Null ELSE Image(f, node[m].parent)
               prev == IF m = s THEN Null ELSE Image(f, node[m].prev)
               next == IF m = s THEN Null ELSE Image(f, node[m].next)
               children == Image(f, node[m].children)
               copy == node'[f[m]]
    <3>1. /\ f[m] \in Range(f)
          /\ copy = [ref |-> 1, parent |-> parent, prev |-> prev, next |-> next,
                     children |-> children]
      BY <1>5 DEF CopyRight
    <3> HIDE DEF parent, prev, next, children, copy
    <3>2. copy.ref = 1 /\ copy.parent = parent
      BY <3>1
    <3> QED
      BY <3>1, <3>2 DEF copy, parent
  <2> QED
    BY <2>1, <2>2
<1>7. \A x \in Owned : node'[x] = node[x] /\ SamePath(node', node, x)
  <2>1. \A x \in Owned : x \in Nodes \ Range(f)
    BY <1>3, <1>f
  <2>2. \A x \in Owned : node'[x] = node[x]
    BY <1>6, <2>1
  <2>3. \A x \in Owned : node'[x].parent = node[x].parent /\ node[x].parent \in Owned \cup {Null}
    BY <2>2, OwnedIs
  <2>4. Owned \in SUBSET (Owned \cap (Owned \cup Range(f)))
    OBVIOUS
  <2>5. \A x \in Owned : SamePath(node', node, x)
    BY <1>3, <1>5, <2>3, <2>4, PathFrame
  <2> QED
    BY <2>2, <2>5
<1>8. \A m \in B : node'[f[m]].parent # Null <=> m # s
  <2>1. ASSUME NEW m \in B, m # s PROVE node'[f[m]].parent # Null
    <3>1. node[m].parent \in B /\ node[m].parent # Null
      BY <2>1, <1>b, <1>3
    <3>2. f[node[m].parent] \in Nodes
      BY <3>1, <1>f, <1>3
    <3> QED
      BY <2>1, <3>1, <3>2, <1>6, NullIsNoNode DEF Image
  <2>2. node'[f[s]].parent = Null
    BY <1>b, <1>6
  <2> QED
    BY <2>1, <2>2
<1>9. Root(node', f[s]) = f[s] /\ f[s] \in Range(f)
  <2>1. f[s] \in Owned \cup Range(f) /\ node'[f[s]].parent = Null
    BY <1>b, <1>6, <1>8
  <2> HIDE DEF B
  <2> QED
    BY <2>1, <1>b, <1>f, <1>5, PathIs
<1>10. Owned' = Owned \cup Range(f) /\ lost' \subseteq Live(node')
  <2>1. \A x \in Nodes : node'[x].ref # 0 <=> node[x].ref # 0 \/ x \in Range(f)
    <3>1. \A x \in Range(f) : node'[x].ref # 0
      BY <1>f, <1>6
    <3> QED
      BY <3>1, <1>6
  <2>2. \A x \in Range(f) : x \in Nodes /\ x \notin lost
    BY <1>f, <1>3
  <2>3. \A x : x \in Owned' <=> x \in Nodes /\ node'[x].ref # 0 /\ x \notin lost'
    BY DEF Owned, Live, Free
  <2>4. Owned' = Owned \cup Range(f)
    BY <2>1, <2>2, <2>3, <1>1, <1>3
  <2>5. lost' \subseteq Live(node')
    BY <2>1, <1>1, <1>3 DEF Live, Free
  <2> QED
    BY <2>4, <2>5
<1>11. stanza # Null => /\ Root(node', stanza) = Root(node, stanza)
                        /\ Level(node', stanza) = Level(node, stanza)
                        /\ Root(node, stanza) \in Owned
  <2>1. stanza # Null => Root(node, stanza) \in Owned
    BY <1>3, PathIs
  <2> QED
    BY <2>1, <1>3, <1>7 DEF SamePath
<1>12. ParserStanza' = ParserStanza /\ ParserStanza \in Owned \cup {Null}
  <2>1. ParserStanza' = ParserStanza
    BY <1>1, <1>11 DEF ParserStanza
  <2> QED
    BY <2>1, ParserStanzaIs
<1>r. \A x \in Range(f) : x \notin Owned /\ x # Null /\ x \notin held
  BY <1>3, <1>f, NullIsNoNode
<1>13. CountsRight'
  <2>1. ASSUME NEW x \in Owned
        PROVE  node'[x].ref = One(x \in held') + One(x = ParserStanza) + One(node'[x].parent # Null)
    <3>1. node[x].ref = One(x \in held) + One(x = ParserStanza) + One(node[x].parent # Null)
      BY <1>3 DEF CountsRight
    <3>2. node'[x] = node[x] /\ (x \in held' <=> x \in held)
      BY <1>2, <1>7, <1>9, <1>r
    <3> QED
      BY <3>1, <3>2 DEF One
  <2>2. ASSUME NEW x \in Range(f)
        PROVE  node'[x].ref = One(x \in held') + One(x = ParserStanza) + One(node'[x].parent # Null)
    <3>1. PICK m \in B : x = f[m]
      BY <1>f
    <3>2. x \in held' <=> m = s
      BY <3>1, <1>2, <1>b, <1>f, <1>r
    <3>3. x # ParserStanza
      BY <1>12, <1>r
    <3>4. node'[x].ref = 1 /\ (node'[x].parent # Null <=> m # s)
      BY <3>1, <1>6, <1>8
    <3> QED
      BY <3>2, <3>3, <3>4 DEF One
  <2> QED
    BY <1>10, <1>12, <2>1, <2>2 DEF CountsRight
<1>14. RootsHeld'
  BY <1>2, <1>3, <1>7, <1>9 DEF RootsHeld, SamePath
<1>15. ParserRight'
  <2>1. stanza # Null => Root(node, stanza) # f[s]
    BY <1>9, <1>11, <1>r
  <2> QED
    BY <2>1, <1>1, <1>2, <1>3, <1>11 DEF ParserRight
<1>16. ScalarsOK'
  BY <1>1 DEF StanzaInv, ScalarsOK
<1>17. held' \subseteq Owned' /\ stanza' \in Owned' \cup {Null}
  BY <1>1, <1>2, <1>3, <1>9, <1>10
<1> QED
  BY <1>2, <1>f, <1>5, <1>10, <1>12, <1>13, <1>14, <1>15, <1>16, <1>17 DEF StanzaInv, B

LEMMA StutterStep ==
  ASSUME StanzaInv, UNCHANGED vars
  PROVE  StanzaInv' /\ ParserStanza' = ParserStanza
<1>1. /\ node' = node /\ held' = held /\ lost' = lost /\ stanza' = stanza
      /\ calling' = calling /\ depth' = depth /\ ended' = ended /\ reset' = reset
  BY DEF vars
<1>2. ParserStanza' = ParserStanza
  BY <1>1 DEF ParserStanza
<1>3. ParserRight' /\ ScalarsOK'
  BY <1>1 DEF StanzaInv, ParserRight, ScalarsOK
<1>4. /\ Owned' = Owned /\ Forest(node', Owned') /\ RootsHeld'
      /\ (lost \subseteq Live(node))' /\ (held \subseteq Owned)' /\ CountsRight'
  BY <1>1, <1>2, HeapKept
<1> QED
  BY <1>1, <1>2, <1>3, <1>4 DEF StanzaInv

LEMMA NextInv ==
  ASSUME StanzaInv, Next \/ UNCHANGED vars
  PROVE  StanzaInv'
<1>1. CASE parser_feed
  BY <1>1, FeedStep
<1>2. CASE parser_reset
  BY <1>2, ResetStep
<1>3. CASE StartElement
  BY <1>3, StartStep
<1>4. CASE Characters
  BY <1>4, CharactersStep
<1>5. CASE EndElement
  BY <1>5, EndStep
<1>6. CASE StanzaCallbackReturns
  BY <1>6, ReturnStep
<1>7. CASE AppNew
  BY <1>7, AppNewStep
<1>8. CASE AppClone
  BY <1>8, AppCloneStep
<1>9. CASE \E n \in Nodes : AppCopy(n)
  BY <1>9, AppCopyStep
<1>10. CASE \E n \in Nodes : AppRelease(n)
  BY <1>10, AppReleaseStep
<1>11. CASE \E p, c \in Nodes : AppAddChild(p, c)
  BY <1>11, AppAddChildStep
<1>12. CASE UNCHANGED vars
  BY <1>12, StutterStep
<1> QED
  BY <1>1, <1>2, <1>3, <1>4, <1>5, <1>6, <1>7, <1>8, <1>9, <1>10, <1>11, <1>12
  DEF Next, Parser, App

(* The inductive invariant: the allocated nodes, less those that a reset    *)
(* left behind, are a forest whose lists agree in both directions, the      *)
(* count of each node is exact, and the element that the parser writes to   *)
(* is as deep in its own tree as the document says.                         *)
THEOREM StanzaInvariant == Spec => []StanzaInv
<1>1. Init => StanzaInv
  BY InitInv
<1>2. StanzaInv /\ [Next]_vars => StanzaInv'
  BY NextInv
<1> QED
  BY <1>1, <1>2, PTL DEF Spec

-----------------------------------------------------------------------------
(* What the invariant says of the program.                                  *)

LEMMA ReachableIs ==
  ASSUME StanzaInv
  PROVE  Reachable = Owned
<1> DEFINE S == held \cup ({ParserStanza} \ {Null})
           B == Below(node, S)
<1>1. /\ Forest(node, Owned) /\ CountsRight /\ S \in SUBSET Owned
  BY ParserStanzaIs DEF StanzaInv
<1>2. \A x : x \in S <=> x \in held \/ (x = ParserStanza /\ x # Null)
  OBVIOUS
<1> HIDE DEF S
<1>3. /\ S \subseteq B /\ B \subseteq Owned
      /\ \A x \in Owned : x \in B <=> x \in S \/ node[x].parent \in B
  BY <1>1, BelowStep
<1> HIDE DEF B
<1>4. ASSUME NEW x \in Owned, node[x].parent \in B \cup {Null} PROVE x \in B
  <2>1. CASE node[x].parent \in B
    BY <2>1, <1>3
  <2>2. CASE node[x].parent = Null
    <3>1. node[x].ref = One(x \in held) + One(x = ParserStanza) + One(node[x].parent # Null)
      BY <1>1 DEF CountsRight
    <3>2. node[x].ref # 0 /\ x # Null
      BY OwnedIs
    <3>3. x \in held \/ x = ParserStanza
      BY <2>2, <3>1, <3>2 DEF One
    <3> QED
      BY <3>2, <3>3, <1>2, <1>3
  <2> QED
    BY <1>4, <2>1, <2>2
<1>5. Owned \subseteq B
  BY <1>1, <1>4, Downwards
<1> QED
  BY <1>3, <1>5 DEF Reachable, B, S

LEMMA InvListsAgree ==
  ASSUME StanzaInv
  PROVE  ListsAgree
<1>1. Forest(node, Owned) /\ Reachable = Owned
  BY ReachableIs DEF StanzaInv
<1>2. ASSUME NEW n \in Owned
      PROVE  /\ IsInjective(Kids(node, n))
             /\ \A i \in DOMAIN Kids(node, n) :
                  /\ node[Kids(node, n)[i]].parent = n
                  /\ node[Kids(node, n)[i]].prev = IF i = 1 THEN Null ELSE Kids(node, n)[i - 1]
             /\ node[n].parent # Null => n \in Range(Kids(node, node[n].parent))
  <2>1. ListRight(node, Owned, n, Kids(node, n))
    BY <1>1, KidsListed
  <2>2. IsInjective(Kids(node, n))
    BY <1>1, KidsOnce
  <2>3. ASSUME node[n].parent # Null PROVE n \in Range(Kids(node, node[n].parent))
    <3>1. node[n].parent \in Owned
      BY <2>3, OwnedIs
    <3>2. Range(Kids(node, node[n].parent)) = {x \in Owned : node[x].parent = node[n].parent}
      BY <1>1, <3>1, KidsRight
    <3> QED
      BY <3>2
  <2> QED
    BY <2>1, <2>2, <2>3 DEF ListRight
<1> QED
  BY <1>1, <1>2 DEF ListsAgree

LEMMA InvRefsExact ==
  ASSUME StanzaInv
  PROVE  RefsExact
<1>1. Forest(node, Owned) /\ Reachable = Owned /\ CountsRight
  BY ReachableIs DEF StanzaInv
<1>2. ASSUME NEW n \in Owned
      PROVE  node[n].ref =
               Cardinality({n} \cap held) + Cardinality({n} \cap {ParserStanza})
                 + Cardinality({p \in Owned : n \in Range(Kids(node, p))})
  <2>1. node[n].ref = One(n \in held) + One(n = ParserStanza) + One(node[n].parent # Null)
    BY <1>1 DEF CountsRight
  <2>2. /\ Cardinality({}) = 0
        /\ \A x : Cardinality({x}) = 1
    BY FS_EmptySet, FS_Singleton
  <2>3. Cardinality({n} \cap held) = One(n \in held)
    <3>1. {n} \cap held = IF n \in held THEN {n} ELSE {}
      OBVIOUS
    <3> QED
      BY <2>2, <3>1 DEF One
  <2>4. Cardinality({n} \cap {ParserStanza}) = One(n = ParserStanza)
    <3>1. {n} \cap {ParserStanza} = IF n = ParserStanza THEN {n} ELSE {}
      OBVIOUS
    <3> QED
      BY <2>2, <3>1 DEF One
  <2>5. Cardinality({p \in Owned : n \in Range(Kids(node, p))}) = One(node[n].parent # Null)
    <3>1. \A p \in Owned : Range(Kids(node, p)) = {x \in Owned : node[x].parent = p}
      BY <1>1, KidsRight
    <3>2. {p \in Owned : n \in Range(Kids(node, p))} = {p \in Owned : node[n].parent = p}
      BY <3>1
    <3>3. node[n].parent \in Owned \cup {Null} /\ Null \notin Owned
      BY OwnedIs
    <3>4. {p \in Owned : node[n].parent = p}
            = IF node[n].parent # Null THEN {node[n].parent} ELSE {}
      BY <3>3
    <3> QED
      BY <2>2, <3>2, <3>4 DEF One
  <2> QED
    BY <2>1, <2>3, <2>4, <2>5
<1> QED
  BY <1>1, <1>2 DEF RefsExact

(* The pointers in use are to allocated nodes, the callback is handed a    *)
(* stanza, and the parser's fields keep their types.                       *)
THEOREM TypesHold == Spec => []TypeOK
<1>1. StanzaInv => TypeOK
  BY InvTypeOK
<1> QED
  BY <1>1, StanzaInvariant, PTL

(* Every list of children that can be reached reads the same in both       *)
(* directions, names its parent, and holds every node that names it.       *)
THEOREM ListsAlwaysAgree == Spec => []ListsAgree
<1>1. StanzaInv => ListsAgree
  BY InvListsAgree
<1> QED
  BY <1>1, StanzaInvariant, PTL

(* The count of each node that can be reached is the number of its owners: *)
(* xmpp_stanza_release frees no node that is in use and keeps none that    *)
(* nobody owns.                                                            *)
THEOREM CountsAlwaysExact == Spec => []RefsExact
<1>1. StanzaInv => RefsExact
  BY InvRefsExact
<1> QED
  BY <1>1, StanzaInvariant, PTL

(* What is allocated can be reached, but for what a reset of the parser    *)
(* inside a nested element leaves behind, which is out of reach for good.  *)
THEOREM OnlyResetLeaks == Spec => []NothingElseLeaks
<1>1. StanzaInv => NothingElseLeaks
  BY ReachableIs DEF StanzaInv, NothingElseLeaks, Owned
<1> QED
  BY <1>1, StanzaInvariant, PTL

(* The parser's element is as deep in its stanza as the document is        *)
(* nested, so that _end_element, which asks for a parent, and              *)
(* _start_element, which asks for the depth, mean the same.                *)
THEOREM LevelKept == Spec => []ParserKeepsLevel
<1>1. StanzaInv => ParserKeepsLevel
  BY DEF StanzaInv, ParserRight, ParserKeepsLevel, Level
<1> QED
  BY <1>1, StanzaInvariant, PTL

-----------------------------------------------------------------------------
(* The trees of StanzaTree: what is under a set there.                      *)

\* The operators of the libraries are the same in StanzaTree.
LEMMA TreeOperators ==
  /\ \A f : Tree!Range(f) = Range(f)
  /\ \A A, B : Tree!Injection(A, B) = Injection(A, B)
BY DEF Tree!Range, Range, Tree!Injection, Injection, Tree!IsInjective, IsInjective

\* Under computes these sets: S, then what can be reached from it in at most i steps.
AreLayers(g, k, S) ==
  /\ g \in [0 .. N -> SUBSET Nodes]
  /\ g[0] = S
  /\ \A i \in 0 .. N - 1 : g[i + 1] = g[i] \cup UNION {Range(k[n]) : n \in g[i]}
  /\ Tree!Under(k, S) = g[N]

LEMMA UnderLayers ==
  ASSUME NEW k \in [Nodes -> Seq(Nodes)], NEW S \in SUBSET Nodes
  PROVE  \E g : AreLayers(g, k, S)
<1> DEFINE T == SUBSET Nodes
           wider(A) == A \cup UNION {Range(k[n]) : n \in A}
           step == [A \in T |-> wider(A)]
           Def(g) == [i \in 0 .. N |-> IF i = 0 THEN S
                                       ELSE g[i - 1] \cup UNION {Range(k[n]) : n \in g[i - 1]}]
<1>1. \A n \in Nodes : Range(k[n]) \in SUBSET Nodes
  <2>1. ASSUME NEW s \in Seq(Nodes) PROVE Range(s) \in SUBSET Nodes
    BY ElementOfSeq, LenProperties DEF Range
  <2> QED
    BY <2>1
<1>2. step \in [T -> T]
  <2>1. ASSUME NEW A \in T PROVE wider(A) \in T
    BY <1>1
  <2> HIDE DEF T, wider
  <2> QED
    BY <2>1
<1>3. PICK g : Iterates(g, T, S, step, N)
  <2> HIDE DEF step
  <2> QED
    BY <1>2, SizeIsNat, IterationExists
<1>4. /\ g \in [0 .. N -> T] /\ g[0] = S
      /\ \A i \in 1 .. N : g[i] = wider(g[i - 1])
  <2> HIDE DEF T, step
  <2>1. /\ g \in [0 .. N -> T] /\ g[0] = S
        /\ \A i \in 1 .. N : g[i] = step[g[i - 1]]
    BY <1>3 DEF Iterates
  <2>2. \A i \in 1 .. N : i - 1 \in 0 .. N
    BY SizeIsNat
  <2>3. \A i \in 1 .. N : g[i - 1] \in T
    BY <2>1, <2>2
  <2> USE DEF step
  <2>4. \A A \in T : step[A] = wider(A)
    OBVIOUS
  <2> HIDE DEF step, wider
  <2> QED
    BY <2>1, <2>3, <2>4
<1> HIDE DEF step
<1>5. \E h : h = Def(h)
  <2>1. g = Def(g)
    <3>1. ASSUME NEW i \in 0 .. N
          PROVE  g[i] = IF i = 0 THEN S
                        ELSE g[i - 1] \cup UNION {Range(k[n]) : n \in g[i - 1]}
      <4>1. CASE i = 0
        BY <4>1, <1>4
      <4>2. CASE i # 0
        <5>1. i \in 1 .. N
          BY <4>2, SizeIsNat
        <5>2. g[i] = wider(g[i - 1])
          BY <5>1, <1>4
        <5> QED
          BY <4>2, <5>2
      <4> QED
        BY <4>1, <4>2
    <3> QED
      BY <3>1, <1>4
  <2> HIDE DEF Def
  <2> QED
    BY <2>1
<1> DEFINE f == CHOOSE h : h = Def(h)
<1>6. f = Def(f)
  <2> HIDE DEF Def
  <2> QED
    BY <1>5
<1>7. Tree!Under(k, S) = f[N]
  BY Zenon DEF Tree!Under, N, Tree!Range, Range, Tree!Cardinality, Cardinality
<1> HIDE DEF f
<1>8. \A i \in 0 .. N : f[i] = IF i = 0 THEN S
                               ELSE f[i - 1] \cup UNION {Range(k[n]) : n \in f[i - 1]}
  BY <1>6
<1>9. f[0] = S /\ DOMAIN f = 0 .. N
  BY <1>6, <1>8, SizeIsNat
<1>10. ASSUME NEW i \in 0 .. N - 1
       PROVE  f[i + 1] = f[i] \cup UNION {Range(k[n]) : n \in f[i]}
  <2>1. i + 1 \in 0 .. N /\ i + 1 # 0 /\ (i + 1) - 1 = i
    BY SizeIsNat
  <2> QED
    BY <1>8, <2>1
<1> DEFINE Q == {i \in 0 .. N : f[i] \in SUBSET Nodes}
<1>11. 0 \in Q
  BY <1>9, SizeIsNat
<1>12. ASSUME NEW i \in 0 .. N - 1, i \in Q PROVE i + 1 \in Q
  <2>1. i + 1 \in 0 .. N
    BY SizeIsNat
  <2>2. f[i] \in SUBSET Nodes
    BY <1>12
  <2> QED
    BY <2>1, <2>2, <1>1, <1>10
<1> HIDE DEF Q
<1>13. 0 .. N \subseteq Q
  BY <1>11, <1>12, SizeIsNat, UpTo
<1>14. \A i \in 0 .. N : f[i] \in SUBSET Nodes
  BY <1>13 DEF Q
<1>15. f = [i \in 0 .. N |-> f[i]]
  BY <1>6
<1>16. f \in [0 .. N -> SUBSET Nodes]
  BY <1>14, <1>15
<1> QED
  BY <1>7, <1>9, <1>10, <1>16 DEF AreLayers

LEMMA UnderIs ==
  ASSUME NEW k \in [Nodes -> Seq(Nodes)], NEW S \in SUBSET Nodes
  PROVE  /\ S \subseteq Tree!Under(k, S) /\ Tree!Under(k, S) \subseteq Nodes
         /\ \A x \in Tree!Under(k, S) : Range(k[x]) \subseteq Tree!Under(k, S)
         /\ \A D : S \subseteq D /\ (\A x \in D \cap Nodes : Range(k[x]) \subseteq D)
                     => Tree!Under(k, S) \subseteq D
<1>0. PICK g : AreLayers(g, k, S)
  BY UnderLayers
<1>1. /\ g \in [0 .. N -> SUBSET Nodes]
      /\ g[0] = S
      /\ \A i \in 0 .. N - 1 : g[i + 1] = g[i] \cup UNION {Range(k[n]) : n \in g[i]}
      /\ Tree!Under(k, S) = g[N]
  BY ONLY <1>0 DEF AreLayers
<1>n. N \in Nat /\ IsFiniteSet(Nodes) /\ N = Cardinality(Nodes) /\ 0 \in 0 .. N /\ N \in 0 .. N
  BY SizeIsNat DEF N
<1>2. \A i \in 0 .. N : g[i] \in SUBSET Nodes
  BY <1>1
<1>3. S \subseteq g[N]
  <2> DEFINE Q == {i \in 0 .. N : S \subseteq g[i]}
  <2>1. 0 \in Q
    BY <1>1, <1>n
  <2>2. ASSUME NEW i \in 0 .. N - 1, i \in Q PROVE i + 1 \in Q
    <3>1. i + 1 \in 0 .. N /\ S \subseteq g[i]
      BY <2>2, <1>n
    <3> QED
      BY <3>1, <1>1
  <2> HIDE DEF Q
  <2>3. 0 .. N \subseteq Q
    BY <2>1, <2>2, <1>n, UpTo
  <2> QED
    BY <2>3, <1>n DEF Q
<1>4. ASSUME NEW D, S \subseteq D, \A x \in D \cap Nodes : Range(k[x]) \subseteq D
      PROVE  g[N] \subseteq D
  <2> DEFINE Q == {i \in 0 .. N : g[i] \subseteq D}
  <2>1. 0 \in Q
    BY <1>1, <1>n, <1>4
  <2>2. ASSUME NEW i \in 0 .. N - 1, i \in Q PROVE i + 1 \in Q
    <3>1. i + 1 \in 0 .. N /\ i \in 0 .. N /\ g[i] \subseteq D
      BY <2>2, <1>n
    <3>2. \A n \in g[i] : Range(k[n]) \subseteq D
      BY <3>1, <1>2, <1>4
    <3> QED
      BY <3>1, <3>2, <1>1
  <2> HIDE DEF Q
  <2>3. 0 .. N \subseteq Q
    BY <2>1, <2>2, <1>n, UpTo
  <2> QED
    BY <2>3, <1>n DEF Q
<1> DEFINE Closed(A) == \A w \in A : Range(k[w]) \subseteq A
\* The levels are closed when they grow no more, and they cannot grow for ever.
<1>5. Closed(g[N])
  <2> DEFINE Q == {i \in 0 .. N : Closed(g[i]) \/ Cardinality(g[i]) >= i + 1}
  <2>f. \A i \in 0 .. N : IsFiniteSet(g[i]) /\ Cardinality(g[i]) \in Nat
    BY <1>2, <1>n, FS_Subset, FS_CardinalityType
  <2>1. 0 \in Q
    <3>1. CASE S = {}
      BY <3>1, <1>1, <1>n
    <3>2. CASE S # {}
      <4>1. Cardinality(g[0]) # 0
        BY <3>2, <1>1, <1>n, <2>f, FS_EmptySet
      <4> QED
        BY <4>1, <2>f, <1>n
    <3> QED
      BY <3>1, <3>2
  <2>2. ASSUME NEW i \in 0 .. N - 1, i \in Q PROVE i + 1 \in Q
    <3>1. i \in 0 .. N /\ i + 1 \in 0 .. N
      BY <1>n
    <3>e. g[i + 1] = g[i] \cup UNION {Range(k[n]) : n \in g[i]}
      BY <1>1
    <3>2. CASE Closed(g[i])
      <4>1. g[i + 1] = g[i]
        BY <3>2, <3>e
      <4> QED
        BY <4>1, <3>1, <3>2
    <3>3. CASE ~ Closed(g[i])
      <4>0. PICK w \in g[i] : ~ (Range(k[w]) \subseteq g[i])
        BY <3>3
      <4>1. PICK v \in Range(k[w]) : v \notin g[i]
        BY <4>0
      <4>2. g[i] \cup {v} \in SUBSET g[i + 1]
        BY <4>1, <3>e
      <4>3. Cardinality(g[i] \cup {v}) = Cardinality(g[i]) + 1
        <5> DEFINE A == g[i]
        <5>1. IsFiniteSet(A) /\ v \notin A
          BY <4>1, <2>f, <3>1
        <5> HIDE DEF A
        <5>2. /\ IsFiniteSet(A \cup {v})
              /\ Cardinality(A \cup {v}) =
                   IF v \in A THEN Cardinality(A) ELSE Cardinality(A) + 1
          BY <5>1, FS_AddElement
        <5>3. Cardinality(A \cup {v}) = Cardinality(A) + 1
          BY <5>1, <5>2
        <5> QED
          BY <5>3 DEF A
      <4>4. Cardinality(g[i] \cup {v}) <= Cardinality(g[i + 1])
        BY <4>2, <2>f, <3>1, FS_Subset
      <4>5. Cardinality(g[i]) >= i + 1
        BY <2>2, <3>3
      <4>6. Cardinality(g[i + 1]) >= (i + 1) + 1
        BY <4>3, <4>4, <4>5, <3>1, <2>f, <1>n
      <4> QED
        BY <4>6, <3>1
    <3> QED
      BY <3>2, <3>3
  <2> HIDE DEF Q
  <2>3. 0 .. N \subseteq Q
    BY <2>1, <2>2, <1>n, UpTo
  <2> USE DEF Q
  <2>4. N \in Q /\ g[N] \in SUBSET Nodes
    BY <2>3, <1>2, <1>n
  <2>5. Cardinality(g[N]) <= N
    BY <2>4, <1>n, FS_Subset
  <2> QED
    BY <2>4, <2>5, <2>f, <1>n
<1> QED
  BY <1>1, <1>2, <1>3, <1>4, <1>5, <1>n

(* The children of the nodes of a forest.                                   *)
Shape(h, R) == [n \in Nodes |-> IF n \in R THEN Kids(h, n) ELSE <<>>]

\* What is under S in the trees is what is below S in the heap.
LEMMA UnderIsBelow ==
  ASSUME NEW h, NEW R, Forest(h, R), NEW S \in SUBSET R
  PROVE  /\ Tree!Under(Shape(h, R), S) = Below(h, S)
         /\ Shape(h, R) \in [Nodes -> Seq(Nodes)]
<1> DEFINE k == Shape(h, R)
           U == Tree!Under(k, S)
           B == Below(h, S)
           kids == [n \in Nodes |-> Range(Kids(h, n))]
<1>r. R \in SUBSET Nodes /\ h \in [Nodes -> NodeType] /\ S \in SUBSET Nodes
  BY DEF Forest
<1>1. k \in [Nodes -> Seq(Nodes)]
  <2>1. \A n \in R : Kids(h, n) \in Seq(R)
    BY KidsWalk
  <2>2. \A n \in R : Kids(h, n) \in Seq(Nodes)
    BY <2>1, <1>r
  <2>3. <<>> \in Seq(Nodes)
    BY EmptySeq
  <2> QED
    BY <2>2, <2>3 DEF Shape
<1>2. \A n \in R : /\ Range(k[n]) = {x \in R : h[x].parent = n}
                   /\ kids[n] = {x \in R : h[x].parent = n}
  BY <1>r, KidsRight DEF Shape
<1>3. kids \in [Nodes -> SUBSET Nodes]
  BY <1>r, KidsAreNodes
<1> HIDE DEF k, kids
<1>4. /\ S \subseteq U /\ U \subseteq Nodes
      /\ \A x \in U : Range(k[x]) \subseteq U
      /\ \A D : S \subseteq D /\ (\A x \in D \cap Nodes : Range(k[x]) \subseteq D) => U \subseteq D
  BY <1>1, <1>r, UnderIs
<1>5. /\ S \subseteq B /\ B \subseteq R
      /\ \A x \in R : x \in B <=> x \in S \/ h[x].parent \in B
  BY BelowStep
<1>6. /\ \A D : S \subseteq D /\ (\A x \in D \cap Nodes : kids[x] \subseteq D) => B \subseteq D
  <2>1. B = Closure(kids, S)
    BY DEF Below, kids
  <2> HIDE DEF B
  <2> QED
    BY <2>1, <1>3, <1>r, ClosureIs
<1> HIDE DEF U, B
<1>7. \A x \in B \cap Nodes : Range(k[x]) \subseteq B
  BY <1>2, <1>5
<1>8. U \subseteq B
  BY <1>4, <1>5, <1>7
<1>9. \A x \in U \cap Nodes : kids[x] \subseteq U
  BY <1>2, <1>4, <1>5, <1>8
<1>10. B \subseteq U
  BY <1>4, <1>6, <1>9
<1>11. U = B
  BY <1>8, <1>10
<1> QED
  BY <1>1, <1>11 DEF U, B, k

-----------------------------------------------------------------------------
(* The children of a node, before and after.                                *)

\* The pointers from n on lead along s.
Chained(h, n, s) ==
  /\ s \in Seq(Nodes)
  /\ s = <<>> <=> h[n].children = Null
  /\ s # <<>> => s[1] = h[n].children /\ h[s[Len(s)]].next = Null
  /\ \A i \in 1 .. Len(s) - 1 : h[s[i]].next = s[i + 1]

LEMMA ChainedAgree ==
  ASSUME NEW h, NEW n, NEW s, NEW t, Chained(h, n, s), Chained(h, n, t)
  PROVE  /\ Len(s) \in Nat /\ Len(t) \in Nat
         /\ \A i \in 1 .. Len(s) : i \in 1 .. Len(t) /\ s[i] = t[i]
<1>1. /\ s \in Seq(Nodes) /\ Len(s) \in Nat /\ \A i \in 1 .. Len(s) : s[i] \in Nodes
      /\ s # <<>> <=> Len(s) > 0
      /\ t \in Seq(Nodes) /\ Len(t) \in Nat /\ \A i \in 1 .. Len(t) : t[i] \in Nodes
      /\ t # <<>> <=> Len(t) > 0
  BY LenProperties, ElementOfSeq, EmptySeq DEF Chained
<1>2. /\ s = <<>> <=> h[n].children = Null
      /\ s # <<>> => s[1] = h[n].children
      /\ \A i \in 1 .. Len(s) - 1 : h[s[i]].next = s[i + 1]
      /\ t = <<>> <=> h[n].children = Null
      /\ t # <<>> => t[1] = h[n].children /\ h[t[Len(t)]].next = Null
      /\ \A i \in 1 .. Len(t) - 1 : h[t[i]].next = t[i + 1]
  BY DEF Chained
<1> DEFINE Q == {j \in 0 .. Len(s) : j > 0 => j \in 1 .. Len(t) /\ s[j] = t[j]}
<1>3. 0 \in Q
  BY <1>1
<1>4. ASSUME NEW j \in 0 .. Len(s) - 1, j \in Q PROVE j + 1 \in Q
  <2>1. j + 1 \in 1 .. Len(s) /\ j + 1 \in 0 .. Len(s)
    BY <1>1
  <2>2. CASE j = 0
    <3>1. s # <<>> /\ t # <<>>
      BY <1>1, <1>2, <2>1
    <3>2. s[1] = t[1] /\ Len(t) > 0
      BY <1>1, <1>2, <3>1
    <3> QED
      BY <1>1, <2>1, <2>2, <3>2
  <2>3. CASE j # 0
    <3>1. j \in 1 .. Len(t) /\ s[j] = t[j] /\ j \in 1 .. Len(s) - 1
      BY <1>1, <1>4, <2>3
    <3>2. h[t[j]].next = s[j + 1] /\ s[j + 1] # Null
      BY <1>1, <1>2, <2>1, <3>1, NullIsNoNode
    <3>3. j # Len(t)
      BY <1>1, <1>2, <3>1, <3>2
    <3>4. j \in 1 .. Len(t) - 1 /\ j + 1 \in 1 .. Len(t)
      BY <1>1, <3>1, <3>3
    <3>5. t[j + 1] = s[j + 1]
      BY <1>2, <3>2, <3>4
    <3> QED
      BY <2>1, <3>4, <3>5
  <2> QED
    BY <2>2, <2>3
<1> HIDE DEF Q
<1>5. 0 .. Len(s) \subseteq Q
  BY <1>1, <1>3, <1>4, UpTo
<1>6. \A i \in 1 .. Len(s) : i \in 1 .. Len(t) /\ s[i] = t[i]
  <2>1. \A i \in 1 .. Len(s) : i \in 0 .. Len(s) /\ i > 0
    BY <1>1
  <2> QED
    BY <1>5, <2>1 DEF Q
<1> QED
  BY <1>1, <1>6

LEMMA ChainedOnce ==
  ASSUME NEW h, NEW n, NEW s, NEW t, Chained(h, n, s), Chained(h, n, t)
  PROVE  s = t
<1>1. /\ Len(s) \in Nat /\ Len(t) \in Nat
      /\ \A i \in 1 .. Len(s) : i \in 1 .. Len(t) /\ s[i] = t[i]
      /\ \A i \in 1 .. Len(t) : i \in 1 .. Len(s) /\ t[i] = s[i]
  BY ChainedAgree
<1>2. Len(s) = Len(t)
  <2>1. Len(s) > Len(t) => Len(s) \in 1 .. Len(s)
    BY <1>1
  <2>2. Len(t) > Len(s) => Len(t) \in 1 .. Len(t)
    BY <1>1
  <2> QED
    BY <1>1, <2>1, <2>2
<1>3. s \in Seq(Nodes) /\ t \in Seq(Nodes)
  BY DEF Chained
<1> QED
  BY <1>1, <1>2, <1>3, SeqEqual

LEMMA KidsAre ==
  ASSUME NEW h, NEW R, Forest(h, R), NEW n \in R
  PROVE  /\ Chained(h, n, Kids(h, n))
         /\ \A s : Chained(h, n, s) => Kids(h, n) = s
<1>1. ListRight(h, R, n, Kids(h, n)) /\ R \in SUBSET Nodes
  BY KidsListed DEF Forest
<1>2. Kids(h, n) \in Seq(R)
  BY <1>1 DEF ListRight
<1>3. Kids(h, n) \in Seq(Nodes)
  BY <1>1, <1>2
<1>4. Chained(h, n, Kids(h, n))
  BY <1>1, <1>3 DEF ListRight, Chained
<1> QED
  BY <1>4, ChainedOnce

\* A node that keeps its first child, and whose children keep their next.
LEMMA KidsFrame ==
  ASSUME NEW h, NEW R, Forest(h, R), NEW g, NEW Q, Forest(g, Q), NEW n \in R \cap Q,
         g[n].children = h[n].children,
         \A x \in R : h[x].parent = n => g[x].next = h[x].next
  PROVE  Kids(g, n) = Kids(h, n)
<1> DEFINE s == Kids(h, n)
<1>1. Chained(h, n, s) /\ ListRight(h, R, n, s)
  BY KidsAre, KidsListed
<1> HIDE DEF s
<1>2. \A i \in 1 .. Len(s) : g[s[i]].next = h[s[i]].next
  BY <1>1 DEF ListRight
<1>3. Len(s) \in Nat /\ (s # <<>> <=> Len(s) > 0)
  BY <1>1 DEF ListRight
<1>4. \A i \in 1 .. Len(s) - 1 : g[s[i]].next = s[i + 1]
  BY <1>1, <1>2, <1>3 DEF Chained
<1>5. s # <<>> => s[1] = g[n].children /\ g[s[Len(s)]].next = Null
  BY <1>1, <1>2, <1>3 DEF Chained
<1>6. Chained(g, n, s)
  BY <1>1, <1>4, <1>5 DEF Chained
<1>7. Kids(g, n) = s
  BY <1>6, KidsAre
<1> QED
  BY <1>7 DEF s

LEMMA ShapeSame ==
  ASSUME NEW h, NEW R, Forest(h, R), NEW g, Forest(g, R), \A x \in R : SamePointers(g, h, x)
  PROVE  Shape(g, R) = Shape(h, R)
<1>1. ASSUME NEW n \in R PROVE Kids(g, n) = Kids(h, n)
  <2>1. n \in R \cap R /\ g[n].children = h[n].children
        /\ \A x \in R : g[x].next = h[x].next
    BY DEF SamePointers
  <2> QED
    BY <2>1, KidsFrame
<1> QED
  BY <1>1 DEF Shape

LEMMA ShapeNew ==
  ASSUME NEW h, NEW R, Forest(h, R), NEW g, NEW c \in Nodes \ R, Forest(g, R \cup {c}),
         g[c].children = Null, \A x \in Nodes \ {c} : g[x] = h[x]
  PROVE  Shape(g, R \cup {c}) = Shape(h, R)
<1>r. R \in SUBSET Nodes
  BY DEF Forest
<1>0. \A x \in R : x \in Nodes \ {c}
  BY <1>r
<1>1. ASSUME NEW n \in R PROVE Kids(g, n) = Kids(h, n)
  <2>1. n \in R \cap (R \cup {c}) /\ g[n] = h[n] /\ \A x \in R : g[x] = h[x]
    BY <1>0
  <2> DEFINE Q == R \cup {c}
  <2> HIDE DEF Q
  <2>2. Forest(g, Q) /\ n \in R \cap Q
    BY <2>1 DEF Q
  <2> QED
    BY <2>1, <2>2, KidsFrame
<1>2. Kids(g, c) = <<>>
  BY KidsWalk
<1> QED
  BY <1>1, <1>2 DEF Shape

LEMMA ShapeAdded ==
  ASSUME NEW h, NEW R, Forest(h, R), NEW p \in R, NEW c \in R,
         h[c].parent = Null, p # c, Forest(xmpp_stanza_add_child(h, p, c), R)
  PROVE  Shape(xmpp_stanza_add_child(h, p, c), R) = [Shape(h, R) EXCEPT ![p] = Append(@, c)]
<1> DEFINE g == xmpp_stanza_add_child(h, p, c)
           s == Kids(h, p)
           t == Append(s, c)
<1>r. R \in SUBSET Nodes /\ Null \notin R
  BY PointersAre DEF Forest
<1>1. PICK l : IsLastChild(h, R, p, l) /\ g = Added(h, p, c, l)
  BY AddIs
<1>2. \A x \in Nodes : /\ g[x].next = IF x = l THEN c ELSE h[x].next
                       /\ g[x].children = IF x = p /\ l = Null THEN c ELSE h[x].children
  BY <1>1 DEF Added
<1>3. /\ l \in R \cup {Null}
      /\ l = Null <=> h[p].children = Null
      /\ l # Null => h[l].parent = p /\ h[l].next = Null
  BY <1>1 DEF IsLastChild
<1>f. Forest(g, R)
  OBVIOUS
<1> HIDE DEF g
<1>4. ASSUME NEW n \in R, n # p PROVE Kids(g, n) = Kids(h, n)
  <2>1. n \in R \cap R /\ g[n].children = h[n].children
    BY <1>2, <1>4, <1>r
  <2>2. ASSUME NEW x \in R, h[x].parent = n PROVE g[x].next = h[x].next
    <3>1. x # l
      BY <1>3, <1>4, <1>r, <2>2
    <3> QED
      BY <3>1, <1>2, <1>r
  <2> QED
    BY <1>f, <2>1, <2>2, KidsFrame
<1>5. ListRight(h, R, p, s) /\ Chained(h, p, s)
  BY KidsListed, KidsAre
<1> HIDE DEF s
<1>6. /\ s \in Seq(Nodes) /\ Len(s) \in Nat
      /\ s = <<>> <=> Len(s) = 0
      /\ \A i \in 1 .. Len(s) : s[i] \in R /\ s[i] \in Nodes
      /\ s = <<>> <=> h[p].children = Null
      /\ s # <<>> => s[1] = h[p].children /\ h[s[Len(s)]].next = Null
      /\ \A i \in 1 .. Len(s) - 1 : h[s[i]].next = s[i + 1]
  BY <1>5, <1>r DEF ListRight, Chained
<1>7. /\ t \in Seq(Nodes) /\ Len(t) = Len(s) + 1
      /\ \A i \in 1 .. Len(s) : t[i] = s[i]
      /\ t[Len(s) + 1] = c
  BY <1>6, <1>r, AppendProperties
<1> HIDE DEF t
<1>8. g[c].next = Null /\ c \in Nodes
  <2>1. h[c].next = Null /\ c # l
    <3>1. h[c].next = Null
      BY DEF Forest, Linked
    <3> QED
      BY <3>1, <1>3, <1>r
  <2> QED
    BY <2>1, <1>2, <1>r
\* The last child, and nobody else, is given another next.
<1>9. s # <<>> => l = s[Len(s)]
  <2> SUFFICES ASSUME s # <<>> PROVE l = s[Len(s)]
    OBVIOUS
  <2>1. l \in R /\ h[l].parent = p /\ h[l].next = Null
    BY <1>3, <1>6
  <2>2. l \in Range(s)
    BY <2>1, KidsRight DEF s
  <2>3. PICK i \in 1 .. Len(s) : l = s[i]
    BY <2>2, <1>5 DEF Range, ListRight
  <2>4. i # Len(s) => i \in 1 .. Len(s) - 1 /\ i + 1 \in 1 .. Len(s)
    BY <1>6
  <2>5. i # Len(s) => s[i + 1] # Null
    BY <2>4, <1>6, <1>r
  <2> QED
    BY <2>1, <2>3, <2>4, <2>5, <1>6
<1>10. ASSUME NEW i \in 1 .. Len(t) - 1 PROVE g[t[i]].next = t[i + 1]
  <2>1. i \in 1 .. Len(s)
    BY <1>6, <1>7
  <2>2. s # <<>> /\ t[i] = s[i] /\ s[i] \in Nodes
    BY <2>1, <1>6, <1>7
  <2>3. CASE i = Len(s)
    BY <2>2, <2>3, <1>2, <1>7, <1>9
  <2>4. CASE i # Len(s)
    <3>1. i \in 1 .. Len(s) - 1 /\ i + 1 \in 1 .. Len(s)
      BY <2>1, <2>4, <1>6
    <3>2. h[s[i]].next = s[i + 1] /\ s[i + 1] # Null /\ t[i + 1] = s[i + 1]
      BY <3>1, <1>6, <1>7, <1>r
    <3>3. s[i] # l
      BY <3>2, <1>3, <1>6, <1>9, <2>2
    <3> QED
      BY <3>2, <3>3, <2>2, <1>2
  <2> QED
    BY <2>3, <2>4
<1>11. t # <<>> /\ g[p].children # Null /\ t[1] = g[p].children
  <2>1. t # <<>>
    BY <1>6, <1>7, EmptySeq
  <2>2. CASE s = <<>>
    <3>1. l = Null /\ Len(s) = 0
      BY <2>2, <1>3, <1>6
    <3>2. g[p].children = c /\ t[1] = c
      BY <3>1, <1>2, <1>7, <1>r
    <3> QED
      BY <2>1, <3>2, <1>r
  <2>3. CASE s # <<>>
    <3>1. l # Null /\ 1 \in 1 .. Len(s)
      BY <2>3, <1>3, <1>6
    <3>2. g[p].children = h[p].children /\ t[1] = s[1]
      BY <3>1, <1>2, <1>7, <1>r
    <3> QED
      BY <2>1, <2>3, <3>2, <1>6
  <2> QED
    BY <2>2, <2>3
<1>12. Chained(g, p, t)
  BY <1>7, <1>8, <1>10, <1>11 DEF Chained
<1>13. Kids(g, p) = t
  BY <1>12, <1>f, KidsAre
<1>14. \A n \in Nodes : Shape(g, R)[n] =
         IF n = p THEN Append(Shape(h, R)[n], c) ELSE Shape(h, R)[n]
  BY <1>4, <1>13 DEF Shape, t, s
<1>15. Shape(g, R) = [Shape(h, R) EXCEPT ![p] = Append(@, c)]
  <2>1. /\ Shape(g, R) = [n \in Nodes |-> Shape(g, R)[n]]
        /\ Shape(h, R) = [n \in Nodes |-> Shape(h, R)[n]]
    BY DEF Shape
  <2> QED
    BY <1>14, <2>1
<1> QED
  BY <1>15 DEF g

\* The trees of g are those of h with c as a new last child of s.
ShapeGrows(g, h, R, s, c) ==
  Shape(g, R \cup {c}) = [Shape(h, R) EXCEPT ![s] = Append(@, c)]

LEMMA ShapeGrown ==
  ASSUME NEW h, NEW R, Forest(h, R), NEW s \in R, NEW c \in Nodes \ R
  PROVE  ShapeGrows(xmpp_stanza_release(xmpp_stanza_add_child(xmpp_stanza_new(h, c), s, c), c),
                    h, R, s, c)
<1> DEFINE h1 == xmpp_stanza_new(h, c)
           h2 == xmpp_stanza_add_child(h1, s, c)
           h3 == xmpp_stanza_release(h2, c)
           Q == R \cup {c}
<1>0. h1[c].children = Null /\ \A x \in Nodes \ {c} : h1[x] = h[x]
  BY DEF xmpp_stanza_new, Blank, Forest
<1>1. Alone(h1, h, R, c)
  BY NewAlone
<1> HIDE DEF h1
<1>r. R \in SUBSET Nodes /\ s \in Nodes /\ s # c /\ s \in Q /\ c \in Q /\ c \in Nodes
  BY DEF Forest
<1>2. Shape(h1, Q) = Shape(h, R)
  BY <1>0, <1>1, ShapeNew DEF Alone
<1> HIDE DEF Q
<1>3. /\ Forest(h1, Q) /\ h1[c].parent = Null /\ h1[c].ref = 1
      /\ s \notin Below(h1, {c})
  BY <1>1, <1>r DEF Alone, Q
<1>4. AttachedTo(h2, h1, Q, s, c)
  BY <1>r, <1>3, Attached
<1>5. Shape(h2, Q) = [Shape(h1, Q) EXCEPT ![s] = Append(@, c)]
  <2>1. Forest(h2, Q)
    BY <1>4 DEF AttachedTo
  <2> QED
    BY <1>r, <1>3, <2>1, ShapeAdded
<1> HIDE DEF h2
<1>6. Forest(h2, Q) /\ h2[c].ref = 2 /\ h2 \in [Nodes -> NodeType]
  BY <1>3, <1>4, <1>r DEF AttachedTo, Forest
<1>7. h3 = [h2 EXCEPT ![c].ref = 1]
  <2>1. h3 = [h2 EXCEPT ![c].ref = @ - 1]
    BY <1>6, <1>r, ReleaseKeeps
  <2> QED
    BY <2>1, <1>6, <1>r
<1> HIDE DEF h3
<1>8. /\ Forest(h3, Q)
      /\ \A x \in Nodes : SamePointers(h3, h2, x)
  <2>1. /\ Forest([h2 EXCEPT ![c].ref = 1], Q)
        /\ \A x \in Nodes : SamePointers([h2 EXCEPT ![c].ref = 1], h2, x)
    BY <1>6, <1>r, Recounted
  <2> QED
    BY <2>1, <1>7
<1>9. Shape(h3, Q) = Shape(h2, Q)
  <2>1. \A x \in Q : SamePointers(h3, h2, x)
    BY <1>8, <1>r DEF Q
  <2> QED
    BY <1>6, <1>8, <2>1, ShapeSame
<1>10. Shape(h3, Q) = [Shape(h, R) EXCEPT ![s] = Append(@, c)]
  BY <1>2, <1>5, <1>9
<1> QED
  BY <1>10 DEF ShapeGrows, h1, h2, h3, Q

\* The children of a copy are the copies of the children.
LEMMA KidsCopied ==
  ASSUME NEW h, NEW R, Forest(h, R), NEW s \in R,
         NEW f \in Injection(Below(h, {s}), Nodes \ R), NEW m \in Below(h, {s}),
         NEW g, Forest(g, R \cup Range(f)), CopyRight(h, s, f, Below(h, {s}), g)
  PROVE  Kids(g, f[m]) = [i \in DOMAIN Kids(h, m) |-> f[Kids(h, m)[i]]]
<1> DEFINE B == Below(h, {s})
           u == Kids(h, m)
           t == [i \in DOMAIN u |-> f[u[i]]]
           Q == R \cup Range(f)
<1>b. /\ s \in B /\ B \subseteq R /\ m \in B /\ h[s].parent \notin B
      /\ \A x \in R : x \in B <=> x \in {s} \/ h[x].parent \in B
  BY BelowStep
<1>f. f \in [B -> Nodes \ R] /\ DOMAIN f = B
  BY DEF Injection
<1>1. ListRight(h, R, m, u) /\ Chained(h, m, u)
  BY <1>b, KidsListed, KidsAre
<1>c. \A x \in B : /\ f[x] \in Range(f) /\ f[x] \in Nodes /\ f[x] # Null
                   /\ g[f[x]].children = Image(f, h[x].children)
                   /\ x # s => g[f[x]].next = Image(f, h[x].next)
  <2>1. \A x \in B : f[x] \in Range(f) /\ f[x] \in Nodes /\ f[x] # Null
    BY <1>f, NullIsNoNode DEF Range
  <2>2. ASSUME NEW x \in B
        PROVE  /\ g[f[x]].children = Image(f, h[x].children)
               /\ x # s => g[f[x]].next = Image(f, h[x].next)
    <3>1. g[f[x]] = [ref      |-> 1,
                     parent   |-> IF x = s THEN Null ELSE Image(f, h[x].parent),
                     prev     |-> IF x = s THEN Null ELSE Image(f, h[x].prev),
                     next     |-> IF x = s THEN Null ELSE Image(f, h[x].next),
                     children |-> Image(f, h[x].children)]
      BY DEF CopyRight
    <3> QED
      BY <3>1
  <2> QED
    BY <2>1, <2>2
<1>q. Forest(g, Q) /\ f[m] \in Q
  BY <1>b, <1>c
<1> HIDE DEF B, u, Q
<1>2. /\ Len(u) \in Nat /\ DOMAIN u = 1 .. Len(u)
      /\ u # <<>> <=> Len(u) > 0
      /\ u = <<>> <=> h[m].children = Null
      /\ u # <<>> => u[1] = h[m].children /\ h[u[Len(u)]].next = Null
      /\ \A i \in 1 .. Len(u) - 1 : h[u[i]].next = u[i + 1]
      /\ \A i \in 1 .. Len(u) : u[i] \in R /\ h[u[i]].parent = m
  BY <1>1 DEF ListRight, Chained
<1>3. \A i \in 1 .. Len(u) : u[i] \in B /\ u[i] # s
  BY <1>2, <1>b
<1>4. t = [i \in 1 .. Len(u) |-> f[u[i]]] /\ t \in Seq(Nodes) /\ Len(t) = Len(u)
  <2>1. t = [i \in 1 .. Len(u) |-> f[u[i]]]
    BY <1>2
  <2>2. \A i \in 1 .. Len(u) : f[u[i]] \in Nodes
    BY <1>3, <1>c
  <2> QED
    BY <2>1, <2>2, <1>2
<1> HIDE DEF t
<1>n. \A x \in B : x # Null
  <2>1. Null \notin R
    BY PointersAre
  <2> QED
    BY <2>1, <1>b
<1>5. \A i \in 1 .. Len(t) - 1 : g[t[i]].next = t[i + 1]
  <2>1. ASSUME NEW i \in 1 .. Len(u) - 1 PROVE g[t[i]].next = t[i + 1]
    <3>1. i \in 1 .. Len(u) /\ i + 1 \in 1 .. Len(u)
      BY <1>2
    <3>2. t[i] = f[u[i]] /\ t[i + 1] = f[u[i + 1]]
      BY <3>1, <1>4
    <3>3. g[f[u[i]]].next = Image(f, u[i + 1]) /\ u[i + 1] # Null
      BY <3>1, <1>2, <1>3, <1>c, <1>n
    <3> QED
      BY <3>2, <3>3 DEF Image
  <2> QED
    BY <2>1, <1>4
<1>6. t # <<>> => t[1] = g[f[m]].children /\ g[t[Len(t)]].next = Null
  <2> SUFFICES ASSUME t # <<>> PROVE t[1] = g[f[m]].children /\ g[t[Len(t)]].next = Null
    OBVIOUS
  <2>1. Len(u) > 0
    BY <1>2, <1>4, EmptySeq
  <2>2. 1 \in 1 .. Len(u) /\ Len(u) \in 1 .. Len(u) /\ u # <<>>
    BY <2>1, <1>2
  <2>3. t[1] = f[u[1]] /\ t[Len(t)] = f[u[Len(u)]]
    BY <2>2, <1>4
  <2>4. u[1] # Null /\ u[1] = h[m].children
    BY <2>2, <1>2, <1>3, <1>n
  <2>5. g[f[m]].children = f[u[1]]
    BY <2>4, <1>b, <1>c DEF Image
  <2>6. g[f[u[Len(u)]]].next = Null
    BY <2>2, <1>2, <1>3, <1>c DEF Image
  <2> QED
    BY <2>3, <2>5, <2>6
<1>7. t = <<>> <=> g[f[m]].children = Null
  <2>1. t = <<>> <=> u = <<>>
    BY <1>2, <1>4, EmptySeq
  <2>2. g[f[m]].children = IF h[m].children = Null THEN Null ELSE f[h[m].children]
    BY <1>b, <1>c DEF Image
  <2>3. h[m].children # Null => f[h[m].children] # Null
    <3>1. u # <<>> => u[1] \in B /\ u[1] = h[m].children
      <4>1. u # <<>> => 1 \in 1 .. Len(u)
        BY <1>2
      <4> QED
        BY <4>1, <1>2, <1>3
    <3> QED
      BY <3>1, <1>2, <1>c
  <2> QED
    BY <2>1, <2>2, <2>3, <1>2
<1>8. Chained(g, f[m], t)
  BY <1>4, <1>5, <1>6, <1>7 DEF Chained
<1>9. Kids(g, f[m]) = t
  BY <1>8, <1>q, KidsAre
<1> QED
  BY <1>9 DEF t, u

CopyShape(k, f) ==
  [n \in Nodes |->
     IF n \in Range(f)
     THEN LET m == CHOOSE m \in DOMAIN f : f[m] = n
          IN  [i \in DOMAIN k[m] |-> f[k[m][i]]]
     ELSE k[n]]

LEMMA ShapeCopied ==
  ASSUME NEW h, NEW R, Forest(h, R), NEW s \in R,
         NEW f \in Injection(Below(h, {s}), Nodes \ R)
  PROVE  Shape(xmpp_stanza_copy(h, s, f), R \cup Range(f)) = CopyShape(Shape(h, R), f)
<1> DEFINE g == xmpp_stanza_copy(h, s, f)
           B == Below(h, {s})
           Q == R \cup Range(f)
           k == Shape(h, R)
<1>1. /\ Forest(g, Q) /\ Range(f) \subseteq Nodes \ R
      /\ CopyRight(h, s, f, B, g)
  BY CopyForest
<1> HIDE DEF g
<1>r. R \in SUBSET Nodes /\ B \subseteq R
  BY BelowStep DEF Forest
<1>2. ASSUME NEW n \in R PROVE Kids(g, n) = Kids(h, n)
  <2>1. \A x \in R : x \in Nodes \ Range(f)
    BY <1>1, <1>r
  <2>2. \A x \in R : g[x] = h[x]
    BY <2>1, <1>1 DEF CopyRight
  <2>3. n \in R \cap Q
    OBVIOUS
  <2> HIDE DEF Q
  <2> QED
    BY <1>1, <2>2, <2>3, KidsFrame
<1>3. ASSUME NEW n \in Range(f)
      PROVE  Kids(g, n) = LET m == CHOOSE m \in DOMAIN f : f[m] = n
                          IN  [i \in DOMAIN k[m] |-> f[k[m][i]]]
  <2> DEFINE m == CHOOSE m \in DOMAIN f : f[m] = n
  <2>1. \E a \in DOMAIN f : f[a] = n
    BY DEF Range
  <2>2. m \in DOMAIN f /\ f[m] = n
    BY <2>1
  <2> HIDE DEF m
  <2>3. m \in B
    BY <2>2 DEF Injection
  <2>4. Kids(g, n) = [i \in DOMAIN Kids(h, m) |-> f[Kids(h, m)[i]]]
    <3>1. Kids(g, f[m]) = [i \in DOMAIN Kids(h, m) |-> f[Kids(h, m)[i]]]
      BY <2>3, <1>1, KidsCopied
    <3> QED
      BY <3>1, <2>2
  <2>5. k[m] = Kids(h, m)
    BY <2>3, <1>r DEF Shape
  <2>6. Kids(g, n) = [i \in DOMAIN k[m] |-> f[k[m][i]]]
    BY <2>4, <2>5
  <2> QED
    BY <2>6 DEF m
<1> HIDE DEF k
<1>4. ASSUME NEW n \in Nodes
      PROVE  (IF n \in Q THEN Kids(g, n) ELSE <<>>)
               = IF n \in Range(f)
                 THEN LET m == CHOOSE m \in DOMAIN f : f[m] = n
                      IN  [i \in DOMAIN k[m] |-> f[k[m][i]]]
                 ELSE k[n]
  <2>1. CASE n \in Range(f)
    BY <2>1, <1>3
  <2>2. CASE n \notin Range(f)
    BY <2>2, <1>2 DEF k, Shape
  <2> QED
    BY <2>1, <2>2
<1>5. Shape(g, Q) = CopyShape(k, f)
  BY <1>4 DEF Shape, CopyShape
<1> QED
  BY <1>5 DEF g, k

(* A release keeps what an owner reaches, and its children.                 *)
ReleasedTo(g, Q, h, R) ==
  \/ Q = R /\ \A x \in R : SamePointers(g, h, x)
  \/ \E r \in R : /\ h[r].parent = Null
                  /\ Q = R \ Below(h, {r})
                  /\ \A x \in R \ Below(h, {r}) : g[x] = h[x]

LEMMA PathsReleased ==
  ASSUME NEW h, NEW R, Forest(h, R), NEW g, NEW Q, Forest(g, Q), ReleasedTo(g, Q, h, R)
  PROVE  /\ Q \subseteq R
         /\ \A x \in Q : SamePath(g, h, x) /\ Kids(g, x) = Kids(h, x)
         /\ \A x \in R \ Q : Up(h, x) \cap Q = {}
<1>1. CASE Q = R /\ \A x \in R : SamePointers(g, h, x)
  <2>1. \A x \in R : SamePath(g, h, x)
    <3>1. R \in SUBSET (R \cap Q)
      BY <1>1
    <3>2. \A x \in R : g[x].parent = h[x].parent /\ h[x].parent \in R \cup {Null}
      BY <1>1 DEF SamePointers, Forest, Linked
    <3> QED
      BY <3>1, <3>2, PathFrame
  <2>2. ASSUME NEW n \in R PROVE Kids(g, n) = Kids(h, n)
    <3>1. n \in R \cap Q /\ g[n].children = h[n].children
          /\ \A x \in R : g[x].next = h[x].next
      BY <1>1 DEF SamePointers
    <3> QED
      BY <3>1, KidsFrame
  <2> QED
    BY <1>1, <2>1, <2>2
<1>2. CASE \E r \in R : /\ h[r].parent = Null
                        /\ Q = R \ Below(h, {r})
                        /\ \A x \in R \ Below(h, {r}) : g[x] = h[x]
  <2>1. PICK r \in R : /\ h[r].parent = Null
                       /\ Q = R \ Below(h, {r})
                       /\ \A x \in R \ Below(h, {r}) : g[x] = h[x]
    BY <1>2
  <2> DEFINE B == Below(h, {r})
  <2>b. /\ B = {x \in R : Root(h, x) = r}
        /\ \A x \in R : x \in B <=> x \in {r} \/ h[x].parent \in B
    BY <2>1, BelowRoot, BelowStep
  <2>2. \A x \in Q : SamePath(g, h, x)
    BY <2>1, TreeGone DEF Forest
  <2> HIDE DEF B
  <2>q. Q = R \ B /\ \A x \in R \ B : g[x] = h[x]
    BY <2>1 DEF B
  <2>n. Null \notin Q
    BY PointersAre
  <2>3. ASSUME NEW n \in Q PROVE Kids(g, n) = Kids(h, n)
    <3>1. n \in R \cap Q /\ g[n].children = h[n].children
      BY <2>q
    <3>2. ASSUME NEW x \in R, h[x].parent = n PROVE g[x].next = h[x].next
      <4>1. x \notin B
        BY <3>2, <2>1, <2>b, <2>q, <2>n
      <4> QED
        BY <4>1, <2>q
    <3> QED
      BY <3>1, <3>2, KidsFrame
  <2>4. ASSUME NEW x \in R \ Q PROVE Up(h, x) \cap Q = {}
    <3>1. x \in B /\ x \in R
      BY <2>q
    <3>2. \A y \in Up(h, x) : y \in R /\ Root(h, y) = Root(h, x)
      BY <3>1, AboveIs
    <3> QED
      BY <3>1, <3>2, <2>b, <2>q
  <2> QED
    BY <2>2, <2>3, <2>4, <2>q
<1> QED
  BY <1>1, <1>2 DEF ReleasedTo

LEMMA ShapeReleased ==
  ASSUME NEW h, NEW R, Forest(h, R), NEW g, NEW Q, Forest(g, Q), ReleasedTo(g, Q, h, R),
         NEW A \in SUBSET Q, Below(g, A) = Q
  PROVE  Shape(g, Q) = [n \in Nodes |-> IF n \in Tree!Under(Shape(h, R), A)
                                        THEN Shape(h, R)[n] ELSE <<>>]
<1>1. /\ Q \subseteq R
      /\ \A x \in Q : SamePath(g, h, x) /\ Kids(g, x) = Kids(h, x)
      /\ \A x \in R \ Q : Up(h, x) \cap Q = {}
  BY PathsReleased
<1>2. A \in SUBSET R
  BY <1>1
<1>3. Tree!Under(Shape(h, R), A) = {x \in R : Up(h, x) \cap A # {}}
  BY <1>2, UnderIsBelow, BelowIs
<1>4. Q = {x \in Q : Up(g, x) \cap A # {}}
  BY BelowIs
<1>5. Tree!Under(Shape(h, R), A) = Q
  BY <1>1, <1>3, <1>4 DEF SamePath
<1>6. \A n \in Nodes : n \in Q => Shape(h, R)[n] = Kids(g, n)
  BY <1>1 DEF Shape
<1> DEFINE k == Shape(h, R)
           U == Tree!Under(k, A)
<1>7. \A n \in Nodes : (IF n \in Q THEN Kids(g, n) ELSE <<>>) = IF n \in U THEN k[n] ELSE <<>>
  BY <1>5, <1>6
<1> HIDE DEF k, U
<1>8. Shape(g, Q) = [n \in Nodes |-> IF n \in U THEN k[n] ELSE <<>>]
  BY <1>7 DEF Shape
<1> QED
  BY <1>8 DEF k, U

-----------------------------------------------------------------------------
(* The heap implements the trees.                                           *)

Owners == held \cup ({ParserStanza} \ {Null})

TreeKids ==
  LET reachable == Reachable
  IN  [n \in Nodes |-> IF n \in reachable THEN Kids(node, n) ELSE <<>>]

TreesRight ==
  /\ TreeKids = Shape(node, Owned)
  /\ Owners \in SUBSET Owned /\ Below(node, Owners) = Owned
  /\ Forest(node, Owned)
  /\ ParserStanza \in Owned \cup {Null}

LEMMA TreeIs == StanzaInv => TreesRight
<1> SUFFICES ASSUME StanzaInv PROVE TreesRight
  OBVIOUS
<1>1. Reachable = Owned
  BY ReachableIs
<1>2. TreeKids = Shape(node, Owned)
  BY <1>1 DEF TreeKids, Shape
<1>3. ParserStanza \in Owned \cup {Null}
  BY ParserStanzaIs
<1>4. held \subseteq Owned /\ Forest(node, Owned)
  BY DEF StanzaInv
<1>5. Below(node, Owners) = Owned
  BY <1>1 DEF Reachable, Owners
<1>6. Owners \in SUBSET Owned
  BY <1>3, <1>4 DEF Owners
<1> QED
  BY <1>2, <1>3, <1>4, <1>5, <1>6 DEF TreesRight

LEMMA TreeIsNext == StanzaInv' => TreesRight'
BY TreeIs, PTL

LEMMA AliveIs ==
  ASSUME StanzaInv
  PROVE  /\ Tree!Alive = Owned /\ Tree!Unused = Nodes \ Owned
         /\ \A S \in SUBSET Owned : Tree!Under(TreeKids, S) = Below(node, S)
<1>1. /\ TreeKids = Shape(node, Owned)
      /\ Owners \in SUBSET Owned /\ Below(node, Owners) = Owned
      /\ Forest(node, Owned)
  BY TreeIs DEF TreesRight
<1>2. \A S \in SUBSET Owned : Tree!Under(TreeKids, S) = Below(node, S)
  BY <1>1, UnderIsBelow
<1>3. Tree!Alive = Tree!Under(TreeKids, Owners)
  BY Zenon DEF Tree!Alive, TreeKids, Owners, Tree!Owned
<1>4. Tree!Alive = Owned
  BY <1>1, <1>2, <1>3
<1>5. Tree!Unused = Nodes \ Owned
  BY <1>4, Zenon DEF Tree!Unused
<1> QED
  BY <1>2, <1>4, <1>5

LEMMA FoldNew ==
  ASSUME NEW n, held' = held \cup {n}, n \in Tree!Unused,
         ParserStanza' = ParserStanza, TreeKids' = TreeKids
  PROVE  Tree!New(n)
BY Zenon DEF Tree!New, TreeKids

LEMMA FoldOpen ==
  ASSUME NEW n, ParserStanza = Null, ParserStanza' = n, n \in Tree!Unused,
         held' = held, TreeKids' = TreeKids
  PROVE  Tree!Open(n)
BY Zenon DEF Tree!Open, TreeKids

LEMMA FoldKeep ==
  ASSUME ParserStanza # Null, held' = held \cup {ParserStanza},
         ParserStanza' = ParserStanza, TreeKids' = TreeKids
  PROVE  Tree!Keep
BY Zenon DEF Tree!Keep, TreeKids

LEMMA FoldAttach ==
  ASSUME NEW p, NEW c, held' = held, ParserStanza' = ParserStanza,
         p \in Tree!Alive,
         \/ c \in Tree!Unused
         \/ /\ c \in Tree!Alive
            /\ p \notin Tree!Under(TreeKids, {c})
            /\ \A n \in Nodes : c \notin Range(TreeKids[n]),
         TreeKids' = [TreeKids EXCEPT ![p] = Append(@, c)]
  PROVE  Tree!Attach(p, c)
BY Zenon DEF Tree!Attach, TreeKids, Tree!Range, Range

LEMMA FoldCopy ==
  ASSUME NEW s, ParserStanza' = ParserStanza, s \in Tree!Alive,
         NEW f \in Injection(Tree!Under(TreeKids, {s}), Tree!Unused),
         held' = held \cup {f[s]}, TreeKids' = CopyShape(TreeKids, f)
  PROVE  Tree!Copy(s)
<1>1. f \in Tree!Injection(Tree!Under(TreeKids, {s}), Tree!Unused)
  BY TreeOperators, Zenon
<1> QED
  BY <1>1, Zenon DEF Tree!Copy, TreeKids, CopyShape, Tree!Range, Range

KeptIn(k, A) == [n \in Nodes |-> IF n \in Tree!Under(k, A) THEN k[n] ELSE <<>>]

LEMMA FoldDrop ==
  ASSUME NEW n \in held, held' = held \ {n}, ParserStanza' = ParserStanza,
         TreeKids' = KeptIn(TreeKids, held' \cup ({ParserStanza} \ {Null}))
  PROVE  Tree!Drop(n)
BY Zenon DEF Tree!Drop, TreeKids, KeptIn, Tree!Kept, Tree!Owned

LEMMA FoldClose ==
  ASSUME ParserStanza' = Null, held' = held,
         TreeKids' = KeptIn(TreeKids, held \cup ({Null} \ {Null}))
  PROVE  Tree!Close
BY Zenon DEF Tree!Close, TreeKids, KeptIn, Tree!Kept, Tree!Owned

LEMMA FoldInit ==
  ASSUME TreeKids = [n \in Nodes |-> <<>>], held = {}, ParserStanza = Null
  PROVE  Tree!Init
BY Zenon DEF Tree!Init, TreeKids

LEMMA FoldVars ==
  ASSUME TreeKids' = TreeKids, held' = held, ParserStanza' = ParserStanza
  PROVE  UNCHANGED Tree!vars
BY Zenon DEF Tree!vars, TreeKids

(* What each step does to the trees.                                        *)

\* The pointers of all nodes with an owner stay: no tree changes.
LEMMA TreesSame ==
  ASSUME StanzaInv, StanzaInv', Owned' = Owned, \A x \in Owned : SamePointers(node', node, x)
  PROVE  TreeKids' = TreeKids
<1>1. TreeKids = Shape(node, Owned) /\ Forest(node, Owned)
  BY TreeIs DEF TreesRight
<1>2. TreeKids' = Shape(node', Owned') /\ Forest(node', Owned')
  BY TreeIsNext DEF TreesRight
<1>3. Shape(node', Owned) = Shape(node, Owned)
  BY <1>1, <1>2, ShapeSame
<1> QED
  BY <1>1, <1>2, <1>3

LEMMA HeapSame ==
  ASSUME StanzaInv, StanzaInv', UNCHANGED <<node, held, lost>>, ParserStanza' = ParserStanza
  PROVE  UNCHANGED Tree!vars
<1>1. Owned' = Owned
  BY HeapKept
<1>2. \A x \in Owned : SamePointers(node', node, x)
  BY DEF SamePointers
<1>3. TreeKids' = TreeKids
  BY <1>1, <1>2, TreesSame
<1> QED
  BY <1>3, FoldVars

\* A release leaves the part of the trees that the owners of the next state reach.
LEMMA TreesReleased ==
  ASSUME StanzaInv, StanzaInv', Released
  PROVE  /\ TreeKids' = KeptIn(TreeKids, Owners')
         /\ \A x \in Owned' : SamePath(node', node, x)
<1>1. TreeKids = Shape(node, Owned) /\ Forest(node, Owned)
  BY TreeIs DEF TreesRight
<1>2. /\ TreeKids' = Shape(node', Owned') /\ Forest(node', Owned')
      /\ Owners' \in SUBSET Owned' /\ Below(node', Owners') = Owned'
  BY TreeIsNext DEF TreesRight
<1>3. ReleasedTo(node', Owned', node, Owned)
  BY DEF Released, ReleasedTo
<1>4. Shape(node', Owned') = KeptIn(Shape(node, Owned), Owners')
  BY <1>1, <1>2, <1>3, ShapeReleased DEF KeptIn
<1>5. \A x \in Owned' : SamePath(node', node, x)
  BY <1>1, <1>2, <1>3, PathsReleased
<1> QED
  BY <1>1, <1>2, <1>4, <1>5

LEMMA CloseMaps ==
  ASSUME StanzaInv, StanzaInv', Released, held' = held, ParserStanza' = Null
  PROVE  Tree!Close
<1>1. TreeKids' = KeptIn(TreeKids, Owners')
  BY TreesReleased
<1>2. Owners' = held \cup ({Null} \ {Null})
  BY DEF Owners
<1> QED
  BY <1>1, <1>2, FoldClose

LEMMA GrowMaps ==
  ASSUME StanzaInv, StanzaInv', NEW c \in Free(node), stanza # Null, Grow(c), held' = held,
         Owned' = Owned \cup {c}, ParserStanza' = ParserStanza
  PROVE  Tree!Attach(stanza, c) /\ stanza \in Nodes /\ c \in Nodes
<1>1. TreeKids = Shape(node, Owned) /\ Forest(node, Owned)
  BY TreeIs DEF TreesRight
<1>2. TreeKids' = Shape(node', Owned')
  BY TreeIsNext DEF TreesRight
<1>3. c \in Nodes \ Owned /\ stanza \in Owned /\ Owned \in SUBSET Nodes
  BY OwnedIs, ParserStanzaIs
<1>4. node' = xmpp_stanza_release(
                xmpp_stanza_add_child(xmpp_stanza_new(node, c), stanza, c), c)
  BY DEF Grow
<1>5. Shape(node', Owned') = [Shape(node, Owned) EXCEPT ![stanza] = Append(@, c)]
  <2>1. ShapeGrows(node', node, Owned, stanza, c)
    BY <1>1, <1>3, <1>4, ShapeGrown
  <2> QED
    BY <2>1 DEF ShapeGrows
<1>6. stanza \in Tree!Alive /\ c \in Tree!Unused
  BY <1>3, AliveIs
<1>7. TreeKids' = [TreeKids EXCEPT ![stanza] = Append(@, c)]
  BY <1>1, <1>2, <1>5
<1> QED
  BY <1>3, <1>6, <1>7, FoldAttach

\* A new node without children.
LEMMA TreesNew ==
  ASSUME StanzaInv, StanzaInv', NEW c \in Free(node), node' = xmpp_stanza_new(node, c),
         Owned' = Owned \cup {c}
  PROVE  TreeKids' = TreeKids /\ c \in Tree!Unused /\ c \in Nodes
<1>1. TreeKids = Shape(node, Owned) /\ Forest(node, Owned)
  BY TreeIs DEF TreesRight
<1>2. TreeKids' = Shape(node', Owned') /\ Forest(node', Owned')
  BY TreeIsNext DEF TreesRight
<1>3. c \in Nodes \ Owned /\ node \in [Nodes -> NodeType]
  BY OwnedIs
<1>4. node'[c].children = Null /\ \A x \in Nodes \ {c} : node'[x] = node[x]
  BY <1>3 DEF xmpp_stanza_new, Blank
<1>5. Shape(node', Owned \cup {c}) = Shape(node, Owned)
  BY <1>1, <1>2, <1>3, <1>4, ShapeNew
<1>6. c \in Tree!Unused
  BY <1>3, AliveIs
<1> QED
  BY <1>1, <1>2, <1>3, <1>5, <1>6

TreeStep == [Tree!Next]_(Tree!vars)

LEMMA Steps ==
  /\ UNCHANGED Tree!vars => TreeStep
  /\ Tree!Keep => TreeStep
  /\ Tree!Close => TreeStep
  /\ (\E n \in Nodes : Tree!Drop(n) \/ Tree!Open(n) \/ Tree!New(n) \/ Tree!Copy(n)) => TreeStep
  /\ (\E p, c \in Nodes : Tree!Attach(p, c)) => TreeStep
BY Zenon DEF TreeStep, Tree!Next

LEMMA FeedMaps ==
  ASSUME StanzaInv, parser_feed
  PROVE  TreeStep
<1>1. StanzaInv' /\ ParserStanza' = Null /\ (stanza # Null => Released) /\ held' = held
  BY FeedStep DEF parser_feed
<1>2. CASE stanza = Null
  <2>1. node' = node /\ lost' = lost /\ ParserStanza = Null
    BY <1>2, ParserStanzaIs DEF parser_feed
  <2> QED
    BY <2>1, <1>1, HeapSame, Steps
<1>3. CASE stanza # Null
  BY <1>1, <1>3, CloseMaps, Steps
<1> QED
  BY <1>2, <1>3

LEMMA ResetMaps ==
  ASSUME StanzaInv, parser_reset
  PROVE  TreeStep
<1>1. StanzaInv' /\ ParserStanza' = ParserStanza
  BY ResetStep
<1>2. UNCHANGED <<node, held, lost>>
  BY DEF parser_reset
<1> QED
  BY <1>1, <1>2, HeapSame, Steps

LEMMA StartMaps ==
  ASSUME StanzaInv, StartElement
  PROVE  TreeStep
<1>1. /\ calling = FALSE /\ depth < MaxDepth /\ depth' = depth + 1
      /\ held' = held /\ reset' = reset /\ ended' = ended /\ calling' = calling /\ lost' = lost
  BY DEF StartElement, Reading, StanzaInv, ScalarsOK
<1>2. /\ depth \in 0 .. MaxDepth /\ MaxDepth \in Nat /\ depth' \in 0 .. MaxDepth
      /\ ParserRight /\ StanzaInv'
  BY <1>1, MaxDepthAssumption, StartStep DEF StanzaInv, ScalarsOK
<1>3. stanza # Null => Level(node, stanza) \in Nat /\ Level(node, stanza) > 0
                       /\ Level(node, stanza) = depth - 1
  BY <1>1, ParserStanzaIs
<1>4. CASE depth = 0
  <2>1. node' = node /\ stanza' = stanza
    BY <1>4 DEF StartElement
  <2>2. ParserStanza' = ParserStanza
    BY <1>1, <2>1 DEF ParserStanza
  <2> QED
    BY <1>1, <1>2, <2>1, <2>2, HeapSame, Steps
<1>5. CASE depth = 1
  <2>1. PICK c \in Free(node) : stanza' = c /\ node' = xmpp_stanza_new(node, c)
    BY <1>5 DEF StartElement
  <2>2. stanza = Null /\ depth' = 2
    BY <1>1, <1>2, <1>3, <1>5
  <2>3. Owned' = Owned \cup {c} /\ ParserStanza = Null /\ ParserStanza' = c
    BY <1>1, <1>2, <1>5, <2>1, <2>2, OpenStep
  <2>4. TreeKids' = TreeKids /\ c \in Tree!Unused /\ c \in Nodes
    BY <1>2, <2>1, <2>3, TreesNew
  <2>5. Tree!Open(c)
    BY <1>1, <2>3, <2>4, FoldOpen
  <2> QED
    BY <2>4, <2>5, Steps
<1>6. CASE depth > 1
  <2>1. PICK c \in Free(node) : stanza' = c /\ Grow(c)
    BY <1>2, <1>6 DEF StartElement
  <2>2. stanza # Null
    BY <1>2, <1>6 DEF ParserRight
  <2>3. Owned' = Owned \cup {c} /\ ParserStanza' = ParserStanza
    BY <1>1, <1>2, <2>1, <2>2, GrowStep
  <2>4. Tree!Attach(stanza, c) /\ stanza \in Nodes /\ c \in Nodes
    BY <1>1, <1>2, <2>1, <2>2, <2>3, GrowMaps
  <2> QED
    BY <2>4, Steps
<1> QED
  BY <1>2, <1>4, <1>5, <1>6

LEMMA CharactersMap ==
  ASSUME StanzaInv, Characters
  PROVE  TreeStep
<1>1. /\ calling = FALSE /\ depth > 1 /\ depth' = depth /\ stanza' = stanza
      /\ held' = held /\ reset' = reset /\ ended' = ended /\ calling' = calling /\ lost' = lost
  BY DEF Characters, Reading, StanzaInv, ScalarsOK
<1>2. depth \in 0 .. MaxDepth /\ MaxDepth \in Nat /\ ParserRight
  BY MaxDepthAssumption DEF StanzaInv, ScalarsOK
<1>3. PICK c \in Free(node) : Grow(c)
  BY DEF Characters
<1>4. stanza # Null
  BY <1>1, <1>2 DEF ParserRight
<1>5. StanzaInv' /\ Owned' = Owned \cup {c} /\ ParserStanza' = ParserStanza
  BY <1>1, <1>3, <1>4, GrowStep
<1>6. Tree!Attach(stanza, c) /\ stanza \in Nodes /\ c \in Nodes
  BY <1>1, <1>3, <1>4, <1>5, GrowMaps
<1> QED
  BY <1>6, Steps

LEMMA EndMaps ==
  ASSUME StanzaInv, EndElement
  PROVE  TreeStep
<1>1. StanzaInv' /\ ParserStanza' = ParserStanza
  BY EndStep
<1>2. UNCHANGED <<node, held, lost>>
  BY DEF EndElement
<1> QED
  BY <1>1, <1>2, HeapSame, Steps

LEMMA ReturnMaps ==
  ASSUME StanzaInv, StanzaCallbackReturns
  PROVE  TreeStep
<1>1. StanzaInv' /\ Released /\ ParserStanza' = Null /\ held' = held
  BY ReturnStep DEF StanzaCallbackReturns
<1> QED
  BY <1>1, CloseMaps, Steps

LEMMA AppNewMaps ==
  ASSUME StanzaInv, AppNew
  PROVE  TreeStep
<1>1. /\ StanzaInv' /\ ParserStanza' = ParserStanza
      /\ \E c \in Free(node) : /\ node' = xmpp_stanza_new(node, c)
                               /\ held' = held \cup {c} /\ Owned' = Owned \cup {c}
  BY AppNewStep
<1>2. PICK c \in Free(node) : /\ node' = xmpp_stanza_new(node, c)
                              /\ held' = held \cup {c} /\ Owned' = Owned \cup {c}
  BY <1>1
<1>3. TreeKids' = TreeKids /\ c \in Tree!Unused /\ c \in Nodes
  BY <1>1, <1>2, TreesNew
<1>4. Tree!New(c)
  BY <1>1, <1>2, <1>3, FoldNew
<1> QED
  BY <1>3, <1>4, Steps

LEMMA AppCloneMaps ==
  ASSUME StanzaInv, AppClone
  PROVE  TreeStep
<1>1. /\ StanzaInv' /\ ParserStanza' = ParserStanza /\ Owned' = Owned
      /\ \A x \in Owned : SamePointers(node', node, x)
  BY AppCloneStep
<1>2. TreeKids' = TreeKids
  BY <1>1, TreesSame
<1>3. held' = held \cup {ParserStanza} /\ ParserStanza # Null
  BY ParserStanzaIs DEF AppClone, StanzaInv, ScalarsOK
<1>4. Tree!Keep
  BY <1>1, <1>2, <1>3, FoldKeep
<1> QED
  BY <1>4, Steps

LEMMA AppCopyMaps ==
  ASSUME StanzaInv, NEW s \in Nodes, AppCopy(s)
  PROVE  TreeStep
<1>1. /\ StanzaInv' /\ ParserStanza' = ParserStanza
      /\ \E f \in Injection(Below(node, {s}), Nodes \ Owned) :
           /\ node' = xmpp_stanza_copy(node, s, f)
           /\ held' = held \cup {f[s]} /\ Owned' = Owned \cup Range(f)
  BY AppCopyStep
<1>2. PICK f \in Injection(Below(node, {s}), Nodes \ Owned) :
        /\ node' = xmpp_stanza_copy(node, s, f)
        /\ held' = held \cup {f[s]} /\ Owned' = Owned \cup Range(f)
  BY <1>1
<1>3. TreeKids = Shape(node, Owned) /\ Forest(node, Owned)
  BY TreeIs DEF TreesRight
<1>4. TreeKids' = Shape(node', Owned')
  BY <1>1, TreeIsNext DEF TreesRight
<1>5. s \in Owned
  <2>1. InHand \in SUBSET Owned
    BY InHandOwned
  <2>2. Below(node, InHand) \subseteq Owned
    BY <1>3, <2>1, BelowStep
  <2> QED
    BY <2>2 DEF AppCopy
<1>6. TreeKids' = CopyShape(TreeKids, f)
  BY <1>2, <1>3, <1>4, <1>5, ShapeCopied
<1>7. /\ s \in Tree!Alive
      /\ f \in Injection(Tree!Under(TreeKids, {s}), Tree!Unused)
  <2>1. {s} \in SUBSET Owned
    BY <1>5
  <2> QED
    BY <1>5, <2>1, AliveIs
<1>8. Tree!Copy(s)
  BY <1>1, <1>2, <1>6, <1>7, FoldCopy
<1> QED
  BY <1>8, Steps

LEMMA AppAddChildMaps ==
  ASSUME StanzaInv, NEW p \in Nodes, NEW c \in Nodes, AppAddChild(p, c)
  PROVE  TreeStep
<1>1. StanzaInv' /\ ParserStanza' = ParserStanza /\ Owned' = Owned
  BY AppAddChildStep
<1>2. /\ p \in held /\ c \in InHand /\ node[c].parent = Null /\ p \notin Below(node, {c})
      /\ node' = xmpp_stanza_add_child(node, p, c) /\ held' = held
  BY DEF AppAddChild
<1>3. TreeKids = Shape(node, Owned) /\ Forest(node, Owned)
  BY TreeIs DEF TreesRight
<1>4. TreeKids' = Shape(node', Owned') /\ Forest(node', Owned')
  BY <1>1, TreeIsNext DEF TreesRight
<1>5. p \in Owned /\ c \in Owned /\ Owned \in SUBSET Nodes /\ Null \notin Owned
  BY <1>2, InHandOwned, OwnedIs DEF StanzaInv
<1>6. p # c
  BY <1>2, <1>3, <1>5, BelowStep
<1>7. TreeKids' = [TreeKids EXCEPT ![p] = Append(@, c)]
  BY <1>1, <1>2, <1>3, <1>4, <1>5, <1>6, ShapeAdded
<1>8. \A n \in Nodes : c \notin Range(TreeKids[n])
  <2>1. ASSUME NEW n \in Owned PROVE c \notin Range(Kids(node, n))
    <3>1. Range(Kids(node, n)) = {x \in Owned : node[x].parent = n}
      BY <1>3, KidsRight
    <3> QED
      BY <3>1, <1>2, <1>5
  <2>2. Range(<<>>) = {}
    BY DEF Range
  <2>3. \A n \in Nodes : TreeKids[n] = IF n \in Owned THEN Kids(node, n) ELSE <<>>
    BY <1>3 DEF Shape
  <2> QED
    BY <2>1, <2>2, <2>3
<1>9. c \in Tree!Alive /\ p \in Tree!Alive /\ p \notin Tree!Under(TreeKids, {c})
  <2>1. {c} \in SUBSET Owned
    BY <1>5
  <2> QED
    BY <1>2, <1>5, <2>1, AliveIs
<1>10. Tree!Attach(p, c)
  BY <1>1, <1>2, <1>7, <1>8, <1>9, FoldAttach
<1> QED
  BY <1>10, Steps

LEMMA AppReleaseMaps ==
  ASSUME StanzaInv, NEW n \in Nodes, AppRelease(n)
  PROVE  TreeStep
<1>1. StanzaInv' /\ Released
  BY AppReleaseStep
<1>2. n \in held /\ held' = held \ {n} /\ stanza' = stanza /\ calling' = calling
  BY DEF AppRelease, parserVars
<1>3. /\ TreeKids' = KeptIn(TreeKids, Owners')
      /\ \A x \in Owned' : SamePath(node', node, x)
  BY <1>1, TreesReleased
<1>4. stanza # Null => stanza \in Owned'
  BY <1>1, <1>2 DEF StanzaInv
<1>5. ParserStanza' = ParserStanza
  BY <1>2, <1>3, <1>4 DEF ParserStanza, SamePath
<1>6. Owners' = held' \cup ({ParserStanza} \ {Null})
  BY <1>5 DEF Owners
<1>7. Tree!Drop(n)
  BY <1>2, <1>3, <1>5, <1>6, FoldDrop
<1> QED
  BY <1>7, Steps

LEMMA StutterMaps ==
  ASSUME StanzaInv, UNCHANGED vars
  PROVE  TreeStep
<1>1. StanzaInv' /\ ParserStanza' = ParserStanza
  BY StutterStep
<1>2. UNCHANGED <<node, held, lost>>
  BY DEF vars
<1> QED
  BY <1>1, <1>2, HeapSame, Steps

LEMMA NextMaps ==
  ASSUME StanzaInv, Next \/ UNCHANGED vars
  PROVE  TreeStep
<1>1. CASE parser_feed
  BY <1>1, FeedMaps
<1>2. CASE parser_reset
  BY <1>2, ResetMaps
<1>3. CASE StartElement
  BY <1>3, StartMaps
<1>4. CASE Characters
  BY <1>4, CharactersMap
<1>5. CASE EndElement
  BY <1>5, EndMaps
<1>6. CASE StanzaCallbackReturns
  BY <1>6, ReturnMaps
<1>7. CASE AppNew
  BY <1>7, AppNewMaps
<1>8. CASE AppClone
  BY <1>8, AppCloneMaps
<1>9. CASE \E n \in Nodes : AppCopy(n)
  BY <1>9, AppCopyMaps
<1>10. CASE \E n \in Nodes : AppRelease(n)
  BY <1>10, AppReleaseMaps
<1>11. CASE \E p, c \in Nodes : AppAddChild(p, c)
  BY <1>11, AppAddChildMaps
<1>12. CASE UNCHANGED vars
  BY <1>12, StutterMaps
<1> QED
  BY <1>1, <1>2, <1>3, <1>4, <1>5, <1>6, <1>7, <1>8, <1>9, <1>10, <1>11, <1>12
  DEF Next, Parser, App

LEMMA InitMaps ==
  ASSUME Init
  PROVE  Tree!Init
<1>1. StanzaInv
  BY InitInv
<1>2. TreeKids = Shape(node, Owned)
  BY <1>1, TreeIs DEF TreesRight
<1>3. Owned = {} /\ held = {} /\ ParserStanza = Null
  BY DEF Init, Blank, Owned, Live, Free, ParserStanza
<1>4. TreeKids = [n \in Nodes |-> <<>>]
  BY <1>2, <1>3 DEF Shape
<1> QED
  BY <1>3, <1>4, FoldInit

(* The refinement: the heap of counted nodes with their sibling pointers    *)
(* keeps the trees of StanzaTree.  Each call is one step there: the reader  *)
(* finds the children in the order in which they came, a copy has the shape *)
(* of the original and its own nodes, and a release takes exactly what no   *)
(* owner reaches any more (xmpp-stanza.c:21-258, xmpp-parser-expat.c:86-    *)
(* 246).                                                                    *)
THEOREM TreesAreKept == Spec => TreeKept
<1>1. Init => Tree!Init
  BY InitMaps
<1>2. StanzaInv /\ [Next]_vars => [Tree!Next]_(Tree!vars)
  BY NextMaps DEF TreeStep
<1> QED
  BY <1>1, <1>2, StanzaInvariant, PTL DEF Spec, TreeKept, Tree!Spec
=============================================================================
