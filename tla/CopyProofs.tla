----------------------------- MODULE CopyProofs -----------------------------
(***************************************************************************)
(* Proofs about Copy, for any trees of files, any changes the job makes    *)
(* to them during the walk, and any faults: types, the order of the        *)
(* archive, that it can be unpacked, and what comes through.               *)
(***************************************************************************)
EXTENDS Copy, FiniteSetTheorems, TLAPS

-----------------------------------------------------------------------------
(* Paths, and how they lie in each other.                                  *)

LEMMA PathFacts ==
  ASSUME NEW p \in Paths
  PROVE  /\ p \in Seq(Names) /\ Len(p) \in Nat /\ Len(p) <= MaxDepth
         /\ \A i \in 1..Len(p) : p[i] \in Names
BY DEF Paths

\* The first n names of a path.
LEMMA CutFacts ==
  ASSUME NEW S, NEW p \in Seq(S), NEW n \in 0..Len(p)
  PROVE  /\ SubSeq(p, 1, n) \in Seq(S) /\ Len(SubSeq(p, 1, n)) = n
         /\ \A i \in 1..n : SubSeq(p, 1, n)[i] = p[i]
OBVIOUS

LEMMA SamePath ==
  ASSUME NEW S, NEW p \in Seq(S), NEW q \in Seq(S), Len(p) = Len(q),
         \A i \in 1..Len(p) : p[i] = q[i]
  PROVE  p = q
OBVIOUS

\* A prefix, element by element.
LEMMA PrefixIs ==
  ASSUME NEW S, NEW p \in Seq(S), NEW q \in Seq(S)
  PROVE  IsPrefix(q, p) <=> Len(q) <= Len(p) /\ \A i \in 1..Len(q) : q[i] = p[i]
<1>1. CASE Len(q) <= Len(p)
  <2>1. Len(q) \in 0..Len(q) /\ Len(q) \in 0..Len(p)
    BY <1>1
  <2>2. /\ Len(SubSeq(q, 1, Len(q))) = Len(q) /\ SubSeq(q, 1, Len(q)) \in Seq(S)
        /\ \A i \in 1..Len(q) : SubSeq(q, 1, Len(q))[i] = q[i]
    BY <2>1, CutFacts
  <2>3. /\ Len(SubSeq(p, 1, Len(q))) = Len(q) /\ SubSeq(p, 1, Len(q)) \in Seq(S)
        /\ \A i \in 1..Len(q) : SubSeq(p, 1, Len(q))[i] = p[i]
    BY <2>1, CutFacts
  <2>4. SubSeq(q, 1, Len(q)) = SubSeq(p, 1, Len(q)) <=> \A i \in 1..Len(q) : q[i] = p[i]
    BY <2>2, <2>3, SamePath
  <2>. QED BY <1>1, <2>4 DEF IsPrefix
<1>2. CASE ~(Len(q) <= Len(p))
  BY <1>2 DEF IsPrefix
<1>. QED BY <1>1, <1>2

LEMMA PrefixOrder ==
  ASSUME NEW S, NEW p \in Seq(S), NEW q \in Seq(S), NEW r \in Seq(S)
  PROVE  /\ IsPrefix(p, p) /\ IsPrefix(<<>>, p)
         /\ IsPrefix(p, q) /\ IsPrefix(q, r) => IsPrefix(p, r)
         /\ IsPrefix(p, q) /\ IsPrefix(q, p) => p = q
         /\ IsPrefix(p, r) /\ IsPrefix(q, r) => IsPrefix(p, q) \/ IsPrefix(q, p)
<1> USE PrefixIs
<1>1. IsPrefix(p, p) /\ IsPrefix(<<>>, p)
  <2>1. IsPrefix(p, p)
    OBVIOUS
  <2>2. <<>> \in Seq(S) /\ Len(<<>>) = 0 /\ Len(p) \in Nat
    OBVIOUS
  <2>3. IsPrefix(<<>>, p) <=> Len(<<>>) <= Len(p) /\ \A i \in 1..Len(<<>>) : <<>>[i] = p[i]
    BY <2>2
  <2>4. 1..Len(<<>>) = {}
    BY <2>2
  <2>. QED BY <2>1, <2>2, <2>3, <2>4
<1>2. ASSUME IsPrefix(p, q), IsPrefix(q, r)
      PROVE  IsPrefix(p, r)
  BY <1>2
<1>3. ASSUME IsPrefix(p, q), IsPrefix(q, p)
      PROVE  p = q
  BY <1>3, SamePath
<1>4. ASSUME IsPrefix(p, r), IsPrefix(q, r)
      PROVE  IsPrefix(p, q) \/ IsPrefix(q, p)
  <2>1. /\ Len(p) <= Len(r) /\ \A i \in 1..Len(p) : p[i] = r[i]
        /\ Len(q) <= Len(r) /\ \A i \in 1..Len(q) : q[i] = r[i]
    BY <1>4
  <2>2. Len(p) \in Nat /\ Len(q) \in Nat
    OBVIOUS
  <2>3. CASE Len(p) <= Len(q)
    BY <2>1, <2>2, <2>3
  <2>4. CASE Len(q) <= Len(p)
    BY <2>1, <2>2, <2>4
  <2>. QED BY <2>2, <2>3, <2>4
<1>. QED BY <1>1, <1>2, <1>3, <1>4

\* The paths above p are its strict prefixes.
LEMMA AboveIs ==
  ASSUME NEW S, NEW p \in Seq(S), NEW q \in Seq(S)
  PROVE  q \in Above(p) <=> IsStrictPrefix(q, p)
<1>1. ASSUME q \in Prefixes(p)
      PROVE  IsPrefix(q, p)
  <2>1. PICK l \in 0..Len(p) : q = SubSeq(p, 1, l)
    BY <1>1 DEF Prefixes
  <2>2. Len(q) = l /\ \A i \in 1..l : q[i] = p[i]
    BY <2>1, CutFacts
  <2>3. Len(q) <= Len(p) /\ \A i \in 1..Len(q) : q[i] = p[i]
    BY <2>2
  <2>. QED BY <2>3, PrefixIs
<1>2. ASSUME IsPrefix(q, p)
      PROVE  q \in Prefixes(p)
  <2>1. Len(q) \in 0..Len(p) /\ \A i \in 1..Len(q) : q[i] = p[i]
    BY <1>2, PrefixIs
  <2>2. /\ SubSeq(p, 1, Len(q)) \in Seq(S) /\ Len(SubSeq(p, 1, Len(q))) = Len(q)
        /\ \A i \in 1..Len(q) : SubSeq(p, 1, Len(q))[i] = q[i]
    BY <2>1, CutFacts
  <2>3. q = SubSeq(p, 1, Len(q))
    BY <2>2, SamePath
  <2>. QED BY <2>1, <2>3 DEF Prefixes
<1>. QED BY <1>1, <1>2 DEF Above, IsStrictPrefix

LEMMA AboveType ==
  ASSUME NEW S, NEW p \in Seq(S), NEW q \in Above(p)
  PROVE  q \in Seq(S)
BY CutFacts DEF Above, Prefixes

LEMMA ParentFacts ==
  ASSUME NEW S, NEW p \in Seq(S), p # <<>>
  PROVE  /\ Parent(p) \in Seq(S) /\ Len(Parent(p)) = Len(p) - 1 /\ Len(p) > 0
         /\ \A i \in 1..(Len(p) - 1) : Parent(p)[i] = p[i]
         /\ Parent(p) \in Above(p) /\ IsStrictPrefix(Parent(p), p)
         /\ \A q \in Seq(S) : IsStrictPrefix(q, p) => IsPrefix(q, Parent(p))
<1>1. Len(p) - 1 \in 0..Len(p) /\ Len(p) > 0
  OBVIOUS
<1>2. /\ Parent(p) \in Seq(S) /\ Len(Parent(p)) = Len(p) - 1
      /\ \A i \in 1..(Len(p) - 1) : Parent(p)[i] = p[i]
  BY <1>1, CutFacts DEF Parent
<1>3. IsStrictPrefix(Parent(p), p)
  <2>1. IsPrefix(Parent(p), p) <=>
          Len(Parent(p)) <= Len(p) /\ \A i \in 1..Len(Parent(p)) : Parent(p)[i] = p[i]
    BY <1>2, PrefixIs
  <2>2. Parent(p) # p
    BY <1>1, <1>2
  <2>. QED BY <1>1, <1>2, <2>1, <2>2 DEF IsStrictPrefix
<1>4. ASSUME NEW q \in Seq(S), IsStrictPrefix(q, p)
      PROVE  IsPrefix(q, Parent(p))
  <2>1. Len(q) <= Len(p) /\ \A i \in 1..Len(q) : q[i] = p[i]
    BY <1>4, PrefixIs DEF IsStrictPrefix
  <2>2. Len(q) # Len(p)
    BY <1>4, <2>1, SamePath DEF IsStrictPrefix
  <2>. QED BY <1>1, <1>2, <2>1, <2>2, PrefixIs
<1>. QED BY <1>1, <1>2, <1>3, <1>4, AboveIs

\* Below a strict prefix h of p there is a path one longer that p lies in.
LEMMA StepDown ==
  ASSUME NEW S, NEW p \in Seq(S), NEW h \in Seq(S), IsStrictPrefix(h, p)
  PROVE  \E q \in Seq(S) : q # <<>> /\ Parent(q) = h /\ IsPrefix(q, p)
<1>1. /\ Len(h) <= Len(p) /\ \A i \in 1..Len(h) : h[i] = p[i]
      /\ Len(h) # Len(p)
  BY PrefixIs, SamePath DEF IsStrictPrefix
<1> DEFINE n == Len(h) + 1
           q == SubSeq(p, 1, n)
<1>2. n \in 0..Len(p) /\ n > 0 /\ n \in Nat /\ n - 1 = Len(h)
  BY <1>1
<1>3. q \in Seq(S) /\ Len(q) = n /\ \A i \in 1..n : q[i] = p[i]
  BY <1>2, CutFacts
<1> HIDE DEF q, n
<1>4. q # <<>> /\ IsPrefix(q, p)
  BY <1>2, <1>3, PrefixIs
<1>5. Parent(q) = h
  <2>1. /\ Parent(q) \in Seq(S) /\ Len(Parent(q)) = Len(h)
        /\ \A i \in 1..Len(h) : Parent(q)[i] = q[i]
    BY <1>2, <1>3, <1>4, ParentFacts
  <2>. QED BY <1>1, <1>2, <1>3, <2>1, SamePath
<1>. QED BY <1>3, <1>4, <1>5

LEMMA StrictOrder ==
  ASSUME NEW S, NEW p \in Seq(S), NEW q \in Seq(S), NEW r \in Seq(S)
  PROVE  /\ IsStrictPrefix(p, q) /\ IsPrefix(q, r) => IsStrictPrefix(p, r)
         /\ IsStrictPrefix(p, q) => ~IsPrefix(q, p)
BY PrefixOrder DEF IsStrictPrefix

LEMMA ConcatFacts ==
  ASSUME NEW S, NEW p \in Seq(S), NEW q \in Seq(S)
  PROVE  /\ p \o q \in Seq(S) /\ Len(p \o q) = Len(p) + Len(q)
         /\ \A i \in 1..Len(p) : (p \o q)[i] = p[i]
         /\ \A i \in 1..Len(q) : (p \o q)[Len(p) + i] = q[i]
OBVIOUS

\* What comes behind the same prefix is the same, and so is its parent.
LEMMA BehindSame ==
  ASSUME NEW S, NEW d \in Seq(S), NEW p \in Seq(S), NEW q \in Seq(S), d \o p = d \o q
  PROVE  p = q
<1>1. /\ Len(d \o p) = Len(d) + Len(p)
      /\ \A i \in 1..Len(p) : (d \o p)[Len(d) + i] = p[i]
  BY ConcatFacts
<1>2. /\ Len(d \o q) = Len(d) + Len(q)
      /\ \A i \in 1..Len(q) : (d \o q)[Len(d) + i] = q[i]
  BY ConcatFacts
<1>3. Len(d) \in Nat /\ Len(p) \in Nat /\ Len(q) \in Nat
  OBVIOUS
<1>4. Len(p) = Len(q)
  BY <1>1, <1>2, <1>3
<1>5. \A i \in 1..Len(p) : p[i] = q[i]
  BY <1>1, <1>2, <1>4
<1>. QED BY <1>4, <1>5, SamePath

LEMMA BehindParent ==
  ASSUME NEW S, NEW d \in Seq(S), NEW p \in Seq(S), p # <<>>
  PROVE  d \o p # <<>> /\ Parent(d \o p) = d \o Parent(p)
<1>1. /\ d \o p \in Seq(S) /\ Len(d \o p) = Len(d) + Len(p)
      /\ \A i \in 1..Len(d) : (d \o p)[i] = d[i]
      /\ \A i \in 1..Len(p) : (d \o p)[Len(d) + i] = p[i]
  BY ConcatFacts
<1>2. Len(d) \in Nat /\ Len(p) \in Nat
  OBVIOUS
<1>3. /\ Parent(p) \in Seq(S) /\ Len(Parent(p)) = Len(p) - 1 /\ Len(p) > 0
      /\ \A i \in 1..(Len(p) - 1) : Parent(p)[i] = p[i]
  BY ParentFacts
<1>4. d \o p # <<>>
  BY <1>1, <1>2, <1>3
<1>5. /\ Parent(d \o p) \in Seq(S) /\ Len(Parent(d \o p)) = Len(d) + Len(p) - 1
      /\ \A i \in 1..(Len(d) + Len(p) - 1) : Parent(d \o p)[i] = (d \o p)[i]
  <2>1. /\ Parent(d \o p) \in Seq(S) /\ Len(Parent(d \o p)) = Len(d \o p) - 1
        /\ \A i \in 1..(Len(d \o p) - 1) : Parent(d \o p)[i] = (d \o p)[i]
    BY <1>1, <1>4, ParentFacts
  <2>. QED BY <1>1, <1>2, <2>1
<1>6. /\ d \o Parent(p) \in Seq(S) /\ Len(d \o Parent(p)) = Len(d) + Len(p) - 1
      /\ \A i \in 1..Len(d) : (d \o Parent(p))[i] = d[i]
      /\ \A i \in 1..(Len(p) - 1) : (d \o Parent(p))[Len(d) + i] = Parent(p)[i]
  <2>1. PICK r \in Seq(S) : r = Parent(p)
    BY <1>3
  <2>2. /\ d \o r \in Seq(S) /\ Len(d \o r) = Len(d) + Len(r)
        /\ \A i \in 1..Len(d) : (d \o r)[i] = d[i]
        /\ \A i \in 1..Len(r) : (d \o r)[Len(d) + i] = r[i]
    BY ConcatFacts
  <2>3. Len(r) = Len(p) - 1 /\ Len(d) + Len(r) = Len(d) + Len(p) - 1
    BY <1>2, <1>3, <2>1
  <2>. QED BY <2>1, <2>2, <2>3
<1>7. ASSUME NEW i \in 1..(Len(d) + Len(p) - 1)
      PROVE  Parent(d \o p)[i] = (d \o Parent(p))[i]
  <2>1. CASE i \in 1..Len(d)
    BY <1>1, <1>5, <1>6, <2>1
  <2>2. CASE ~(i \in 1..Len(d))
    <3>1. i - Len(d) \in 1..(Len(p) - 1) /\ i - Len(d) \in 1..Len(p) /\ Len(d) + (i - Len(d)) = i
      BY <1>2, <1>3, <2>2
    <3>. HIDE <2>2
    <3>2. (d \o p)[i] = p[i - Len(d)]
      BY <1>1, <3>1
    <3>3. (d \o Parent(p))[i] = Parent(p)[i - Len(d)]
      BY <1>6, <3>1
    <3>. QED BY <1>3, <1>5, <3>1, <3>2, <3>3
  <2>. QED BY <2>1, <2>2
<1>8. Parent(d \o p) = d \o Parent(p)
  BY <1>5, <1>6, <1>7, SamePath
<1>. QED BY <1>4, <1>8

\* The listing of a directory has every entry once.
LEMMA ListingFacts ==
  ASSUME NEW S, IsFiniteSet(S), NEW order \in SetToSeqs(S)
  PROVE  /\ order \in Seq(S) /\ Len(order) \in Nat
         /\ \A i, j \in 1..Len(order) : order[i] = order[j] => i = j
         /\ \A x \in S : \E i \in 1..Len(order) : order[i] = x
<1> DEFINE n == Cardinality(S)
<1>1. n \in Nat
  BY FS_CardinalityType
<1>2. order \in [1..n -> S] /\ \A i, j \in 1..n : i # j => order[i] # order[j]
  BY DEF SetToSeqs
<1>3. order \in Seq(S) /\ Len(order) = n
  BY <1>1, <1>2
<1>4. order \in Injection(1..n, S)
  <2>1. \A i, j \in DOMAIN order : order[i] = order[j] => i = j
    BY <1>2
  <2>. QED BY <1>2, <2>1 DEF Injection, IsInjective
<1>5. IsFiniteSet(1..n) /\ Cardinality(1..n) = n
  BY <1>1, FS_Interval
<1>6. order \in Surjection(1..n, S)
  <2>1. n = Cardinality(1..n) /\ IsFiniteSet(S)
    BY <1>5
  <2>. HIDE DEF n
  <2>2. Cardinality(1..n) = Cardinality(S)
    BY <2>1 DEF n
  <2>. QED BY <1>4, <2>1, <2>2, FS_Injection
<1>. QED BY <1>1, <1>2, <1>3, <1>6 DEF Surjection

-----------------------------------------------------------------------------
(* The invariant.                                                          *)

All == Names \cup {Base}

In(p) == <<Base>> \o p

Entries == {Entry(p, Kept(n)) : p \in Paths, n \in Nodes}

Listed(p) == \E i \in 1..Len(archive) : archive[i] = Entry(p, Kept(source[p]))

\* The job's files are a tree, whatever it does to them.
Files ==
  /\ IsFiniteSet(DOMAIN source) /\ DOMAIN source \subseteq Paths
  /\ \A p \in DOMAIN source : source[p] \in Nodes
  /\ IsTree(source)

Packing ==
  /\ archive \in Seq(Entries) /\ wire \in Seq(Entries)
  /\ step \notin {"pull", "not_sent"} => todo = <<>>
  /\ step = "not_sent" => archive = <<>>

\* No path on the stack lies in another, or has anything of itself packed yet;
\* the directory it lies in has been packed.
Walk ==
  step = "pull" =>
    /\ \A i, j \in 1..Len(todo) : IsPrefix(todo[i], todo[j]) => i = j
    /\ \A j \in 1..Len(todo) : \A i \in 1..Len(archive) : \A p \in Paths :
         archive[i].path = In(p) => ~IsPrefix(todo[j], p)
    /\ \A j \in 1..Len(todo) : todo[j] # <<>> =>
         \E i \in 1..Len(archive) : archive[i] = Entry(Parent(todo[j]), Directory)

\* A file that stayed as it was is packed, or lies in a path on the stack; and
\* if none has changed, all that is packed is there.
Covered ==
  /\ step # "not_sent" => \A p \in DOMAIN source : Untouched(p) =>
       Listed(p) \/ \E j \in 1..Len(todo) : IsPrefix(todo[j], p)
  /\ touched = <<>> =>
       \A i \in 1..Len(archive) : \E p \in DOMAIN source : archive[i].path = In(p)

\* Before the first push the target holds levels of the destination, and in the
\* loop over them the ones that were made.
Making ==
  step \notin {"push", "part_pushed", "pushed"} =>
    /\ \A q \in DOMAIN target : q \in Levels /\ target[q] = Directory
    /\ step = "mkdir" => \A i \in 1..(level - 1) : SubSeq(Dest, 1, i) \in DOMAIN target

Done == Len(archive) - Len(wire)

\* In the loop over the archive the target holds the levels and what has been
\* pushed, and the wire is the rest.
Pushing ==
  step \in {"push", "pushed"} =>
    /\ \A q \in Levels : q \in DOMAIN target /\ target[q] = Directory
    /\ Len(wire) <= Len(archive)
    /\ \A j \in 1..Len(wire) : wire[j] = archive[Done + j]
    /\ \A i \in 1..Done : /\ Dest \o archive[i].path \in DOMAIN target
                          /\ target[Dest \o archive[i].path] = archive[i].node
    /\ \A q \in DOMAIN target :
         q \in Levels \/ \E i \in 1..Done : q = Dest \o archive[i].path
    /\ step = "pushed" => wire = <<>>

Inv ==
  /\ TypeOK /\ Files /\ Packing /\ Walk /\ ArchiveOrdered /\ Covered
  /\ Making /\ Pushing /\ Unpacks

-----------------------------------------------------------------------------
(* Entries of the archive and where they land.                             *)

LEMMA PathType ==
  ASSUME NEW p \in Paths
  PROVE  p \in Seq(Names) /\ p \in Seq(All)
BY PathFacts DEF All

LEMMA InFacts ==
  ASSUME NEW p \in Paths, NEW q \in Paths
  PROVE  /\ In(p) \in Seq(All) /\ Len(In(p)) = Len(p) + 1
         /\ Len(In(p)) > 1 <=> p # <<>>
         /\ In(p) = In(q) => p = q
         /\ p # <<>> => Parent(In(p)) = In(Parent(p))
<1>1. p \in Seq(All) /\ q \in Seq(All) /\ Len(p) \in Nat /\ (Len(p) = 0 <=> p = <<>>)
  BY PathType
<1>2. PICK b \in Seq(All) : b = <<Base>> /\ Len(b) = 1
  <2>1. Base \in All
    BY DEF All
  <2>2. <<Base>> \in Seq(All) /\ Len(<<Base>>) = 1
    BY <2>1
  <2>. QED BY <2>2
<1>3. In(p) \in Seq(All) /\ Len(In(p)) = Len(p) + 1
  BY <1>1, <1>2, ConcatFacts DEF In
<1>4. In(p) = In(q) => p = q
  <2>1. b \o p = b \o q => p = q
    BY <1>1, BehindSame
  <2>. QED BY <1>2, <2>1 DEF In
<1>5. p # <<>> => Parent(In(p)) = In(Parent(p))
  <2>1. p # <<>> => Parent(b \o p) = b \o Parent(p)
    BY <1>1, BehindParent
  <2>. QED BY <1>2, <2>1 DEF In
<1>. QED BY <1>1, <1>3, <1>4, <1>5

LEMMA KeptFacts ==
  ASSUME NEW n \in Nodes
  PROVE  Kept(Kept(n)) = Kept(n) /\ Kept(Directory) = Directory
<1>1. Kept(Directory) = Directory
  BY DEF Kept, ModeOf, Directory, Node
<1>2. Kept(Kept(n)) = Kept(n)
  BY DEF Kept, ModeOf, Node, Default
<1>. QED BY <1>1, <1>2

LEMMA EntryFacts ==
  ASSUME Packing, NEW i \in 1..Len(archive)
  PROVE  \E p \in Paths, n \in Nodes :
           archive[i] = Entry(p, Kept(n)) /\ archive[i].path = In(p) /\ archive[i].node = Kept(n)
<1>1. archive[i] \in Entries
  BY DEF Packing
<1>2. PICK p \in Paths, n \in Nodes : archive[i] = Entry(p, Kept(n))
  BY <1>1 DEF Entries
<1>3. archive[i].path = In(p) /\ archive[i].node = Kept(n)
  BY <1>2 DEF Entry, In
<1>. QED BY <1>2, <1>3

\* Nothing that is pushed lands on a level of the destination.
LEMMA LandFacts ==
  ASSUME CopyAssumption, NEW p \in Paths, NEW q \in Paths
  PROVE  /\ Dest \o In(p) \in Seq(All) /\ Dest \o In(p) \notin Levels
         /\ Dest \o In(p) = Dest \o In(q) => p = q
         /\ Parent(Dest \o In(p)) = Dest \o Parent(In(p))
         /\ p = <<>> => Parent(Dest \o In(p)) = Dest
         /\ p # <<>> => Parent(Dest \o In(p)) = Dest \o In(Parent(p))
         /\ Dest \in Levels /\ Landing(p) = Dest \o In(p)
<1>1. Dest \in Seq(All) /\ Len(Dest) \in Nat /\ Len(Dest) > 0
  BY DEF CopyAssumption, All
<1>2. /\ In(p) \in Seq(All) /\ In(q) \in Seq(All) /\ Len(In(p)) = Len(p) + 1
      /\ Len(p) \in Nat /\ In(p) # <<>>
  BY InFacts, PathFacts
<1>3. Dest \o In(p) \in Seq(All) /\ Len(Dest \o In(p)) = Len(Dest) + Len(In(p))
  BY <1>1, <1>2, ConcatFacts
<1>4. Dest \o In(p) \notin Levels
  <2>1. \A i \in 1..Len(Dest) : Len(SubSeq(Dest, 1, i)) = i
    BY <1>1
  <2>. QED BY <1>1, <1>2, <1>3, <2>1 DEF Levels
<1>5. Dest \o In(p) = Dest \o In(q) => p = q
  <2>1. Dest \o In(p) = Dest \o In(q) => In(p) = In(q)
    <3>1. PICK x \in Seq(All), y \in Seq(All) : x = In(p) /\ y = In(q)
      BY <1>2
    <3>2. Dest \o x = Dest \o y => x = y
      BY <1>1, BehindSame
    <3>. QED BY <3>1, <3>2
  <2>. QED BY <2>1, InFacts
<1>6. Parent(Dest \o In(p)) = Dest \o Parent(In(p))
  BY <1>1, <1>2, BehindParent
<1>7. p = <<>> => Parent(Dest \o In(p)) = Dest
  <2>1. ASSUME p = <<>>
        PROVE  Parent(In(p)) = <<>>
    <3>1. Parent(In(p)) \in Seq(All) /\ Len(Parent(In(p))) = 0
      BY <1>2, <2>1, ParentFacts
    <3>. QED BY <3>1
  <2>2. Dest \o <<>> = Dest
    BY <1>1
  <2>. QED BY <1>6, <2>1, <2>2
<1>8. Dest = SubSeq(Dest, 1, Len(Dest)) /\ Len(Dest) \in 1..Len(Dest)
  BY <1>1
<1>9. Dest \in Levels
  BY <1>8 DEF Levels
<1>10. Landing(p) = Dest \o In(p)
  BY <1>1, <1>2 DEF Landing, In
<1>. QED BY <1>3, <1>4, <1>5, <1>6, <1>7, <1>9, <1>10, InFacts

-----------------------------------------------------------------------------
(* The job changes its files.                                              *)

\* Everything above a file is a directory that is there.
LEMMA TreeFacts ==
  ASSUME Files, NEW p \in DOMAIN source, NEW q \in Seq(Names), IsStrictPrefix(q, p)
  PROVE  q \in DOMAIN source /\ source[q] = Directory
<1>1. p \in Seq(Names)
  BY PathType DEF Files
<1>2. q \in Above(p)
  BY <1>1, AboveIs
<1>. QED BY <1>2 DEF Files, IsTree

LEMMA PutKeepsFiles ==
  ASSUME Files, NEW p \in Paths, NEW node \in Nodes, Put(p, node)
  PROVE  Files'
<1> DEFINE Left == {r \in DOMAIN source : ~IsStrictPrefix(p, r)}
<1>1. /\ DOMAIN source' = Left \cup {p}
      /\ source'[p] = node /\ \A q \in Left : q # p => source'[q] = source[q]
  BY DEF Put
<1>2. IsFiniteSet(DOMAIN source')
  <2>1. Left \in SUBSET DOMAIN source
    OBVIOUS
  <2>. HIDE DEF Left
  <2>2. IsFiniteSet(Left)
    BY <2>1, FS_Subset DEF Files
  <2>. QED BY <1>1, <2>2, FS_AddElement
<1>3. DOMAIN source' \subseteq Paths
  BY <1>1 DEF Files
<1>4. \A q \in DOMAIN source' : source'[q] \in Nodes
  BY <1>1 DEF Files
<1>5. ASSUME NEW r \in DOMAIN source', NEW q \in Above(r)
      PROVE  q \in DOMAIN source' /\ source'[q] = Directory
  <2>1. p \in Seq(Names) /\ r \in Seq(Names)
    BY <1>3, PathType
  <2>2. q \in Seq(Names) /\ IsStrictPrefix(q, r)
    BY <2>1, AboveType, AboveIs
  <2>3. q \in DOMAIN source /\ source[q] = Directory
    <3>1. CASE r = p
      <4>1. p # <<>>
        BY <2>1, <2>2, <3>1, PrefixOrder DEF IsStrictPrefix
      <4>2. Parent(p) \in DOMAIN source /\ source[Parent(p)] = Directory
        BY <4>1 DEF Put
      <4>3. IsPrefix(q, Parent(p))
        BY <2>1, <2>2, <3>1, <4>1, ParentFacts
      <4>4. CASE q = Parent(p)
        BY <4>2, <4>4
      <4>5. CASE q # Parent(p)
        BY <2>2, <4>2, <4>3, <4>5, TreeFacts DEF IsStrictPrefix
      <4>. QED BY <4>4, <4>5
    <3>2. CASE r # p
      BY <1>1, <2>2, <3>2, TreeFacts
    <3>. QED BY <3>1, <3>2
  <2>4. q # p /\ ~IsStrictPrefix(p, q)
    <3>1. CASE r = p
      BY <2>1, <2>2, <3>1, StrictOrder DEF IsStrictPrefix
    <3>2. CASE r # p
      <4>1. ~IsStrictPrefix(p, r)
        BY <1>1, <3>2
      <4>2. IsPrefix(q, r)
        BY <2>2 DEF IsStrictPrefix
      <4>. QED BY <2>1, <2>2, <4>1, <4>2, StrictOrder
    <3>. QED BY <3>1, <3>2
  <2>. QED BY <1>1, <2>3, <2>4
<1>6. IsTree(source')
  BY <1>5 DEF IsTree
<1>. QED BY <1>2, <1>3, <1>4, <1>6 DEF Files

LEMMA DropKeepsFiles ==
  ASSUME Files, NEW p \in Paths, Drop(p)
  PROVE  Files'
<1> DEFINE Left == {r \in DOMAIN source : ~IsPrefix(p, r)}
<1>1. DOMAIN source' = Left /\ \A q \in Left : source'[q] = source[q]
  BY DEF Drop
<1>2. IsFiniteSet(DOMAIN source')
  <2>1. Left \in SUBSET DOMAIN source
    OBVIOUS
  <2>. HIDE DEF Left
  <2>. QED BY <1>1, <2>1, FS_Subset DEF Files
<1>3. DOMAIN source' \subseteq Paths /\ \A q \in DOMAIN source' : source'[q] \in Nodes
  BY <1>1 DEF Files
<1>4. ASSUME NEW r \in DOMAIN source', NEW q \in Above(r)
      PROVE  q \in DOMAIN source' /\ source'[q] = Directory
  <2>1. p \in Seq(Names) /\ r \in Seq(Names)
    BY <1>3, PathType
  <2>2. q \in Seq(Names) /\ IsStrictPrefix(q, r) /\ IsPrefix(q, r)
    BY <2>1, AboveType, AboveIs DEF IsStrictPrefix
  <2>3. q \in DOMAIN source /\ source[q] = Directory
    BY <1>1, <2>2, TreeFacts
  <2>4. ~IsPrefix(p, q)
    BY <1>1, <2>1, <2>2, PrefixOrder
  <2>. QED BY <1>1, <2>3, <2>4
<1>5. IsTree(source')
  BY <1>4 DEF IsTree
<1>. QED BY <1>2, <1>3, <1>5 DEF Files

\* A file that stays untouched was there before the change, and is the same.
LEMMA JobWritesNext ==
  ASSUME Inv, JobWrites
  PROVE  Inv'
<1>1. PICK p \in Paths :
        /\ Drop(p) \/ \E node \in Nodes : Put(p, node)
        /\ touched' = Append(touched, p)
  BY DEF JobWrites
<1>2. /\ UNCHANGED <<step, todo, archive, inVars, code>>
      /\ UNCHANGED <<step, todo, archive, wire, level, target, code>>
      /\ step = "pull"
  BY DEF JobWrites, inVars
<1>3. Files'
  BY <1>1, PutKeepsFiles, DropKeepsFiles DEF Inv
<1>4. touched \in Seq(Paths) /\ touched' \in Seq(Paths) /\ touched' # <<>>
  BY <1>1 DEF Inv, TypeOK
<1>5. TypeOK'
  BY <1>2, <1>3, <1>4 DEF Inv, TypeOK, Files
<1>6. ASSUME NEW q \in DOMAIN source', Untouched(q)'
      PROVE  q \in DOMAIN source /\ Untouched(q) /\ source'[q] = source[q]
  <2>1. Untouched(q) /\ ~IsPrefix(p, q)
    <3>1. \A i \in 1..(Len(touched) + 1) : ~IsPrefix(touched'[i], q)
      BY <1>1, <1>4, <1>6 DEF Untouched
    <3>2. touched'[Len(touched) + 1] = p /\ \A i \in 1..Len(touched) : touched'[i] = touched[i]
      BY <1>1, <1>4
    <3>. QED BY <1>4, <3>1, <3>2 DEF Untouched
  <2>2. p \in Seq(Names) /\ IsPrefix(p, p)
    BY PathType, PrefixOrder
  <2>3. q # p
    BY <2>1, <2>2
  <2>4. CASE Drop(p)
    BY <2>1, <2>4 DEF Drop
  <2>5. ASSUME NEW node \in Nodes, Put(p, node)
        PROVE  q \in DOMAIN source /\ source'[q] = source[q]
    <3>1. DOMAIN source' = {r \in DOMAIN source : ~IsStrictPrefix(p, r)} \cup {p}
      BY <2>5 DEF Put
    <3>. QED BY <2>3, <2>5, <3>1 DEF Put
  <2>. QED BY <1>1, <2>1, <2>4, <2>5
<1>7. Covered'
  BY <1>2, <1>4, <1>6 DEF Inv, Covered, Listed
<1>8. Packing' /\ Walk' /\ ArchiveOrdered' /\ Unpacks'
  BY <1>2 DEF Inv, Packing, Walk, ArchiveOrdered, Unpacks
<1>9. Making' /\ Pushing'
  BY <1>2 DEF Inv, Making, Pushing, Done
<1>. QED BY <1>3, <1>5, <1>7, <1>8, <1>9 DEF Inv


-----------------------------------------------------------------------------
(* CopyOut.                                                                *)

\* The stack after a step of the walk: the listing, then the rest.
LEMMA StackFacts ==
  ASSUME NEW S, NEW order \in Seq(S), NEW stack \in Seq(S), stack # <<>>,
         NEW new, new = order \o Tail(stack)
  PROVE  /\ new \in Seq(S)
         /\ \A k \in 1..Len(order) : k \in 1..Len(new) /\ new[k] = order[k]
         /\ \A m \in 2..Len(stack) :
              /\ Len(order) + m - 1 \in 1..Len(new) /\ new[Len(order) + m - 1] = stack[m]
         /\ \A j \in 1..Len(new) :
              \/ j \in 1..Len(order) /\ new[j] = order[j]
              \/ /\ j - Len(order) + 1 \in 2..Len(stack) /\ new[j] = stack[j - Len(order) + 1]
<1>1. PICK t \in Seq(S) : t = Tail(stack) /\ Len(t) = Len(stack) - 1
                          /\ \A i \in 1..Len(t) : t[i] = stack[i + 1]
  <2>1. /\ Tail(stack) \in Seq(S) /\ Len(Tail(stack)) = Len(stack) - 1
        /\ \A i \in 1..(Len(stack) - 1) : Tail(stack)[i] = stack[i + 1]
    OBVIOUS
  <2>. QED BY <2>1
<1>2. /\ new \in Seq(S) /\ Len(new) = Len(order) + Len(t)
      /\ \A i \in 1..Len(order) : new[i] = order[i]
      /\ \A i \in 1..Len(t) : new[Len(order) + i] = t[i]
  BY <1>1, ConcatFacts
<1>3. Len(order) \in Nat /\ Len(t) \in Nat /\ Len(stack) = Len(t) + 1
  BY <1>1
<1>4. ASSUME NEW m \in 2..Len(stack)
      PROVE  Len(order) + m - 1 \in 1..Len(new) /\ new[Len(order) + m - 1] = stack[m]
  <2>1. m - 1 \in 1..Len(t) /\ Len(order) + (m - 1) = Len(order) + m - 1 /\ (m - 1) + 1 = m
    BY <1>3
  <2>2. new[Len(order) + (m - 1)] = t[m - 1] /\ t[m - 1] = stack[(m - 1) + 1]
    BY <1>1, <1>2, <2>1
  <2>3. Len(order) + m - 1 \in 1..Len(new)
    BY <1>2, <1>3
  <2>. QED BY <2>1, <2>2, <2>3
<1>5. ASSUME NEW j \in 1..Len(new), j \notin 1..Len(order)
      PROVE  j - Len(order) + 1 \in 2..Len(stack) /\ new[j] = stack[j - Len(order) + 1]
  <2>1. j - Len(order) \in 1..Len(t) /\ Len(order) + (j - Len(order)) = j
    BY <1>2, <1>3, <1>5
  <2>2. new[Len(order) + (j - Len(order))] = t[j - Len(order)]
        /\ t[j - Len(order)] = stack[j - Len(order) + 1]
    BY <1>1, <1>2, <2>1
  <2>3. j - Len(order) + 1 \in 2..Len(stack)
    BY <1>3, <2>1
  <2>. QED BY <2>1, <2>2, <2>3
<1>. QED BY <1>2, <1>3, <1>4, <1>5

\* What lies in a directory lies right below it.
LEMMA ChildFacts ==
  ASSUME Files, NEW h \in DOMAIN source, NEW q \in Children(h)
  PROVE  /\ q \in Paths /\ q \in Seq(Names) /\ q # <<>> /\ Parent(q) = h
         /\ Len(q) = Len(h) + 1 /\ IsStrictPrefix(h, q) /\ source[h] = Directory
         /\ \A p \in Seq(Names) : IsStrictPrefix(p, q) => IsPrefix(p, h)
<1>1. q \in DOMAIN source /\ q \in Paths /\ q # <<>> /\ Parent(q) = h
  BY DEF Children, Files
<1>2. q \in Seq(Names) /\ h \in Seq(Names)
  BY <1>1, PathType DEF Files
<1>3. /\ Len(h) = Len(q) - 1 /\ IsStrictPrefix(h, q)
      /\ \A p \in Seq(Names) : IsStrictPrefix(p, q) => IsPrefix(p, h)
  BY <1>1, <1>2, ParentFacts
<1>4. source[h] = Directory
  BY <1>1, <1>2, <1>3, TreeFacts
<1>5. Len(q) = Len(h) + 1
  BY <1>2, <1>3
<1>. QED BY <1>1, <1>2, <1>3, <1>4, <1>5

\* The step of the walk, in terms of its path h and the directory's listing.
LEMMA PullIs ==
  ASSUME Inv, Pull
  PROVE  \E h \in DOMAIN source, order \in Seq(Paths) :
           /\ todo # <<>> /\ h = todo[1] /\ step = "pull" /\ Len(order) \in Nat
           /\ \A i, j \in 1..Len(order) : order[i] = order[j] => i = j
           /\ \A q \in Children(h) : \E i \in 1..Len(order) : order[i] = q
           /\ order \in Seq(Children(h)) /\ todo' = order \o Tail(todo)
           /\ archive' = Append(archive, Entry(h, Kept(source[h])))
<1>1. PICK h \in DOMAIN source :
        /\ todo # <<>> /\ h = Head(todo) /\ step = "pull"
        /\ archive' = Append(archive, Entry(h, Kept(source[h])))
        /\ \E order \in SetToSeqs(Children(h)) : todo' = order \o Tail(todo)
  BY DEF Pull
<1>2. PICK order \in SetToSeqs(Children(h)) : todo' = order \o Tail(todo)
  BY <1>1
<1>3. IsFiniteSet(Children(h))
  <2>1. Children(h) \in SUBSET DOMAIN source
    BY DEF Children
  <2>. QED BY <2>1, FS_Subset DEF Inv, Files
<1>4. /\ order \in Seq(Children(h)) /\ Len(order) \in Nat
      /\ \A i, j \in 1..Len(order) : order[i] = order[j] => i = j
      /\ \A q \in Children(h) : \E i \in 1..Len(order) : order[i] = q
  BY <1>3, ListingFacts
<1>5. Children(h) \subseteq Paths
  BY ChildFacts DEF Inv
<1>6. order \in Seq(Paths)
  BY <1>4, <1>5
<1>7. h = todo[1]
  BY <1>1 DEF Inv, TypeOK
<1>. QED BY <1>1, <1>2, <1>4, <1>6, <1>7


LEMMA PullNext ==
  ASSUME Inv, Pull
  PROVE  Inv'
<1>1. PICK h \in DOMAIN source, order \in Seq(Paths) :
        /\ todo # <<>> /\ h = todo[1] /\ step = "pull" /\ Len(order) \in Nat
        /\ \A i, j \in 1..Len(order) : order[i] = order[j] => i = j
        /\ \A q \in Children(h) : \E i \in 1..Len(order) : order[i] = q
        /\ order \in Seq(Children(h)) /\ todo' = order \o Tail(todo)
        /\ archive' = Append(archive, Entry(h, Kept(source[h])))
  BY PullIs
<1> DEFINE L == Len(archive)
           e == Entry(h, Kept(source[h]))
<1>2. UNCHANGED <<source, touched, step, wire, level, target, code>>
  BY DEF Pull, inVars
<1>3. /\ Files /\ h \in Paths /\ h \in Seq(Names) /\ source[h] \in Nodes
      /\ todo \in Seq(Paths) /\ Len(todo) \in Nat /\ 1 \in 1..Len(todo)
      /\ archive \in Seq(Entries) /\ L \in Nat
  BY <1>1, PathType DEF Inv, Files, TypeOK, Packing
<1>4. \A m \in 1..Len(todo) : todo[m] \in Paths /\ todo[m] \in Seq(Names)
  BY <1>3, PathType
<1>5. /\ todo' \in Seq(Paths)
      /\ \A k \in 1..Len(order) : k \in 1..Len(todo') /\ todo'[k] = order[k]
      /\ \A m \in 2..Len(todo) :
           Len(order) + m - 1 \in 1..Len(todo') /\ todo'[Len(order) + m - 1] = todo[m]
      /\ \A j \in 1..Len(todo') :
           \/ j \in 1..Len(order) /\ todo'[j] = order[j]
           \/ j - Len(order) + 1 \in 2..Len(todo) /\ todo'[j] = todo[j - Len(order) + 1]
  BY <1>1, <1>3, StackFacts
<1>6. \A k \in 1..Len(order) :
        /\ order[k] \in Children(h) /\ order[k] \in Paths /\ order[k] \in Seq(Names)
        /\ order[k] # <<>> /\ Parent(order[k]) = h /\ Len(order[k]) = Len(h) + 1
        /\ IsStrictPrefix(h, order[k]) /\ IsPrefix(h, order[k]) /\ source[h] = Directory
        /\ \A p \in Seq(Names) : IsStrictPrefix(p, order[k]) => IsPrefix(p, h)
  <2>1. PICK C : C = Children(h)
    OBVIOUS
  <2>2. order \in Seq(C)
    BY <1>1, <2>1
  <2>3. \A k \in 1..Len(order) : order[k] \in C
    BY <2>2
  <2>. QED BY <1>3, <2>1, <2>3, ChildFacts DEF IsStrictPrefix
<1>7. /\ e \in Entries /\ e.path = In(h)
      /\ Len(archive') = L + 1 /\ archive' \in Seq(Entries) /\ archive'[L + 1] = e
      /\ \A i \in 1..L : archive'[i] = archive[i]
  <2>1. e \in Entries /\ e.path = In(h)
    <3>1. e \in Entries
      BY <1>3 DEF Entries
    <3>2. e.path = In(h)
      BY DEF Entry, In
    <3>. QED BY <3>1, <3>2
  <2>. HIDE DEF e
  <2>2. archive' = Append(archive, e)
    BY <1>1 DEF e
  <2>. QED BY <1>3, <2>1, <2>2
<1>. HIDE DEF e
<1>8. /\ \A i, j \in 1..Len(todo) : IsPrefix(todo[i], todo[j]) => i = j
      /\ \A j \in 1..Len(todo) : \A i \in 1..L : \A p \in Paths :
           archive[i].path = In(p) => ~IsPrefix(todo[j], p)
      /\ \A j \in 1..Len(todo) : todo[j] # <<>> =>
           \E i \in 1..L : archive[i] = Entry(Parent(todo[j]), Directory)
  BY <1>1 DEF Inv, Walk
\* No path on the new stack lies in another.
<1>9. ASSUME NEW i \in 1..Len(todo'), NEW j \in 1..Len(todo'), IsPrefix(todo'[i], todo'[j])
      PROVE  i = j
  <2>1. ASSUME i \in 1..Len(order), j \in 1..Len(order),
               todo'[i] = order[i], todo'[j] = order[j]
        PROVE  i = j
    <3>1. Len(order[i]) = Len(order[j]) /\ IsPrefix(order[i], order[j])
          /\ order[i] \in Seq(Names) /\ order[j] \in Seq(Names)
      BY <1>6, <1>9, <2>1
    <3>2. order[i] = order[j]
      BY <3>1, PrefixIs, SamePath
    <3>. QED BY <1>1, <2>1, <3>2
  <2>2. ASSUME i \in 1..Len(order), todo'[i] = order[i],
               NEW m \in 2..Len(todo), todo'[j] = todo[m]
        PROVE  FALSE
    <3>1. IsPrefix(h, todo[m])
      BY <1>3, <1>4, <1>6, <1>9, <2>2, PrefixOrder
    <3>. QED BY <1>1, <1>3, <1>8, <3>1
  <2>3. ASSUME j \in 1..Len(order), todo'[j] = order[j],
               NEW m \in 2..Len(todo), todo'[i] = todo[m]
        PROVE  FALSE
    <3>1. todo[m] \in Seq(Names) /\ IsPrefix(todo[m], order[j]) /\ m \in 1..Len(todo) /\ m # 1
      BY <1>4, <1>9, <2>3
    <3>2. CASE todo[m] = order[j]
      BY <1>1, <1>3, <1>6, <1>8, <2>3, <3>1, <3>2
    <3>3. CASE todo[m] # order[j]
      <4>1. IsPrefix(todo[m], h)
        BY <1>6, <2>3, <3>1, <3>3 DEF IsStrictPrefix
      <4>. QED BY <1>1, <1>3, <1>8, <3>1, <4>1
    <3>. QED BY <3>2, <3>3
  <2>4. ASSUME NEW m \in 2..Len(todo), todo'[i] = todo[m], m = i - Len(order) + 1,
               NEW n \in 2..Len(todo), todo'[j] = todo[n], n = j - Len(order) + 1
        PROVE  i = j
    <3>1. m \in 1..Len(todo) /\ n \in 1..Len(todo) /\ IsPrefix(todo[m], todo[n])
      BY <1>9, <2>4
    <3>2. m = n
      BY <1>8, <3>1
    <3>. QED BY <1>1, <2>4, <3>2
  <2>. QED BY <1>5, <2>1, <2>2, <2>3, <2>4
\* Nothing that lies in a path on the new stack is packed.
<1>10. ASSUME NEW j \in 1..Len(todo'), NEW i \in 1..Len(archive'), NEW p \in Paths,
              archive'[i].path = In(p), IsPrefix(todo'[j], p)
       PROVE  FALSE
  <2>1. p \in Seq(Names)
    BY PathType
  <2>2. ASSUME i \in 1..L, archive[i].path = In(p)
        PROVE  FALSE
    <3>1. ~IsPrefix(h, p)
      BY <1>1, <1>3, <1>8, <2>2
    <3>2. CASE j \in 1..Len(order) /\ todo'[j] = order[j]
      BY <1>3, <1>6, <1>10, <2>1, <3>1, <3>2, PrefixOrder
    <3>3. ASSUME NEW m \in 2..Len(todo), todo'[j] = todo[m]
          PROVE  FALSE
      <4>1. m \in 1..Len(todo)
        OBVIOUS
      <4>. QED BY <1>8, <1>10, <2>2, <3>3, <4>1
    <3>. QED BY <1>5, <3>2, <3>3
  <2>3. ASSUME i = L + 1
        PROVE  FALSE
    <3>1. p = h
      BY <1>3, <1>7, <1>10, <2>3, InFacts
    <3>2. CASE j \in 1..Len(order) /\ todo'[j] = order[j]
      BY <1>3, <1>6, <1>10, <3>1, <3>2, StrictOrder
    <3>3. ASSUME NEW m \in 2..Len(todo), todo'[j] = todo[m]
          PROVE  FALSE
      <4>1. m \in 1..Len(todo) /\ m # 1
        OBVIOUS
      <4>. QED BY <1>1, <1>3, <1>8, <1>10, <3>1, <3>3, <4>1
    <3>. QED BY <1>5, <3>2, <3>3
  <2>4. i \in 1..L \/ i = L + 1
    BY <1>3, <1>7
  <2>. QED BY <1>7, <1>10, <2>2, <2>3, <2>4
\* The directory of every path on the new stack is packed.
<1>11. ASSUME NEW j \in 1..Len(todo'), todo'[j] # <<>>
       PROVE  \E i \in 1..Len(archive') : archive'[i] = Entry(Parent(todo'[j]), Directory)
  <2>1. ASSUME j \in 1..Len(order), todo'[j] = order[j]
        PROVE  archive'[L + 1] = Entry(Parent(todo'[j]), Directory)
    <3>1. Kept(source[h]) = Directory /\ Parent(todo'[j]) = h
      BY <1>3, <1>6, <2>1, KeptFacts
    <3>. QED BY <1>7, <3>1 DEF e
  <2>2. ASSUME NEW m \in 2..Len(todo), todo'[j] = todo[m]
        PROVE  \E i \in 1..L : archive'[i] = Entry(Parent(todo'[j]), Directory)
    <3>1. m \in 1..Len(todo)
      OBVIOUS
    <3>. QED BY <1>7, <1>8, <1>11, <2>2, <3>1
  <2>3. L + 1 \in 1..Len(archive') /\ \A i \in 1..L : i \in 1..Len(archive')
    BY <1>3, <1>7
  <2>. QED BY <1>5, <2>1, <2>2, <2>3
<1>12. Walk'
  BY <1>9, <1>10, <1>11 DEF Walk
\* The new entry is the first of its path, and comes after its directory.
<1>13. ArchiveOrdered'
  <2>1. ASSUME NEW i \in 1..L, archive[i].path = In(h)
        PROVE  FALSE
    <3>1. IsPrefix(h, h)
      BY <1>3, PrefixOrder
    <3>. QED BY <1>1, <1>3, <1>8, <2>1, <3>1
  <2>2. ASSUME NEW i \in 1..Len(archive'), NEW j \in 1..Len(archive'),
               archive'[j].path = archive'[i].path
        PROVE  j = i
    <3>1. (i \in 1..L \/ i = L + 1) /\ (j \in 1..L \/ j = L + 1)
      BY <1>3, <1>7
    <3>2. CASE i \in 1..L /\ j \in 1..L
      BY <1>7, <2>2, <3>2 DEF Inv, ArchiveOrdered
    <3>3. CASE i \in 1..L /\ j = L + 1
      BY <1>7, <2>1, <2>2, <3>3
    <3>4. CASE i = L + 1 /\ j \in 1..L
      BY <1>7, <2>1, <2>2, <3>4
    <3>. QED BY <3>1, <3>2, <3>3, <3>4
  <2>3. ASSUME NEW i \in 1..Len(archive'), Len(archive'[i].path) > 1
        PROVE  \E j \in 1..(i - 1) :
                 archive'[j] = [path |-> Parent(archive'[i].path), node |-> Directory]
    <3>1. CASE i \in 1..L
      <4>1. archive'[i] = archive[i] /\ i - 1 <= L
        BY <1>3, <1>7, <3>1
      <4>2. PICK j \in 1..(i - 1) :
              archive[j] = [path |-> Parent(archive[i].path), node |-> Directory]
        BY <2>3, <3>1, <4>1 DEF Inv, ArchiveOrdered
      <4>3. j \in 1..L
        BY <1>3, <3>1
      <4>. QED BY <1>7, <4>1, <4>2, <4>3
    <3>2. CASE i = L + 1
      <4>1. archive'[i].path = In(h) /\ h # <<>> /\ Parent(In(h)) = In(Parent(h))
        BY <1>3, <1>7, <2>3, <3>2, InFacts
      <4>2. PICK j \in 1..L : archive[j] = Entry(Parent(h), Directory)
        BY <1>1, <1>3, <1>8, <4>1
      <4>3. archive'[j] = [path |-> Parent(archive'[i].path), node |-> Directory]
        BY <1>7, <4>1, <4>2 DEF Entry, In
      <4>4. j \in 1..(i - 1)
        BY <1>3, <3>2
      <4>. QED BY <4>3, <4>4
    <3>. QED BY <1>3, <1>7, <3>1, <3>2
  <2>. QED BY <2>2, <2>3 DEF ArchiveOrdered
\* A file that lies in h is h, which is packed now, or lies in one of its children.
<1>14. Covered'
  <2>1. ASSUME NEW p \in DOMAIN source, Untouched(p)
        PROVE  \/ \E i \in 1..Len(archive') : archive'[i] = Entry(p, Kept(source[p]))
               \/ \E j \in 1..Len(todo') : IsPrefix(todo'[j], p)
    <3>1. p \in Seq(Names)
      BY <1>3, PathType DEF Files
    <3>2. CASE Listed(p)
      <4>1. PICK i \in 1..L : archive[i] = Entry(p, Kept(source[p]))
        BY <3>2 DEF Listed
      <4>2. i \in 1..Len(archive') /\ archive'[i] = archive[i]
        BY <1>3, <1>7
      <4>. QED BY <4>1, <4>2
    <3>3. ASSUME NEW m \in 2..Len(todo), IsPrefix(todo[m], p)
          PROVE  \E j \in 1..Len(todo') : IsPrefix(todo'[j], p)
      BY <1>5, <3>3
    <3>4. CASE p = h
      <4>1. L + 1 \in 1..Len(archive')
        BY <1>3, <1>7
      <4>. QED BY <1>7, <3>4, <4>1 DEF e
    <3>5. CASE IsStrictPrefix(h, p)
      <4>1. PICK q \in Seq(Names) : q # <<>> /\ Parent(q) = h /\ IsPrefix(q, p)
        BY <1>3, <3>1, <3>5, StepDown
      <4>2. q \in DOMAIN source
        BY <1>3, <4>1, TreeFacts DEF IsStrictPrefix
      <4>3. q \in Children(h)
        BY <4>1, <4>2 DEF Children
      <4>4. PICK j \in 1..Len(order) : order[j] = q
        BY <1>1, <4>3
      <4>5. j \in 1..Len(todo') /\ todo'[j] = q
        BY <1>5, <4>4
      <4>. QED BY <4>1, <4>5
    <3>6. Listed(p) \/ \E m \in 1..Len(todo) : IsPrefix(todo[m], p)
      BY <1>1, <2>1 DEF Inv, Covered
    <3>7. \A m \in 1..Len(todo) : m = 1 \/ m \in 2..Len(todo)
      BY <1>3
    <3>. QED BY <1>1, <3>2, <3>3, <3>4, <3>5, <3>6, <3>7 DEF IsStrictPrefix
  <2>2. ASSUME touched = <<>>, NEW i \in 1..Len(archive')
        PROVE  \E p \in DOMAIN source : archive'[i].path = In(p)
    <3>1. CASE i \in 1..L
      BY <1>7, <2>2, <3>1 DEF Inv, Covered
    <3>2. CASE i = L + 1
      BY <1>7, <3>2
    <3>. QED BY <1>3, <1>7, <3>1, <3>2
  <2>3. \A p : Untouched(p)' <=> Untouched(p)
    BY <1>2 DEF Untouched
  <2>. QED BY <1>2, <2>1, <2>2, <2>3 DEF Covered, Listed
<1>15. Packing'
  BY <1>1, <1>2, <1>7 DEF Inv, Packing
<1>16. TypeOK' /\ Files'
  BY <1>2, <1>5 DEF Inv, TypeOK, Files
<1>17. Making' /\ Pushing' /\ Unpacks'
  BY <1>1, <1>2 DEF Inv, Making, Pushing, Unpacks
<1>. QED BY <1>12, <1>13, <1>14, <1>15, <1>16, <1>17 DEF Inv


\* A walk that fails leaves nothing; one that is complete leaves the archive.
LEMMA WalkEnds ==
  ASSUME Inv, PullFails \/ Send
  PROVE  Inv'
<1>1. CASE PullFails
  <2>1. /\ step = "pull" /\ step' = "not_sent" /\ archive' = <<>>
        /\ code' \in {"NOT_FOUND", "ERROR"}
        /\ UNCHANGED <<source, touched, todo, wire, level, target>>
    BY <1>1 DEF PullFails, outVars, inVars
  <2>2. TypeOK' /\ Files' /\ Packing'
    BY <2>1 DEF Inv, TypeOK, Files, Packing
  <2>3. Walk' /\ ArchiveOrdered' /\ Covered'
    BY <2>1 DEF Walk, ArchiveOrdered, Covered
  <2>4. Making' /\ Pushing' /\ Unpacks'
    BY <2>1 DEF Inv, Making, Pushing, Unpacks
  <2>. QED BY <2>2, <2>3, <2>4 DEF Inv
<1>2. CASE Send
  <2>1. /\ step = "pull" /\ step' = "receive" /\ wire' = archive /\ todo = <<>>
        /\ UNCHANGED <<source, touched, todo, archive, level, target, code>>
    BY <1>2 DEF Send, outVars
  <2>2. TypeOK' /\ Files' /\ Packing'
    BY <2>1 DEF Inv, TypeOK, Files, Packing
  <2>3. \A p : Untouched(p)' <=> Untouched(p)
    BY <2>1 DEF Untouched
  <2>4. Walk' /\ ArchiveOrdered' /\ Covered'
    BY <2>1, <2>3 DEF Inv, Walk, ArchiveOrdered, Covered, Listed
  <2>5. Making' /\ Pushing' /\ Unpacks'
    BY <2>1 DEF Inv, Making, Pushing, Unpacks
  <2>. QED BY <2>2, <2>4, <2>5 DEF Inv
<1>. QED BY <1>1, <1>2

-----------------------------------------------------------------------------
(* CopyIn.                                                                 *)

\* It leaves the archive and the job's files alone.
LEMMA ArchiveStays ==
  ASSUME Inv, step \notin {"pull", "not_sent"}, step' \notin {"pull", "not_sent"},
         UNCHANGED <<source, touched, todo, archive>>, wire' \in Seq(Entries)
  PROVE  Files' /\ Packing' /\ Walk' /\ ArchiveOrdered' /\ Covered'
<1>1. Files' /\ Packing' /\ Walk' /\ ArchiveOrdered'
  BY DEF Inv, Files, Packing, Walk, ArchiveOrdered
<1>2. \A p : Untouched(p)' <=> Untouched(p)
  BY DEF Untouched
<1>3. Covered'
  BY <1>2 DEF Inv, Covered, Listed
<1>. QED BY <1>1, <1>3

LEMMA ReceiveNext ==
  ASSUME Inv, Receive, CopyAssumption
  PROVE  Inv'
<1>1. /\ step = "receive" /\ step' \in {"receive", "mkdir", "not_pushed"}
      /\ wire' \in {wire, Tail(wire)} /\ (wire' = wire \/ wire # <<>>)
      /\ code' \in {code, "INVALID_ARGUMENT", "NOT_FOUND"}
      /\ (level' = level \/ level' = 1) /\ (step' = "mkdir" => level' = 1)
      /\ UNCHANGED <<source, touched, todo, archive, target>>
  BY DEF Receive, outVars
<1>2. wire' \in Seq(Entries)
  <2>1. wire \in Seq(Entries)
    BY DEF Inv, Packing
  <2>2. wire # <<>> => Tail(wire) \in Seq(Entries)
    BY <2>1
  <2>. QED BY <1>1, <2>1, <2>2
<1>3. Files' /\ Packing' /\ Walk' /\ ArchiveOrdered' /\ Covered'
  BY <1>1, <1>2, ArchiveStays
<1>4. Len(Dest) \in Nat
  BY DEF CopyAssumption
<1>5. TypeOK'
  BY <1>1, <1>4 DEF Inv, TypeOK
<1>6. Making' /\ Pushing' /\ Unpacks'
  BY <1>1 DEF Inv, Making, Pushing, Unpacks
<1>. QED BY <1>3, <1>5, <1>6 DEF Inv

LEMMA LevelFacts ==
  ASSUME CopyAssumption, NEW i \in 1..Len(Dest)
  PROVE  /\ SubSeq(Dest, 1, i) \in Levels /\ Len(SubSeq(Dest, 1, i)) = i
         /\ Parent(SubSeq(Dest, 1, i)) = SubSeq(Dest, 1, i - 1)
<1>1. Dest \in Seq(Names) /\ Len(Dest) \in Nat
  BY DEF CopyAssumption
<1>2. PICK p \in Seq(Names) : /\ p = SubSeq(Dest, 1, i) /\ Len(p) = i
                              /\ \A j \in 1..i : p[j] = Dest[j]
  <2>1. i \in 0..Len(Dest)
    BY <1>1
  <2>2. /\ SubSeq(Dest, 1, i) \in Seq(Names) /\ Len(SubSeq(Dest, 1, i)) = i
        /\ \A j \in 1..i : SubSeq(Dest, 1, i)[j] = Dest[j]
    BY <1>1, <2>1, CutFacts
  <2>. QED BY <2>2
<1>3. p # <<>>
  BY <1>2
<1>4. /\ Parent(p) \in Seq(Names) /\ Len(Parent(p)) = i - 1
      /\ \A j \in 1..(i - 1) : Parent(p)[j] = p[j]
  BY <1>2, <1>3, ParentFacts
<1>5. i - 1 \in 0..Len(Dest)
  BY <1>1
<1>6. /\ SubSeq(Dest, 1, i - 1) \in Seq(Names) /\ Len(SubSeq(Dest, 1, i - 1)) = i - 1
      /\ \A j \in 1..(i - 1) : SubSeq(Dest, 1, i - 1)[j] = Dest[j]
  BY <1>1, <1>5, CutFacts
<1>7. Parent(p) = SubSeq(Dest, 1, i - 1)
  BY <1>2, <1>4, <1>6, SamePath
<1>. QED BY <1>2, <1>7 DEF Levels

\* The level above is made before.
LEMMA MkdirNext ==
  ASSUME Inv, Mkdir, CopyAssumption
  PROVE  Inv'
<1> DEFINE p == SubSeq(Dest, 1, level)
<1>1. Len(Dest) \in Nat /\ level \in 1..(Len(Dest) + 1) /\ step = "mkdir"
      /\ UNCHANGED <<source, touched, todo, archive>>
  BY DEF Mkdir, outVars, Inv, TypeOK, CopyAssumption
<1>2. /\ \A q \in DOMAIN target : q \in Levels /\ target[q] = Directory
      /\ \A i \in 1..(level - 1) : SubSeq(Dest, 1, i) \in DOMAIN target
  BY <1>1 DEF Inv, Making
<1>3. ASSUME level <= Len(Dest)
      PROVE  HasParent(p) /\ p \in Levels
  <2>1. level \in 1..Len(Dest)
    BY <1>1, <1>3
  <2>2. p \in Levels /\ Len(p) = level /\ Parent(p) = SubSeq(Dest, 1, level - 1)
    BY <2>1, LevelFacts
  <2>3. CASE level = 1
    BY <2>2, <2>3 DEF HasParent
  <2>4. CASE level # 1
    <3>1. level - 1 \in 1..(level - 1)
      BY <2>1, <2>4
    <3>. QED BY <1>2, <2>2, <3>1 DEF HasParent
  <2>. QED BY <2>2, <2>3, <2>4
<1>4. ASSUME level <= Len(Dest), Write(p, Directory), level' = level + 1,
             UNCHANGED <<wire, step, code>>
      PROVE  Inv'
  <2>1. DOMAIN target' = DOMAIN target \cup {p} /\ \A q \in DOMAIN target' : target'[q] = Directory
    BY <1>2, <1>4 DEF Write
  <2>2. Files' /\ Packing' /\ Walk' /\ ArchiveOrdered' /\ Covered'
    BY <1>1, <1>4, ArchiveStays DEF Inv, Packing
  <2>3. TypeOK'
    <3>1. DOMAIN target' \subseteq Levels \cup {Landing(r) : r \in Paths}
      BY <1>2, <1>3, <1>4, <2>1
    <3>2. level' \in 1..(Len(Dest) + 1)
      BY <1>1, <1>4
    <3>. QED BY <1>1, <1>4, <3>1, <3>2 DEF Inv, TypeOK
  <2>4. Making'
    <3>1. \A i \in 1..(level' - 1) : i \in 1..(level - 1) \/ i = level
      BY <1>1, <1>4
    <3>2. \A i \in 1..(level' - 1) : SubSeq(Dest, 1, i) \in DOMAIN target'
      BY <1>2, <2>1, <3>1
    <3>. QED BY <1>2, <1>3, <1>4, <2>1, <3>2 DEF Making
  <2>5. Pushing' /\ Unpacks'
    BY <1>1, <1>4 DEF Pushing, Unpacks
  <2>. QED BY <2>2, <2>3, <2>4, <2>5 DEF Inv
<1>5. ASSUME level <= Len(Dest), PushFails(p, Directory), UNCHANGED <<wire, level>>
      PROVE  Inv'
  <2>1. step' = "part_pushed" /\ code' = "ERROR" /\ (UNCHANGED target \/ Write(p, Directory))
    BY <1>3, <1>5 DEF PushFails
  <2>2. Files' /\ Packing' /\ Walk' /\ ArchiveOrdered' /\ Covered'
    BY <1>1, <1>5, <2>1, ArchiveStays DEF Inv, Packing
  <2>3. DOMAIN target' \subseteq Levels \cup {Landing(r) : r \in Paths}
    BY <1>2, <1>3, <1>5, <2>1 DEF Write
  <2>4. TypeOK'
    BY <1>1, <1>5, <2>1, <2>3 DEF Inv, TypeOK
  <2>5. Making' /\ Pushing' /\ Unpacks'
    BY <2>1 DEF Making, Pushing, Unpacks
  <2>. QED BY <2>2, <2>4, <2>5 DEF Inv
<1>6. ASSUME level > Len(Dest), wire' = archive, step' = "push", UNCHANGED <<level, target, code>>
      PROVE  Inv'
  <2>1. Files' /\ Packing' /\ Walk' /\ ArchiveOrdered' /\ Covered'
    BY <1>1, <1>6, ArchiveStays DEF Inv, Packing
  <2>2. TypeOK' /\ Making' /\ Unpacks'
    BY <1>1, <1>6 DEF Inv, TypeOK, Making, Unpacks
  <2>3. \A q \in Levels : q \in DOMAIN target /\ target[q] = Directory
    <3>1. \A i \in 1..Len(Dest) : i \in 1..(level - 1)
      BY <1>1, <1>6
    <3>. QED BY <1>2, <3>1 DEF Levels
  <2>4. Len(archive) \in Nat /\ Done' = 0
    BY <1>1, <1>6 DEF Inv, Packing, Done
  <2>5. Pushing'
    BY <1>1, <1>2, <1>6, <2>3, <2>4 DEF Pushing
  <2>. QED BY <2>1, <2>2, <2>5 DEF Inv
<1>. QED BY <1>4, <1>5, <1>6 DEF Mkdir


\* The directory of what is pushed is there: it comes before it in the archive.
LEMMA PushFinds ==
  ASSUME Inv, CopyAssumption, step = "push", wire # <<>>
  PROVE  \E p \in Paths :
           /\ Done + 1 \in 1..Len(archive) /\ Head(wire) = archive[Done + 1]
           /\ archive[Done + 1].path = In(p) /\ Dest \o Head(wire).path = Landing(p)
           /\ Kept(Head(wire).node) = archive[Done + 1].node
           /\ Landing(p) \notin Levels /\ HasParent(Landing(p))
           /\ Landing(p) = Dest \o archive[Done + 1].path
<1>1. /\ archive \in Seq(Entries) /\ wire \in Seq(Entries) /\ Len(archive) \in Nat
      /\ Len(wire) \in Nat /\ Len(wire) > 0 /\ Head(wire) = wire[1] /\ 1 \in 1..Len(wire)
  BY DEF Inv, Packing
<1>2. /\ \A q \in Levels : q \in DOMAIN target /\ target[q] = Directory
      /\ Len(wire) <= Len(archive)
      /\ \A j \in 1..Len(wire) : wire[j] = archive[Done + j]
      /\ \A i \in 1..Done : /\ Dest \o archive[i].path \in DOMAIN target
                            /\ target[Dest \o archive[i].path] = archive[i].node
  BY DEF Inv, Pushing
<1>3. Done \in Nat /\ Done + 1 \in 1..Len(archive)
  BY <1>1, <1>2 DEF Done
<1>4. Head(wire) = archive[Done + 1]
  BY <1>1, <1>2
<1> DEFINE k == Done + 1
<1>5. k \in 1..Len(archive) /\ k - 1 = Done
  BY <1>3
<1>. HIDE DEF k
<1>6. PICK p \in Paths, n \in Nodes :
        archive[k] = Entry(p, Kept(n)) /\ archive[k].path = In(p) /\ archive[k].node = Kept(n)
  BY <1>5, EntryFacts DEF Inv
<1>7. /\ Landing(p) \notin Levels /\ Landing(p) = Dest \o In(p)
      /\ p = <<>> => Parent(Landing(p)) = Dest
      /\ Parent(Landing(p)) = Dest \o Parent(In(p)) /\ Dest \in Levels
  BY LandFacts
<1>8. HasParent(Landing(p))
  <2>1. CASE p = <<>>
    BY <1>2, <1>7, <2>1 DEF HasParent
  <2>2. CASE p # <<>>
    <3>1. Len(archive[k].path) > 1
      BY <1>6, <2>2, InFacts
    <3>2. PICK j \in 1..(k - 1) :
            archive[j] = [path |-> Parent(archive[k].path), node |-> Directory]
      BY <1>5, <3>1 DEF Inv, ArchiveOrdered
    <3>3. j \in 1..Done /\ archive[j].path = Parent(In(p)) /\ archive[j].node = Directory
      BY <1>5, <1>6, <3>2
    <3>. QED BY <1>2, <1>7, <3>3 DEF HasParent
  <2>. QED BY <2>1, <2>2
<1>9. Kept(Kept(n)) = Kept(n)
  BY KeptFacts
<1>. QED BY <1>3, <1>4, <1>6, <1>7, <1>8, <1>9 DEF k

\* Every entry has a place of its own.
LEMMA Apart ==
  ASSUME Inv, CopyAssumption, NEW i \in 1..Len(archive), NEW j \in 1..Len(archive),
         Dest \o archive[i].path = Dest \o archive[j].path
  PROVE  i = j
<1>1. PICK p \in Paths : archive[i].path = In(p)
  BY EntryFacts DEF Inv
<1>2. PICK q \in Paths : archive[j].path = In(q)
  BY EntryFacts DEF Inv
<1>3. p = q
  BY <1>1, <1>2, LandFacts
<1>. QED BY <1>1, <1>2, <1>3 DEF Inv, ArchiveOrdered

LEMMA PushNext ==
  ASSUME Inv, Push, CopyAssumption
  PROVE  Inv'
<1>1. step = "push" /\ wire # <<>> /\ UNCHANGED <<source, touched, todo, archive, level>>
  BY DEF Push, outVars
<1> DEFINE k == Done + 1
           p == Dest \o Head(wire).path
           node == Kept(Head(wire).node)
<1>2. /\ k \in 1..Len(archive) /\ node = archive[k].node /\ p = Dest \o archive[k].path
      /\ p \notin Levels /\ HasParent(p) /\ \E r \in Paths : p = Landing(r)
  BY <1>1, PushFinds
<1>3. \/ Write(p, node) /\ wire' = Tail(wire) /\ UNCHANGED <<step, code>>
      \/ PushFails(p, node) /\ UNCHANGED wire
  BY DEF Push
<1>4. /\ wire \in Seq(Entries) /\ Tail(wire) \in Seq(Entries) /\ Len(wire) \in Nat
      /\ Len(Tail(wire)) = Len(wire) - 1
      /\ \A j \in 1..(Len(wire) - 1) : Tail(wire)[j] = wire[j + 1]
  BY <1>1 DEF Inv, Packing
<1>5. /\ \A q \in Levels : q \in DOMAIN target /\ target[q] = Directory
      /\ Len(wire) <= Len(archive) /\ Len(archive) \in Nat
      /\ \A j \in 1..Len(wire) : wire[j] = archive[Done + j]
      /\ \A i \in 1..Done : /\ Dest \o archive[i].path \in DOMAIN target
                            /\ target[Dest \o archive[i].path] = archive[i].node
      /\ \A q \in DOMAIN target :
           q \in Levels \/ \E i \in 1..Done : q = Dest \o archive[i].path
  <2>1. Len(archive) \in Nat
    BY DEF Inv, Packing
  <2>2. step \in {"push", "pushed"} /\ Pushing
    BY <1>1 DEF Inv
  <2>. QED BY <2>1, <2>2 DEF Pushing
<1>. HIDE DEF p, node
<1>6. ASSUME Write(p, node)
      PROVE  /\ DOMAIN target' = DOMAIN target \cup {p} /\ target'[p] = node
             /\ \A q \in DOMAIN target : q # p => target'[q] = target[q]
             /\ DOMAIN target' \subseteq Levels \cup {Landing(r) : r \in Paths}
  BY <1>2, <1>6 DEF Write, Inv, TypeOK
<1>7. ASSUME Write(p, node), wire' = Tail(wire), UNCHANGED <<step, code>>
      PROVE  Inv'
  <2>1. Files' /\ Packing' /\ Walk' /\ ArchiveOrdered' /\ Covered'
    BY <1>1, <1>4, <1>7, ArchiveStays
  <2>2. TypeOK' /\ Making' /\ Unpacks'
    BY <1>1, <1>6, <1>7 DEF Inv, TypeOK, Making, Unpacks
  <2>3. Done' = Done + 1 /\ Done \in Nat
    BY <1>1, <1>4, <1>5, <1>7 DEF Done
  <2>4. \A j \in 1..Len(wire') : wire'[j] = archive'[Done' + j]
    <3>1. ASSUME NEW j \in 1..Len(wire')
          PROVE  wire'[j] = archive'[Done' + j]
      <4>1. j \in 1..(Len(wire) - 1) /\ j + 1 \in 1..Len(wire) /\ j \in Nat
        BY <1>4, <1>7
      <4>2. Done' + j = Done + (j + 1)
        BY <2>3, <4>1
      <4>3. wire'[j] = wire[j + 1] /\ wire[j + 1] = archive[Done + (j + 1)]
        BY <1>4, <1>5, <1>7, <4>1
      <4>. QED BY <1>1, <4>2, <4>3
    <3>. QED BY <3>1
  <2>5. ASSUME NEW i \in 1..Done'
        PROVE  /\ Dest \o archive[i].path \in DOMAIN target'
               /\ target'[Dest \o archive[i].path] = archive[i].node
    <3>1. CASE i = k
      BY <1>2, <1>6, <1>7, <3>1
    <3>2. CASE i # k
      <4>1. i \in 1..Done /\ i \in 1..Len(archive)
        BY <1>5, <2>3, <3>2 DEF Done
      <4>2. Dest \o archive[i].path # p
        BY <1>2, <3>2, <4>1, Apart
      <4>. QED BY <1>5, <1>6, <1>7, <4>1, <4>2
    <3>. QED BY <3>1, <3>2
  <2>6. \A q \in Levels : q \in DOMAIN target' /\ target'[q] = Directory
    BY <1>2, <1>5, <1>6, <1>7
  <2>7. \A q \in DOMAIN target' : q \in Levels \/ \E i \in 1..Done' : q = Dest \o archive[i].path
    <3>1. k \in 1..Done' /\ \A i \in 1..Done : i \in 1..Done'
      BY <2>3
    <3>. HIDE DEF k
    <3>. QED BY <1>2, <1>5, <1>6, <1>7, <3>1
  <2>8. Len(wire') <= Len(archive)
    BY <1>4, <1>5, <1>7
  <2>9. Pushing'
    BY <1>1, <1>7, <2>4, <2>5, <2>6, <2>7, <2>8 DEF Pushing
  <2>. QED BY <2>1, <2>2, <2>9 DEF Inv
<1>8. ASSUME PushFails(p, node), UNCHANGED wire
      PROVE  Inv'
  <2>1. step' = "part_pushed" /\ code' = "ERROR" /\ (UNCHANGED target \/ Write(p, node))
    BY <1>2, <1>8 DEF PushFails
  <2>2. Files' /\ Packing' /\ Walk' /\ ArchiveOrdered' /\ Covered'
    BY <1>1, <1>4, <1>8, <2>1, ArchiveStays
  <2>3. TypeOK'
    BY <1>1, <1>6, <2>1 DEF Inv, TypeOK
  <2>4. Making' /\ Pushing' /\ Unpacks'
    BY <2>1 DEF Making, Pushing, Unpacks
  <2>. QED BY <2>2, <2>3, <2>4 DEF Inv
<1>. QED BY <1>3, <1>7, <1>8

LEMMA EndNext ==
  ASSUME Inv, Damaged \/ Pushed
  PROVE  Inv'
<1>1. /\ step = "push" /\ UNCHANGED <<source, touched, todo, archive, wire, level, target>>
      /\ \/ step' = "part_pushed" /\ code' = "INVALID_ARGUMENT"
         \/ step' = "pushed" /\ wire = <<>> /\ code' = "OK"
  BY DEF Damaged, Pushed, outVars, inVars
<1>2. Files' /\ Packing' /\ Walk' /\ ArchiveOrdered' /\ Covered'
  BY <1>1, ArchiveStays DEF Inv, Packing
<1>3. TypeOK' /\ Making' /\ Unpacks'
  BY <1>1 DEF Inv, TypeOK, Making, Unpacks
<1>4. Pushing'
  BY <1>1 DEF Inv, Pushing, Done
<1>. QED BY <1>2, <1>3, <1>4 DEF Inv


-----------------------------------------------------------------------------
(* The theorems.                                                           *)

LEMMA InitInv ==
  ASSUME Init, CopyAssumption
  PROVE  Inv
<1>1. /\ source \in Trees /\ touched = <<>> /\ step = "pull" /\ todo = << <<>> >>
      /\ archive = <<>> /\ wire = <<>> /\ level = 1 /\ code = "none"
  BY DEF Init
<1>2. Len(Dest) \in Nat /\ Len(Dest) > 0
  BY DEF CopyAssumption
<1>3. PICK k \in 0..Len(Dest) : target = [p \in {SubSeq(Dest, 1, i) : i \in 1..k} |-> Directory]
  BY DEF Init
<1>4. \A q \in DOMAIN target : q \in Levels /\ target[q] = Directory
  BY <1>2, <1>3 DEF Levels
<1>5. Files
  BY <1>1 DEF CopyAssumption, Files
<1>6. <<>> \in Paths
  <2>1. <<>> \in [1..0 -> Names] /\ 0 \in 0..MaxDepth
    BY DEF CopyAssumption
  <2>. QED BY <2>1 DEF Paths
<1>7. todo \in Seq(Paths) /\ Len(todo) = 1 /\ todo[1] = <<>>
  BY <1>1, <1>6
<1>8. TypeOK
  BY <1>1, <1>2, <1>4, <1>5, <1>7 DEF TypeOK, Files
<1>9. Packing /\ ArchiveOrdered /\ Making /\ Pushing /\ Unpacks
  BY <1>1, <1>4 DEF Packing, ArchiveOrdered, Making, Pushing, Unpacks
<1>10. Walk
  BY <1>1, <1>7 DEF Walk
<1>11. Covered
  <2>1. ASSUME NEW p \in DOMAIN source
        PROVE  IsPrefix(todo[1], p)
    BY <1>5, <1>7, PathType, PrefixOrder DEF Files
  <2>. QED BY <1>1, <1>7, <2>1 DEF Covered
<1>. QED BY <1>5, <1>8, <1>9, <1>10, <1>11 DEF Inv

LEMMA NextInv ==
  ASSUME Inv, [Next]_vars, CopyAssumption
  PROVE  Inv'
<1>1. CASE UNCHANGED vars
  <2>1. UNCHANGED <<source, touched, step, todo, archive, wire, level, target, code>>
    BY <1>1 DEF vars, outVars, inVars
  <2>2. TypeOK' /\ Files' /\ Packing' /\ Walk' /\ ArchiveOrdered' /\ Unpacks'
    BY <2>1 DEF Inv, TypeOK, Files, Packing, Walk, ArchiveOrdered, Unpacks
  <2>3. Covered' /\ Making' /\ Pushing'
    BY <2>1 DEF Inv, Covered, Untouched, Listed, Making, Pushing, Done
  <2>. QED BY <2>2, <2>3 DEF Inv
<1>. QED BY <1>1, JobWritesNext, PullNext, WalkEnds, ReceiveNext, MkdirNext, PushNext, EndNext
        DEF Next

LEMMA InvAlways == Spec => []Inv
<1>1. Init => Inv
  BY InitInv, CopyAssumption
<1>2. Inv /\ [Next]_vars => Inv'
  BY NextInv, CopyAssumption
<1>. QED BY <1>1, <1>2, PTL DEF Spec

\* The stack, the archive's place in the calls and the target's paths are what
\* the walk of _pull_into_tar and the loops of _push_tar can make of them.
THEOREM CopyTypes == Spec => []TypeOK
<1>1. Inv => TypeOK
  BY DEF Inv
<1>. QED BY <1>1, InvAlways, PTL

\* Whatever the job does to its files during the walk of _pull_into_tar, the
\* archive has no path twice, and the directory of everything in it before it.
THEOREM ArchiveInOrder == Spec => []ArchiveOrdered
<1>1. Inv => ArchiveOrdered
  BY DEF Inv
<1>. QED BY <1>1, InvAlways, PTL

\* No push of _push_tar misses its directory: CopyIn can unpack what CopyOut
\* packed.
THEOREM ArchiveUnpacks == Spec => []Unpacks
<1>1. Inv => Unpacks
  BY DEF Inv
<1>. QED BY <1>1, InvAlways, PTL

\* After CopyOut and CopyIn have answered OK every file that nobody changed
\* meanwhile has come through, as it was but for a mode of 0; and if nothing was
\* changed nothing else is at the destination.
THEOREM CopiesComplete == Spec => []RoundTrip
<1>1. ASSUME Inv, step = "pushed", NEW p \in DOMAIN source, Untouched(p)
      PROVE  Landing(p) \in DOMAIN target /\ target[Landing(p)] = Kept(source[p])
  <2>1. todo = <<>> /\ wire = <<>> /\ Done = Len(archive) /\ p \in Paths
    BY <1>1 DEF Inv, Packing, Pushing, Files, Done
  <2>2. PICK i \in 1..Len(archive) : archive[i] = Entry(p, Kept(source[p]))
    BY <1>1, <2>1 DEF Inv, Covered, Listed
  <2>3. archive[i].path = In(p) /\ archive[i].node = Kept(source[p])
    BY <2>2 DEF Entry, In
  <2>4. /\ Dest \o archive[i].path \in DOMAIN target
        /\ target[Dest \o archive[i].path] = archive[i].node
    BY <1>1, <2>1 DEF Inv, Pushing
  <2>5. Landing(p) = Dest \o archive[i].path
    BY <2>1, <2>3, LandFacts, CopyAssumption
  <2>. QED BY <2>3, <2>4, <2>5
<1>2. ASSUME Inv, step = "pushed", touched = <<>>
      PROVE  DOMAIN target = Levels \cup {Landing(p) : p \in DOMAIN source}
  <2>1. ASSUME NEW q \in DOMAIN target, q \notin Levels
        PROVE  \E p \in DOMAIN source : q = Landing(p)
    <3>1. PICK i \in 1..Len(archive) : q = Dest \o archive[i].path
      BY <1>2, <2>1 DEF Inv, Pushing, Packing, Done
    <3>2. PICK p \in DOMAIN source : archive[i].path = In(p)
      BY <1>2 DEF Inv, Covered
    <3>3. p \in Paths
      BY <1>2 DEF Inv, Files
    <3>. QED BY <3>1, <3>2, <3>3, LandFacts, CopyAssumption
  <2>2. \A p \in DOMAIN source : Landing(p) \in DOMAIN target
    <3>1. \A p \in DOMAIN source : Untouched(p)
      BY <1>2 DEF Untouched
    <3>. QED BY <1>1, <1>2, <3>1
  <2>3. Levels \subseteq DOMAIN target
    BY <1>2 DEF Inv, Pushing
  <2>. QED BY <2>1, <2>2, <2>3
<1>3. Inv => RoundTrip
  BY <1>1, <1>2 DEF RoundTrip
<1>. QED BY <1>3, InvAlways, PTL

\* CopyIn only ever adds to the destination: a level that is there is made again
\* as what it is, and no two entries of an archive have the same place, however
\* the files changed during the walk.
THEOREM CopyInOnlyAdds == Spec => NothingOverwritten
<1> DEFINE Adds == \A p \in DOMAIN target : p \in DOMAIN target' /\ target'[p] = target[p]
<1>1. ASSUME Inv, Mkdir
      PROVE  Adds
  <2>1. CASE UNCHANGED target
    BY <2>1
  <2>2. CASE ~UNCHANGED target
    <3>1. Write(SubSeq(Dest, 1, level), Directory)
      BY <1>1, <2>2 DEF Mkdir, PushFails
    <3>2. \A q \in DOMAIN target : target[q] = Directory
      BY <1>1 DEF Inv, Making, Mkdir
    <3>. QED BY <3>1, <3>2 DEF Write
  <2>. QED BY <2>1, <2>2
<1>2. ASSUME Inv, Push
      PROVE  Adds
  <2> DEFINE p == Dest \o Head(wire).path
             node == Kept(Head(wire).node)
  <2>1. step = "push" /\ wire # <<>>
    BY <1>2 DEF Push
  <2>2. /\ Done + 1 \in 1..Len(archive) /\ p \notin Levels
        /\ p = Dest \o archive[Done + 1].path
    BY <1>2, <2>1, PushFinds, CopyAssumption
  <2>3. /\ \A q \in DOMAIN target :
             q \in Levels \/ \E i \in 1..Done : q = Dest \o archive[i].path
        /\ Len(archive) \in Nat /\ Len(wire) \in Nat
    BY <1>2, <2>1 DEF Inv, Pushing, Packing
  <2>4. UNCHANGED target \/ Write(p, node)
    BY <1>2 DEF Push, PushFails
  <2> HIDE DEF p, node
  <2>5. p \notin DOMAIN target
    <3>1. \A i \in 1..Done : i \in 1..Len(archive) /\ i # Done + 1
      BY <2>2, <2>3 DEF Done
    <3>. QED BY <1>2, <2>2, <2>3, <3>1, Apart, CopyAssumption
  <2>. QED BY <2>4, <2>5 DEF Write
<1>3. ASSUME UNCHANGED target
      PROVE  Adds
  BY <1>3
<1>4. ASSUME JobWrites \/ Pull \/ PullFails \/ Send \/ Receive \/ Damaged \/ Pushed
      PROVE  UNCHANGED target
  BY <1>4 DEF JobWrites, Pull, PullFails, Send, Receive, Damaged, Pushed, inVars
<1>5. Inv /\ [Next]_vars =>
        [\A p \in DOMAIN target : p \in DOMAIN target' /\ target'[p] = target[p]]_vars
  <2>. SUFFICES ASSUME Inv, Next PROVE Adds
    OBVIOUS
  <2>. QED BY <1>1, <1>2, <1>3, <1>4 DEF Next
<1>. QED BY <1>5, InvAlways, PTL DEF Spec, NothingOverwritten


=============================================================================
