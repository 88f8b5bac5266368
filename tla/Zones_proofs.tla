--------------------------- MODULE Zones_proofs ---------------------------
(***************************************************************************)
(* Proofs about zones.yml: what a clean lint says of a file, what the      *)
(* conversion from tinydns keeps, and how far a reload brings it.          *)
(***************************************************************************)
EXTENDS DnsZones, PdnsReload, FiniteSetTheorems, SequenceTheorems, WellFoundedInduction, TLAPS

-----------------------------------------------------------------------------
(* Least and longest.                                                       *)

\* Induction over the naturals, by the least counterexample.
LEMMA LeastNatural ==
  ASSUME NEW S, S \subseteq Nat, S # {}
  PROVE  \E m \in S : \A n \in S : m <= n
<1> DEFINE R == {ss \in Nat \X Nat : ss[1] < ss[2]}
<1>1. IsWellFoundedOn(R, Nat)
  BY NatLessThanWellFounded DEF OpToRel
<1>2. \A n, m \in Nat : n < m => <<n, m>> \in R
  OBVIOUS
<1> HIDE DEF R
<1>3. PICK m \in S : \A n \in S : ~ (<<n, m>> \in R)
  BY <1>1, WFMin
<1>4. ASSUME NEW n \in S PROVE m <= n
  <2>1. n \in Nat /\ m \in Nat
    OBVIOUS
  <2>2. ~(n < m)
    BY <1>2, <1>3, <2>1
  <2> QED
    BY <2>1, <2>2
<1> QED
  BY <1>4

\* Among names that are not longer than n there is a longest.
LEMMA Longest ==
  ASSUME NEW S, NEW B, B \subseteq Seq(S), B # {}, NEW n \in Nat, \A a \in B : Len(a) <= n
  PROVE  \E a \in B : \A b \in B : Len(b) <= Len(a)
<1> DEFINE T == {n - Len(a) : a \in B}
<1>0. \A a \in B : Len(a) \in Nat
  BY LenProperties
<1>1. T \subseteq Nat /\ T # {}
  BY <1>0
<1>2. PICK m \in T : \A k \in T : m <= k
  BY <1>1, LeastNatural
<1>3. PICK a \in B : m = n - Len(a)
  BY <1>2
<1>4. ASSUME NEW b \in B PROVE Len(b) <= Len(a)
  <2>1. n - Len(b) \in T
    OBVIOUS
  <2>2. m <= n - Len(b)
    BY <1>2, <2>1
  <2>3. Len(a) \in Nat /\ Len(b) \in Nat
    BY <1>0
  <2> HIDE DEF T
  <2> QED
    BY <1>3, <2>2, <2>3
<1> QED
  BY <1>4

LEMMA ReverseType ==
  ASSUME NEW S, NEW s \in Seq(S)
  PROVE  /\ Reverse(s) \in Seq(S) /\ Len(Reverse(s)) = Len(s)
         /\ \A i \in 1 .. Len(s) : Reverse(s)[i] = s[(Len(s) - i) + 1]
<1>1. Len(s) \in Nat /\ \A i \in 1 .. Len(s) : s[i] \in S
  BY LenProperties, ElementOfSeq
<1>2. \A i \in 1 .. Len(s) : (Len(s) - i) + 1 \in 1 .. Len(s)
  BY <1>1
<1>3. Reverse(s) = [i \in 1 .. Len(s) |-> s[(Len(s) - i) + 1]]
  BY DEF Reverse
<1>4. \A i \in 1 .. Len(s) : Reverse(s)[i] \in S
  BY <1>1, <1>2, <1>3
<1>5. Reverse(s) \in [1 .. Len(s) -> S]
  BY <1>3, <1>4
<1> QED
  BY <1>1, <1>3, <1>5, IsASeq

\* A name in an apex ends with the apex's labels.
LEMMA InsideMeans ==
  ASSUME NEW name \in Seq(Label), NEW apex \in Seq(Label)
  PROVE  Inside(name, apex) <=>
           /\ Len(apex) <= Len(name)
           /\ \A i \in 1 .. Len(apex) : Reverse(apex)[i] = Reverse(name)[i]
<1> DEFINE a == Reverse(apex)
           n == Reverse(name)
<1>1. a \in Seq(Label) /\ n \in Seq(Label) /\ Len(a) = Len(apex) /\ Len(n) = Len(name)
  BY ReverseType
<1> HIDE DEF a, n
<1>2. Inside(name, apex) <=> Len(a) <= Len(n) /\ SubSeq(a, 1, Len(a)) = SubSeq(n, 1, Len(a))
  BY DEF Inside, IsSuffix, IsPrefix, a, n
<1>3. Len(a) \in Nat /\ Len(n) \in Nat
  BY <1>1, LenProperties
<1>4. SubSeq(a, 1, Len(a)) = [i \in 1 .. Len(a) |-> a[i]]
  BY <1>1, <1>3
<1>5. Len(a) <= Len(n) => SubSeq(n, 1, Len(a)) = [i \in 1 .. Len(a) |-> n[i]]
  BY <1>1, <1>3
<1>6. Len(a) <= Len(n) =>
        ((SubSeq(a, 1, Len(a)) = SubSeq(n, 1, Len(a))) <=> \A i \in 1 .. Len(a) : a[i] = n[i])
  <2>1. ASSUME \A i \in 1 .. Len(a) : a[i] = n[i]
        PROVE  [i \in 1 .. Len(a) |-> a[i]] = [i \in 1 .. Len(a) |-> n[i]]
    BY <2>1
  <2>2. ASSUME [i \in 1 .. Len(a) |-> a[i]] = [i \in 1 .. Len(a) |-> n[i]],
               NEW i \in 1 .. Len(a)
        PROVE  a[i] = n[i]
    <3>1. [k \in 1 .. Len(a) |-> a[k]][i] = [k \in 1 .. Len(a) |-> n[k]][i]
      BY <2>2
    <3> QED
      BY <3>1
  <2> QED
    BY <1>4, <1>5, <2>1, <2>2
<1> QED
  BY <1>1, <1>2, <1>6 DEF a, n

\* Of two apexes of one name the longer is in the shorter.
LEMMA Nested ==
  ASSUME NEW name \in Seq(Label), NEW a \in Seq(Label), NEW b \in Seq(Label),
         Inside(name, a), Inside(name, b), Len(a) <= Len(b)
  PROVE  Inside(b, a) /\ (Len(a) = Len(b) => a = b)
<1>0. Len(a) \in Nat /\ Len(b) \in Nat
  BY LenProperties
<1>1. \A i \in 1 .. Len(a) : Reverse(a)[i] = Reverse(b)[i]
  BY <1>0, InsideMeans
<1>2. Inside(b, a)
  BY <1>1, InsideMeans
<1>3. ASSUME Len(a) = Len(b) PROVE a = b
  <2>1. ASSUME NEW i \in 1 .. Len(a) PROVE a[i] = b[i]
    <3>1. PICK k \in 1 .. Len(a) : (Len(a) - k) + 1 = i
      <4>1. (Len(a) - i) + 1 \in 1 .. Len(a) /\ (Len(a) - ((Len(a) - i) + 1)) + 1 = i
        BY <1>0
      <4> QED
        BY <4>1
    <3>2. /\ Reverse(a)[k] = a[(Len(a) - k) + 1]
          /\ Reverse(b)[k] = b[(Len(b) - k) + 1]
      BY <1>3, <3>1, ReverseType
    <3>3. Reverse(a)[k] = a[i] /\ Reverse(b)[k] = b[i]
      BY <1>3, <3>1, <3>2
    <3>4. Reverse(a)[k] = Reverse(b)[k]
      BY <1>1
    <3> QED
      BY <3>3, <3>4
  <2> QED
    BY <1>3, <2>1, SeqEqual
<1> QED
  BY <1>2, <1>3

\* _longest_matching_apex finds the longest apex, if there is one.
LEMMA ClosestIsLongest ==
  ASSUME NEW name \in Seq(Label), NEW set, set \subseteq Seq(Label),
         NEW b \in set, Inside(name, b)
  PROVE  /\ Closest(name, set) \in set
         /\ Inside(name, Closest(name, set))
         /\ \A a \in set : Inside(name, a) => Len(a) <= Len(Closest(name, set))
<1> DEFINE above == {a \in set : Inside(name, a)}
<1>1. above # {} /\ above \subseteq Seq(Label)
  OBVIOUS
<1>2. \A a \in above : Len(a) <= Len(name)
  BY InsideMeans
<1>3. \E a \in above : \A c \in above : Len(c) <= Len(a)
  <2>1. Len(name) \in Nat
    BY LenProperties
  <2> HIDE DEF above
  <2> QED
    BY <1>1, <1>2, <2>1, Longest
<1>4. Closest(name, set) = CHOOSE a \in above : \A c \in above : Len(c) <= Len(a)
  BY <1>1 DEF Closest
<1> HIDE DEF above
<1>5. /\ Closest(name, set) \in above
      /\ \A c \in above : Len(c) <= Len(Closest(name, set))
  BY <1>3, <1>4
<1> QED
  BY <1>5 DEF above

\* Without the apexes that are not the closest it is the closest as well.
LEMMA ClosestOfFewer ==
  ASSUME NEW name \in Seq(Label), NEW set, set \subseteq Seq(Label),
         NEW b \in set, Inside(name, b),
         NEW fewer, fewer \subseteq set, Closest(name, set) \in fewer
  PROVE  Closest(name, fewer) = Closest(name, set)
<1> DEFINE c == Closest(name, set)
           d == Closest(name, fewer)
<1>1. c \in set /\ Inside(name, c) /\ \A a \in set : Inside(name, a) => Len(a) <= Len(c)
  BY ClosestIsLongest
<1> HIDE DEF c
<1>2. d \in fewer /\ Inside(name, d) /\ \A a \in fewer : Inside(name, a) => Len(a) <= Len(d)
  BY <1>1, ClosestIsLongest DEF c
<1> HIDE DEF d
<1>3. Len(c) = Len(d)
  <2>1. Len(c) \in Nat /\ Len(d) \in Nat
    BY <1>1, <1>2, LenProperties
  <2>2. Len(c) <= Len(d) /\ Len(d) <= Len(c)
    BY <1>1, <1>2 DEF c
  <2> QED
    BY <2>1, <2>2
<1>4. Len(c) <= Len(d)
  <2>1. Len(c) \in Nat /\ Len(d) \in Nat
    BY <1>1, <1>2, LenProperties
  <2> QED
    BY <1>3, <2>1
<1>5. c = d
  BY <1>1, <1>2, <1>3, <1>4, Nested
<1> QED
  BY <1>5 DEF c, d

-----------------------------------------------------------------------------
(* The names of addresses.                                                  *)

\* A name in the reverse tree.
LEMMA Rooted ==
  ASSUME NEW front \in Seq(Label)
  PROVE  /\ front \o ReverseRoot \in Seq(Label)
         /\ Len(front \o ReverseRoot) = Len(front) + Len(ReverseRoot)
         /\ \A i \in 1 .. Len(front) : (front \o ReverseRoot)[i] = front[i]
         /\ \A i \in 1 .. Len(ReverseRoot) :
              (front \o ReverseRoot)[Len(front) + i] = ReverseRoot[i]
<1> SUFFICES ASSUME ReverseRoot \in Seq(Label)
             PROVE  /\ front \o ReverseRoot \in Seq(Label)
                    /\ Len(front \o ReverseRoot) = Len(front) + Len(ReverseRoot)
                    /\ \A i \in 1 .. Len(front) : (front \o ReverseRoot)[i] = front[i]
                    /\ \A i \in 1 .. Len(ReverseRoot) :
                         (front \o ReverseRoot)[Len(front) + i] = ReverseRoot[i]
  BY NamesAssumption
<1> QED
  BY ConcatProperties

(* _reverse_dns_owner and _ipv4_from_reverse are inverse to each other, so  *)
(* that the two halves of the lint of address pairs look for one another's  *)
(* records.                                                                 *)
THEOREM ReverseNamesRoundTrip ==
  /\ \A address \in Seq(Label) :
       Len(address) = Octets => AddressOf(ReverseName(address)) = address
  /\ \A name \in Seq(Label) :
       AddressOf(name) # None => ReverseName(AddressOf(name)) = name
<1> DEFINE m == Len(ReverseRoot)
           half(name) == SubSeq(name, 1, Octets)
<1>0. ReverseRoot \in Seq(Label) /\ m \in Nat /\ Octets \in Nat
  BY NamesAssumption, LenProperties
<1>1. ASSUME NEW address \in Seq(Label), Len(address) = Octets
      PROVE  AddressOf(ReverseName(address)) = address
  <2> DEFINE front == Reverse(address)
             name == front \o ReverseRoot
  <2>1. /\ front \in Seq(Label) /\ Len(front) = Octets
        /\ \A i \in 1 .. Octets : front[i] = address[(Octets - i) + 1]
    BY <1>1, ReverseType
  <2> HIDE DEF front
  <2>2. /\ name \in Seq(Label) /\ Len(name) = Octets + m
        /\ \A i \in 1 .. Octets : name[i] = front[i]
        /\ \A i \in 1 .. m : name[Octets + i] = ReverseRoot[i]
    <3>1. /\ name \in Seq(Label) /\ Len(name) = Len(front) + Len(ReverseRoot)
          /\ \A i \in 1 .. Len(front) : name[i] = front[i]
          /\ \A i \in 1 .. Len(ReverseRoot) : name[Len(front) + i] = ReverseRoot[i]
      BY <2>1, Rooted
    <3> HIDE DEF name
    <3> QED
      BY <2>1, <3>1
  <2> HIDE DEF name
  <2>3. Inside(name, ReverseRoot)
    <3>1. m <= Len(name)
      BY <1>0, <2>2
    <3>2. ASSUME NEW i \in 1 .. m PROVE Reverse(ReverseRoot)[i] = Reverse(name)[i]
      <4>1. Reverse(ReverseRoot)[i] = ReverseRoot[(m - i) + 1]
        BY <1>0, ReverseType
      <4>2. i \in 1 .. Len(name) /\ (Len(name) - i) + 1 = Octets + ((m - i) + 1)
        BY <1>0, <2>2
      <4>3. Reverse(name)[i] = name[Octets + ((m - i) + 1)]
        BY <2>2, <4>2, ReverseType
      <4>4. (m - i) + 1 \in 1 .. m
        BY <1>0
      <4> HIDE DEF m
      <4> QED
        BY <2>2, <4>1, <4>3, <4>4
    <3> QED
      BY <1>0, <2>2, <3>1, <3>2, InsideMeans
  <2>4. half(name) = front
    <3>1. half(name) \in Seq(Label) /\ Len(half(name)) = Octets
      BY <1>0, <2>2
    <3>2. \A i \in 1 .. Octets : half(name)[i] = front[i]
      BY <1>0, <2>2
    <3> HIDE DEF half
    <3> QED
      BY <2>1, <3>1, <3>2, SeqEqual
  <2>5. Reverse(front) = address
    <3>1. Reverse(front) \in Seq(Label) /\ Len(Reverse(front)) = Octets
      BY <2>1, ReverseType
    <3>2. ASSUME NEW i \in 1 .. Octets PROVE Reverse(front)[i] = address[i]
      <4>1. Reverse(front)[i] = front[(Octets - i) + 1]
        BY <2>1, ReverseType
      <4>2. (Octets - i) + 1 \in 1 .. Octets /\ (Octets - ((Octets - i) + 1)) + 1 = i
        BY <1>0
      <4> QED
        BY <2>1, <4>1, <4>2
    <3> QED
      BY <1>1, <3>1, <3>2, SeqEqual
  <2>6. AddressOf(name) = Reverse(half(name))
    BY <2>2, <2>3 DEF AddressOf
  <2> QED
    BY <2>4, <2>5, <2>6 DEF ReverseName, name, front
<1>2. ASSUME NEW name \in Seq(Label), AddressOf(name) # None
      PROVE  ReverseName(AddressOf(name)) = name
  <2>1. /\ Inside(name, ReverseRoot) /\ Len(name) = Octets + m
        /\ AddressOf(name) = Reverse(half(name))
    BY <1>2 DEF AddressOf
  <2>2. /\ half(name) \in Seq(Label) /\ Len(half(name)) = Octets
        /\ \A i \in 1 .. Octets : half(name)[i] = name[i]
    BY <1>0, <2>1
  <2> HIDE DEF half
  <2> DEFINE front == Reverse(Reverse(half(name)))
             whole == front \o ReverseRoot
  <2>3. /\ front \in Seq(Label) /\ Len(front) = Octets
        /\ \A i \in 1 .. Octets : front[i] = name[i]
    <3> DEFINE back == Reverse(half(name))
    <3>1. /\ back \in Seq(Label) /\ Len(back) = Octets
          /\ \A i \in 1 .. Octets : back[i] = half(name)[(Octets - i) + 1]
      BY <2>2, ReverseType
    <3> HIDE DEF back
    <3>2. /\ Reverse(back) \in Seq(Label) /\ Len(Reverse(back)) = Octets
          /\ \A i \in 1 .. Octets : Reverse(back)[i] = back[(Octets - i) + 1]
      BY <3>1, ReverseType
    <3>3. \A i \in 1 .. Octets :
            (Octets - i) + 1 \in 1 .. Octets /\ (Octets - ((Octets - i) + 1)) + 1 = i
      BY <1>0
    <3>4. \A i \in 1 .. Octets : Reverse(back)[i] = half(name)[i]
      BY <3>1, <3>2, <3>3
    <3> QED
      BY <2>2, <3>2, <3>4 DEF back
  <2> HIDE DEF front
  <2>4. /\ whole \in Seq(Label) /\ Len(whole) = Octets + m
        /\ \A i \in 1 .. Octets : whole[i] = front[i]
        /\ \A i \in 1 .. m : whole[Octets + i] = ReverseRoot[i]
    <3>1. /\ whole \in Seq(Label) /\ Len(whole) = Len(front) + Len(ReverseRoot)
          /\ \A i \in 1 .. Len(front) : whole[i] = front[i]
          /\ \A i \in 1 .. Len(ReverseRoot) : whole[Len(front) + i] = ReverseRoot[i]
      BY <2>3, Rooted
    <3> HIDE DEF whole
    <3> QED
      BY <2>3, <3>1
  <2> HIDE DEF whole
  <2>5. ASSUME NEW i \in 1 .. m PROVE ReverseRoot[i] = name[Octets + i]
    <3> DEFINE k == (m - i) + 1
    <3>1. k \in 1 .. m /\ (m - k) + 1 = i /\ k \in 1 .. Len(name)
          /\ (Len(name) - k) + 1 = Octets + i
      BY <1>0, <2>1
    <3> HIDE DEF k
    <3>2. Reverse(ReverseRoot)[k] = ReverseRoot[(m - k) + 1]
      BY <1>0, <3>1, ReverseType
    <3>3. Reverse(name)[k] = name[(Len(name) - k) + 1]
      BY <3>1, ReverseType
    <3>4. Reverse(ReverseRoot)[k] = Reverse(name)[k]
      BY <1>0, <2>1, <3>1, InsideMeans
    <3> QED
      BY <3>1, <3>2, <3>3, <3>4
  <2>6. ASSUME NEW i \in 1 .. Len(name) PROVE whole[i] = name[i]
    <3>1. CASE i <= Octets
      BY <1>0, <2>1, <2>3, <2>4, <3>1
    <3>2. CASE ~(i <= Octets)
      <4>1. i - Octets \in 1 .. m /\ i = Octets + (i - Octets)
        BY <1>0, <2>1, <3>2
      <4>2. whole[Octets + (i - Octets)] = ReverseRoot[i - Octets]
        BY <2>4, <4>1
      <4>3. ReverseRoot[i - Octets] = name[Octets + (i - Octets)]
        BY <2>5, <4>1
      <4> QED
        BY <4>1, <4>2, <4>3
    <3> QED
      BY <3>1, <3>2
  <2>7. whole = name
    BY <2>1, <2>4, <2>6, SeqEqual
  <2> QED
    BY <2>1, <2>7 DEF ReverseName, whole, front
<1> QED
  BY <1>1, <1>2

-----------------------------------------------------------------------------
(* FlattenSeq.                                                              *)

\* The recursion behind it.
Flattens(g, seqs, n) ==
  g = [i \in 1 .. n |-> IF i = 1 THEN seqs[i] ELSE g[i - 1] \o seqs[i]]

LEMMA FlattenExists ==
  ASSUME NEW seqs, NEW N \in Nat
  PROVE  \E g : Flattens(g, seqs, N)
<1> DEFINE T == {n \in Nat : ~ \E g : Flattens(g, seqs, n)}
<1> SUFFICES ASSUME T # {} PROVE FALSE
  OBVIOUS
<1>1. PICK m \in T : \A n \in T : m <= n
  BY LeastNatural
<1>2. CASE m = 0
  <2>1. Flattens([i \in 1 .. 0 |-> seqs[i]], seqs, 0)
    BY DEF Flattens
  <2> QED
    BY <1>1, <1>2, <2>1
<1>3. CASE m # 0
  <2>1. m - 1 \in Nat /\ m - 1 \notin T
    BY <1>1, <1>3
  <2>2. PICK g : Flattens(g, seqs, m - 1)
    BY <2>1
  <2> DEFINE h == [i \in 1 .. m |-> IF i < m THEN g[i] ELSE
                                    IF i = 1 THEN seqs[i] ELSE g[i - 1] \o seqs[i]]
  <2>3. Flattens(h, seqs, m)
    <3>1. \A i \in 1 .. m - 1 : g[i] = IF i = 1 THEN seqs[i] ELSE g[i - 1] \o seqs[i]
      BY <2>2 DEF Flattens
    <3>2. \A i \in 1 .. m : h[i] = IF i = 1 THEN seqs[i] ELSE h[i - 1] \o seqs[i]
      BY <3>1, <1>3
    <3>3. h = [i \in 1 .. m |-> h[i]]
      OBVIOUS
    <3> HIDE DEF h
    <3> QED
      BY <3>2, <3>3 DEF Flattens
  <2> QED
    BY <1>1, <2>3
<1> QED
  BY <1>2, <1>3

LEMMA FlattenRecursion ==
  ASSUME NEW S, NEW seqs \in Seq(Seq(S)), seqs # <<>>
  PROVE  \E g : /\ FlattenSeq(seqs) = g[Len(seqs)]
                /\ Flattens(g, seqs, Len(seqs))
<1>1. Len(seqs) \in Nat /\ Len(seqs) # 0
  BY EmptySeq, LenProperties
<1>2. PICK g : Flattens(g, seqs, Len(seqs))
  BY <1>1, FlattenExists
<1> DEFINE f == CHOOSE h : h = [i \in 1 .. Len(seqs) |->
                                  IF i = 1 THEN seqs[i] ELSE h[i - 1] \o seqs[i]]
<1>3. Flattens(f, seqs, Len(seqs))
  BY <1>2, Zenon DEF Flattens
<1>4. FlattenSeq(seqs) = f[Len(seqs)]
  BY <1>1 DEF FlattenSeq
<1> QED
  BY <1>3, <1>4

\* Where the elements come from: element k of s is element column[k] of
\* sequence row[k], no two of the same, and none is left out.
Origins(s, seqs, n, row, column) ==
  /\ \A k \in 1 .. Len(s) :
       /\ row[k] \in 1 .. n
       /\ column[k] \in 1 .. Len(seqs[row[k]])
       /\ s[k] = seqs[row[k]][column[k]]
  /\ \A k, l \in 1 .. Len(s) : row[k] = row[l] /\ column[k] = column[l] => k = l
  /\ \A i \in 1 .. n : \A j \in 1 .. Len(seqs[i]) :
       \E k \in 1 .. Len(s) : row[k] = i /\ column[k] = j

\* One sequence more.
LEMMA OriginsGrow ==
  ASSUME NEW S, NEW seqs, NEW n \in Nat, NEW s \in Seq(S), seqs[n + 1] \in Seq(S),
         NEW row, NEW column, Origins(s, seqs, n, row, column)
  PROVE  /\ s \o seqs[n + 1] \in Seq(S)
         /\ \E r, c : Origins(s \o seqs[n + 1], seqs, n + 1, r, c)
<1> DEFINE t == seqs[n + 1]
           u == s \o t
           r == [k \in 1 .. Len(u) |-> IF k <= Len(s) THEN row[k] ELSE n + 1]
           c == [k \in 1 .. Len(u) |-> IF k <= Len(s) THEN column[k] ELSE k - Len(s)]
<1>1. /\ u \in Seq(S) /\ Len(u) = Len(s) + Len(t)
      /\ \A k \in 1 .. Len(s) + Len(t) : u[k] = IF k <= Len(s) THEN s[k] ELSE t[k - Len(s)]
  BY ConcatProperties
<1>2. Len(s) \in Nat /\ Len(t) \in Nat
  BY LenProperties
<1> HIDE DEF u
<1>3. \A k \in 1 .. Len(u) :
        /\ r[k] = IF k <= Len(s) THEN row[k] ELSE n + 1
        /\ c[k] = IF k <= Len(s) THEN column[k] ELSE k - Len(s)
  OBVIOUS
<1> HIDE DEF r, c
<1>4. ASSUME NEW k \in 1 .. Len(u)
      PROVE  /\ r[k] \in 1 .. n + 1
             /\ c[k] \in 1 .. Len(seqs[r[k]])
             /\ u[k] = seqs[r[k]][c[k]]
  <2>1. CASE k <= Len(s)
    <3>1. k \in 1 .. Len(s) /\ r[k] = row[k] /\ c[k] = column[k] /\ u[k] = s[k]
      BY <1>1, <1>2, <1>3, <2>1
    <3>2. /\ row[k] \in 1 .. n
          /\ column[k] \in 1 .. Len(seqs[row[k]])
          /\ s[k] = seqs[row[k]][column[k]]
      BY <3>1 DEF Origins
    <3>3. row[k] \in 1 .. n + 1
      BY <3>2
    <3> QED
      BY <3>1, <3>2, <3>3
  <2>2. CASE ~(k <= Len(s))
    <3>1. r[k] = n + 1 /\ c[k] = k - Len(s) /\ u[k] = t[k - Len(s)]
      BY <1>1, <1>2, <1>3, <2>2
    <3>2. k - Len(s) \in 1 .. Len(t) /\ n + 1 \in 1 .. n + 1
      BY <1>1, <1>2, <2>2
    <3> QED
      BY <3>1, <3>2
  <2> QED
    BY <2>1, <2>2
<1>5. ASSUME NEW k \in 1 .. Len(u), NEW l \in 1 .. Len(u), r[k] = r[l], c[k] = c[l]
      PROVE  k = l
  <2>1. \A m \in 1 .. Len(s) : row[m] # n + 1
    BY <1>2 DEF Origins
  <2>2. \A m \in 1 .. Len(u) : m <= Len(s) => m \in 1 .. Len(s)
    BY <1>1, <1>2
  <2>3. (k <= Len(s)) <=> (l <= Len(s))
    BY <1>3, <1>5, <2>1, <2>2
  <2>4. CASE k <= Len(s)
    BY <1>3, <1>5, <2>2, <2>3, <2>4 DEF Origins
  <2>5. CASE ~(k <= Len(s))
    BY <1>1, <1>2, <1>3, <1>5, <2>3, <2>5
  <2> QED
    BY <2>4, <2>5
<1>6. ASSUME NEW i \in 1 .. n + 1, NEW j \in 1 .. Len(seqs[i])
      PROVE  \E k \in 1 .. Len(u) : r[k] = i /\ c[k] = j
  <2>1. CASE i = n + 1
    <3>1. j \in 1 .. Len(t)
      BY <2>1
    <3>2. Len(s) + j \in 1 .. Len(u) /\ ~(Len(s) + j <= Len(s)) /\ (Len(s) + j) - Len(s) = j
      BY <1>1, <1>2, <3>1
    <3> QED
      BY <1>3, <2>1, <3>2
  <2>2. CASE i # n + 1
    <3>1. i \in 1 .. n
      BY <2>2
    <3>2. PICK k \in 1 .. Len(s) : row[k] = i /\ column[k] = j
      BY <3>1 DEF Origins
    <3>3. k \in 1 .. Len(u) /\ k <= Len(s)
      BY <1>1, <1>2
    <3> QED
      BY <1>3, <3>2, <3>3
  <2> QED
    BY <2>1, <2>2
<1>7. Origins(u, seqs, n + 1, r, c)
  BY <1>4, <1>5, <1>6 DEF Origins
<1> QED
  BY <1>1, <1>7 DEF u

LEMMA FlattenOrigins ==
  ASSUME NEW S, NEW seqs \in Seq(Seq(S))
  PROVE  /\ FlattenSeq(seqs) \in Seq(S)
         /\ \E row, column : Origins(FlattenSeq(seqs), seqs, Len(seqs), row, column)
<1>1. CASE seqs = <<>>
  <2>1. FlattenSeq(seqs) = <<>>
    BY <1>1 DEF FlattenSeq
  <2>2. Origins(<<>>, seqs, 0, <<>>, <<>>)
    BY DEF Origins
  <2>3. Len(seqs) = 0 /\ <<>> \in Seq(S)
    BY <1>1
  <2>4. \E row, column : Origins(<<>>, seqs, 0, row, column)
    BY <2>2
  <2> QED
    BY <2>1, <2>3, <2>4
<1>2. CASE seqs # <<>>
  <2>1. PICK g : FlattenSeq(seqs) = g[Len(seqs)] /\ Flattens(g, seqs, Len(seqs))
    BY <1>2, FlattenRecursion
  <2>2. Len(seqs) \in Nat /\ Len(seqs) # 0
    BY <1>2, EmptySeq, LenProperties
  <2>3. \A i \in 1 .. Len(seqs) : seqs[i] \in Seq(S)
    BY ElementOfSeq
  <2> DEFINE Good(n) == /\ g[n] \in Seq(S)
                        /\ \E row, column : Origins(g[n], seqs, n, row, column)
             T == {n \in Nat : n # 0 /\ n <= Len(seqs) /\ ~Good(n)}
  <2>4. T = {}
    <3> SUFFICES ASSUME T # {} PROVE FALSE
      OBVIOUS
    <3>1. PICK m \in T : \A n \in T : m <= n
      BY LeastNatural
    <3>2. m \in 1 .. Len(seqs)
      BY <2>2, <3>1
    <3>3. g[m] = IF m = 1 THEN seqs[m] ELSE g[m - 1] \o seqs[m]
      BY <2>1, <3>2 DEF Flattens
    <3>4. CASE m = 1
      <4>1. Origins(<<>>, seqs, 0, <<>>, <<>>)
        BY DEF Origins
      <4>2. <<>> \in Seq(S) /\ seqs[0 + 1] \in Seq(S)
        BY <2>3, <3>2, <3>4
      <4>3. \E r, c : Origins(<<>> \o seqs[0 + 1], seqs, 0 + 1, r, c)
        BY <4>1, <4>2, OriginsGrow
      <4>4. <<>> \o seqs[0 + 1] = g[m]
        BY <3>3, <3>4, <4>2
      <4>5. Good(m)
        BY <3>3, <3>4, <4>2, <4>3, <4>4
      <4> QED
        BY <3>1, <4>5
    <3>5. CASE m # 1
      <4>1. m - 1 \in Nat /\ m - 1 # 0 /\ m - 1 <= Len(seqs) /\ ~(m <= m - 1)
        BY <2>2, <3>2, <3>5
      <4>2. Good(m - 1)
        BY <3>1, <4>1
      <4>3. seqs[(m - 1) + 1] \in Seq(S) /\ (m - 1) + 1 = m
        BY <2>3, <3>2
      <4> HIDE DEF T
      <4>4. /\ g[m - 1] \o seqs[(m - 1) + 1] \in Seq(S)
            /\ \E r, c : Origins(g[m - 1] \o seqs[(m - 1) + 1], seqs, (m - 1) + 1, r, c)
        BY <4>1, <4>2, <4>3, OriginsGrow
      <4>5. Good(m)
        BY <3>3, <3>5, <4>3, <4>4
      <4> QED
        BY <3>1, <4>5 DEF T
    <3> QED
      BY <3>4, <3>5
  <2>5. Good(Len(seqs))
    BY <2>2, <2>4
  <2> QED
    BY <2>1, <2>5
<1> QED
  BY <1>1, <1>2

-----------------------------------------------------------------------------
(* The lint.                                                                *)

LEMMA CanonType ==
  ASSUME NEW name \in Seq(Label)
  PROVE  Canon(name) \in Seq(Label)
<1> DEFINE folded == [i \in DOMAIN name |-> Fold[name[i]]]
<1>1. /\ Len(name) \in Nat /\ DOMAIN name = 1 .. Len(name)
      /\ \A i \in 1 .. Len(name) : name[i] \in Label
  BY LenProperties, ElementOfSeq
<1>2. \A i \in 1 .. Len(name) : Fold[name[i]] \in Label
  BY <1>1, NamesAssumption
<1>3. folded \in Seq(Label)
  BY <1>1, <1>2, IsASeq
<1> HIDE DEF folded
<1>4. Len(folded) \in Nat
  BY <1>3, LenProperties
<1>5. SubSeq(folded, 1, Len(folded) - 1) \in Seq(Label)
  BY <1>3, <1>4
<1> QED
  BY <1>3, <1>5 DEF Canon, Front, folded

\* Record k of a zone is record column[k] of domain row[k], by its canonical
\* name.
Collected(doc, apex, row, column) ==
  /\ \A k \in DOMAIN Records(doc, apex) :
       /\ row[k] \in DOMAIN doc /\ Canon(doc[row[k]].domain) = apex
       /\ column[k] \in DOMAIN doc[row[k]].records
       /\ Records(doc, apex)[k] =
            [doc[row[k]].records[column[k]] EXCEPT !.owner = Canon(@)]
  /\ \A k, l \in DOMAIN Records(doc, apex) :
       row[k] = row[l] /\ column[k] = column[l] => k = l

LEMMA RecordsOrigins ==
  ASSUME NEW doc \in Seq(Domain), NEW apex
  PROVE  /\ Records(doc, apex) \in Seq(Entry)
         /\ \E row, column : Collected(doc, apex, row, column)
<1> DEFINE Named(i) == [j \in DOMAIN doc[i].records |->
                          [doc[i].records[j] EXCEPT !.owner = Canon(@)]]
           seqs == [i \in DOMAIN doc |-> IF Canon(doc[i].domain) = apex THEN Named(i) ELSE <<>>]
<1>1. /\ Len(doc) \in Nat /\ DOMAIN doc = 1 .. Len(doc)
      /\ \A i \in DOMAIN doc : doc[i] \in Domain
  BY LenProperties, ElementOfSeq
<1>2. ASSUME NEW i \in DOMAIN doc
      PROVE  /\ Named(i) \in Seq(Entry)
             /\ DOMAIN doc[i].records = 1 .. Len(Named(i))
  <2>1. doc[i].records \in Seq(Entry)
    BY <1>1 DEF Domain
  <2> DEFINE rs == doc[i].records
  <2>2. Len(rs) \in Nat /\ DOMAIN rs = 1 .. Len(rs) /\ \A j \in DOMAIN rs : rs[j] \in Entry
    BY <2>1, LenProperties, ElementOfSeq
  <2>3. \A j \in DOMAIN rs : [rs[j] EXCEPT !.owner = Canon(@)] \in Entry
    <3> SUFFICES ASSUME NEW j \in DOMAIN rs PROVE [rs[j] EXCEPT !.owner = Canon(@)] \in Entry
      OBVIOUS
    <3>1. rs[j] \in Entry
      BY <2>2
    <3>2. Canon(rs[j].owner) \in Seq(Label)
      BY <3>1, CanonType DEF Entry
    <3> QED
      BY <3>1, <3>2 DEF Entry
  <2>4. Named(i) \in [1 .. Len(rs) -> Entry]
    BY <2>2, <2>3
  <2> QED
    BY <2>2, <2>4, IsASeq, LenProperties
<1>3. seqs \in [1 .. Len(doc) -> Seq(Entry)]
  BY <1>1, <1>2
<1>4. seqs \in Seq(Seq(Entry)) /\ Len(seqs) = Len(doc)
  BY <1>1, <1>3, IsASeq, LenProperties
<1>5. Records(doc, apex) = FlattenSeq(seqs)
  BY DEF Records
<1>6. /\ FlattenSeq(seqs) \in Seq(Entry)
      /\ \E row, column : Origins(FlattenSeq(seqs), seqs, Len(doc), row, column)
  <2> HIDE DEF seqs
  <2> QED
    BY <1>4, FlattenOrigins
<1>7. PICK row, column : Origins(FlattenSeq(seqs), seqs, Len(doc), row, column)
  BY <1>6
<1>8. DOMAIN Records(doc, apex) = 1 .. Len(Records(doc, apex))
  BY <1>5, <1>6, LenProperties
<1>9. ASSUME NEW k \in DOMAIN Records(doc, apex)
      PROVE  /\ row[k] \in DOMAIN doc /\ Canon(doc[row[k]].domain) = apex
             /\ column[k] \in DOMAIN doc[row[k]].records
             /\ Records(doc, apex)[k] =
                  [doc[row[k]].records[column[k]] EXCEPT !.owner = Canon(@)]
  <2>1. /\ row[k] \in DOMAIN doc
        /\ column[k] \in 1 .. Len(seqs[row[k]])
        /\ Records(doc, apex)[k] = seqs[row[k]][column[k]]
    <3> HIDE DEF seqs
    <3> QED
      BY <1>1, <1>5, <1>7, <1>8 DEF Origins
  <2>2. Canon(doc[row[k]].domain) = apex
    <3>1. CASE seqs[row[k]] = <<>>
      BY <2>1, <3>1
    <3> QED
      BY <2>1, <3>1
  <2>3. seqs[row[k]] = Named(row[k])
    BY <2>1, <2>2
  <2>4. column[k] \in DOMAIN doc[row[k]].records
    BY <1>2, <2>1, <2>3
  <2> QED
    BY <2>1, <2>2, <2>3, <2>4
<1>10. \A k, l \in DOMAIN Records(doc, apex) :
         row[k] = row[l] /\ column[k] = column[l] => k = l
  BY <1>5, <1>7, <1>8 DEF Origins
<1>11. Collected(doc, apex, row, column)
  BY <1>9, <1>10 DEF Collected
<1> QED
  BY <1>5, <1>6, <1>11

\* Of a file that the lint finds nothing in.
LEMMA CleanZone ==
  ASSUME NEW doc, Lint(doc) = {}, NEW apex \in Apexes(doc)
  PROVE  LET records == Records(doc, apex) IN
         /\ \E i \in DOMAIN records : records[i].rtype = "soa" /\ records[i].owner = apex
         /\ \A i \in DOMAIN records : Inside(records[i].owner, apex)
         /\ CnameClashes(records) = {}
<1> DEFINE records == Records(doc, apex)
<1>1. LintSoa(apex, records) = {} /\ LintOwner(apex, records) = {}
  <2> DEFINE F(a) == LintSoa(a, Records(doc, a)) \cup LintOwner(a, Records(doc, a))
  <2>1. UNION {F(a) : a \in Apexes(doc)} = {}
    BY DEF Lint
  <2> HIDE DEF F
  <2>2. F(apex) = {}
    BY <2>1
  <2> QED
    BY <2>2 DEF F
<1>2. \E i \in DOMAIN records : records[i].rtype = "soa" /\ records[i].owner = apex
  <2> HIDE DEF records
  <2>1. {i \in DOMAIN records : records[i].rtype = "soa" /\ records[i].owner = apex} # {}
    BY <1>1 DEF LintSoa
  <2> QED
    BY <2>1
<1>3. ASSUME NEW i \in DOMAIN records PROVE Inside(records[i].owner, apex)
  <2> HIDE DEF records
  <2>1. {<<r.owner, "outside">> : r \in {s \in ToSet(records) : ~Inside(s.owner, apex)}} = {}
    BY <1>1 DEF LintOwner
  <2>2. records[i] \in ToSet(records)
    BY DEF ToSet
  <2> QED
    BY <2>1, <2>2
<1>4. CnameClashes(records) = {}
  <2> HIDE DEF records
  <2>1. {<<owner, "CNAME">> : owner \in CnameClashes(records)} = {}
    BY <1>1 DEF LintOwner
  <2> QED
    BY <2>1
<1> QED
  BY <1>2, <1>3, <1>4

LEMMA ApexesType == \A doc \in Seq(Domain) : Apexes(doc) \subseteq Seq(Label)
<1> SUFFICES ASSUME NEW doc \in Seq(Domain), NEW i \in DOMAIN doc
             PROVE  Canon(doc[i].domain) \in Seq(Label)
  BY DEF Apexes
<1>1. doc[i] \in Domain
  BY LenProperties, ElementOfSeq
<1> QED
  BY <1>1, CanonType DEF Domain

\* What a clean lint promises, of every file.
LEMMA CleanIsAnswered == zones \in Seq(Domain) => CleanFileIsAnswered
<1> SUFFICES ASSUME zones \in Seq(Domain), Lint(zones) = {}, NEW apex \in Apexes(zones),
                    NEW i \in DOMAIN Records(zones, apex)
             PROVE  LET r == Records(zones, apex)[i]
                        home == Closest(r.owner, Apexes(zones))
                    IN  \/ home # None /\ home # apex /\ Inside(home, apex)
                        \/ /\ home = apex
                           /\ \E s \in ToSet(Records(zones, apex)) :
                                s.rtype = "soa" /\ s.owner = apex
                           /\ r.rtype = "cname" =>
                                \A s \in ToSet(Records(zones, apex)) : s.owner = r.owner => s = r
  BY DEF CleanFileIsAnswered, ToSet
<1> DEFINE records == Records(zones, apex)
           r == records[i]
           home == Closest(r.owner, Apexes(zones))
<1>1. records \in Seq(Entry)
  BY RecordsOrigins
<1>2. /\ \E j \in DOMAIN records : records[j].rtype = "soa" /\ records[j].owner = apex
      /\ \A j \in DOMAIN records : Inside(records[j].owner, apex)
      /\ CnameClashes(records) = {}
  BY CleanZone
<1> HIDE DEF records
<1>3. i \in DOMAIN records
  BY DEF records
<1>4. r.owner \in Seq(Label) /\ Inside(r.owner, apex)
  <2>1. r \in Entry
    BY <1>1, <1>3, LenProperties, ElementOfSeq
  <2> QED
    BY <1>2, <1>3, <2>1 DEF Entry
<1>5. apex \in Seq(Label)
  BY ApexesType
<1>6. home \in Seq(Label) /\ Inside(r.owner, home) /\ Len(apex) <= Len(home)
  <2>1. Apexes(zones) \subseteq Seq(Label)
    BY ApexesType
  <2> QED
    BY <1>4, <2>1, ClosestIsLongest
<1> HIDE DEF home
<1>7. Inside(home, apex)
  BY <1>4, <1>5, <1>6, Nested
<1>8. home # None
  BY <1>6, NamesAssumption
<1>9. \E s \in ToSet(records) : s.rtype = "soa" /\ s.owner = apex
  BY <1>2 DEF ToSet
<1>10. ASSUME r.rtype = "cname", NEW j \in DOMAIN records, records[j].owner = r.owner
       PROVE  records[j] = r
  <2>1. ASSUME j # i PROVE FALSE
    <3>1. i \in Shared(records)
      BY <1>3, <1>10, <2>1 DEF Shared
    <3>2. r.owner \in CnameClashes(records)
      BY <1>10, <3>1 DEF CnameClashes
    <3> QED
      BY <1>2, <3>2
  <2> QED
    BY <2>1
<1>11. r.rtype = "cname" => \A s \in ToSet(records) : s.owner = r.owner => s = r
  BY <1>10 DEF ToSet
<1> QED
  BY <1>7, <1>8, <1>9, <1>11 DEF home, records

-----------------------------------------------------------------------------
(* The conversion.                                                          *)

\* Element k of s is element at[k] of t, the positions being those of I.
Selects(s, t, I, at) ==
  /\ \A k \in DOMAIN s : at[k] \in I /\ s[k] = t[at[k]]
  /\ \A k, l \in DOMAIN s : at[k] = at[l] => k = l
  /\ \A i \in I : \E k \in DOMAIN s : at[k] = i

LEMMA FlattenSelects ==
  ASSUME NEW S, NEW t \in Seq(S), NEW I, I \subseteq DOMAIN t,
         NEW s, s = FlattenSeq([i \in DOMAIN t |-> IF i \in I THEN <<t[i]>> ELSE <<>>])
  PROVE  s \in Seq(S) /\ \E at : Selects(s, t, I, at)
<1> DEFINE seqs == [i \in DOMAIN t |-> IF i \in I THEN <<t[i]>> ELSE <<>>]
<1>1. /\ Len(t) \in Nat /\ DOMAIN t = 1 .. Len(t)
      /\ \A i \in DOMAIN t : t[i] \in S
  BY LenProperties, ElementOfSeq
<1>2. seqs \in [1 .. Len(t) -> Seq(S)]
  BY <1>1
<1>3. seqs \in Seq(Seq(S)) /\ Len(seqs) = Len(t)
  BY <1>1, <1>2, IsASeq, LenProperties
<1>4. \A i \in DOMAIN t : seqs[i] = IF i \in I THEN <<t[i]>> ELSE <<>>
  OBVIOUS
<1>5. s = FlattenSeq(seqs)
  OBVIOUS
<1> HIDE DEF seqs
<1>6. s \in Seq(S) /\ \E row, column : Origins(s, seqs, Len(t), row, column)
  BY <1>3, <1>5, FlattenOrigins
<1>7. PICK row, column : Origins(s, seqs, Len(t), row, column)
  BY <1>6
<1>8. DOMAIN s = 1 .. Len(s)
  BY <1>6, LenProperties
<1>9. ASSUME NEW k \in DOMAIN s
      PROVE  row[k] \in I /\ column[k] = 1 /\ s[k] = t[row[k]]
  <2>1. /\ row[k] \in DOMAIN t
        /\ column[k] \in 1 .. Len(seqs[row[k]])
        /\ s[k] = seqs[row[k]][column[k]]
    BY <1>1, <1>7, <1>8 DEF Origins
  <2>2. row[k] \in I
    <3>1. ASSUME row[k] \notin I PROVE FALSE
      <4>1. seqs[row[k]] = <<>>
        BY <1>4, <2>1, <3>1
      <4> QED
        BY <2>1, <4>1
    <3> QED
      BY <3>1
  <2>3. seqs[row[k]] = <<t[row[k]]>>
    BY <1>4, <2>1, <2>2
  <2> QED
    BY <2>1, <2>2, <2>3
<1>10. \A k, l \in DOMAIN s : row[k] = row[l] => k = l
  BY <1>7, <1>8, <1>9 DEF Origins
<1>11. ASSUME NEW i \in I PROVE \E k \in DOMAIN s : row[k] = i
  <2>1. seqs[i] = <<t[i]>> /\ i \in 1 .. Len(t)
    BY <1>1, <1>4
  <2>2. 1 \in 1 .. Len(seqs[i])
    BY <2>1
  <2> QED
    BY <1>7, <1>8, <2>1, <2>2 DEF Origins
<1>12. Selects(s, t, I, row)
  BY <1>9, <1>10, <1>11 DEF Selects
<1> QED
  BY <1>6, <1>12

LEMMA BucketSelects ==
  ASSUME NEW records \in Seq(Entry), NEW apex
  PROVE  /\ Bucket(records, apex) \in Seq(Entry)
         /\ \E at : Selects(Bucket(records, apex), records,
                            {i \in DOMAIN records : ZoneOf(records[i], records) = apex}, at)
<1> DEFINE I == {i \in DOMAIN records : ZoneOf(records[i], records) = apex}
<1>1. Bucket(records, apex) =
        FlattenSeq([i \in DOMAIN records |-> IF i \in I THEN <<records[i]>> ELSE <<>>])
  <2>1. [i \in DOMAIN records |-> IF ZoneOf(records[i], records) = apex
                                  THEN <<records[i]>> ELSE <<>>]
          = [i \in DOMAIN records |-> IF i \in I THEN <<records[i]>> ELSE <<>>]
    OBVIOUS
  <2> QED
    BY <2>1 DEF Bucket
<1>2. I \subseteq DOMAIN records
  OBVIOUS
<1> HIDE DEF I
<1>3. /\ Bucket(records, apex) \in Seq(Entry)
      /\ \E at : Selects(Bucket(records, apex), records, I, at)
  BY <1>1, <1>2, FlattenSelects
<1> QED
  BY <1>3 DEF I

LEMMA KeptSelects ==
  ASSUME NEW zone \in Seq(Entry)
  PROVE  /\ Kept(zone) \in Seq(Entry)
         /\ \E at : Selects(Kept(zone), zone, {i \in DOMAIN zone : Survives(i, zone)}, at)
<1> DEFINE I == {i \in DOMAIN zone : Survives(i, zone)}
<1>1. Kept(zone) = FlattenSeq([i \in DOMAIN zone |-> IF i \in I THEN <<zone[i]>> ELSE <<>>])
  <2>1. [i \in DOMAIN zone |-> IF Survives(i, zone) THEN <<zone[i]>> ELSE <<>>]
          = [i \in DOMAIN zone |-> IF i \in I THEN <<zone[i]>> ELSE <<>>]
    OBVIOUS
  <2> QED
    BY <2>1 DEF Kept
<1>2. I \subseteq DOMAIN zone
  OBVIOUS
<1> HIDE DEF I
<1>3. Kept(zone) \in Seq(Entry) /\ \E at : Selects(Kept(zone), zone, I, at)
  BY <1>1, <1>2, FlattenSelects
<1> QED
  BY <1>3 DEF I

\* SetToSeq lists each element of a finite set once.
LEMMA ListsOnce ==
  ASSUME NEW S, IsFiniteSet(S)
  PROVE  /\ Cardinality(S) \in Nat
         /\ SetToSeq(S) \in [1 .. Cardinality(S) -> S]
         /\ \A i, j \in 1 .. Cardinality(S) : SetToSeq(S)[i] = SetToSeq(S)[j] => i = j
         /\ \A x \in S : \E i \in 1 .. Cardinality(S) : SetToSeq(S)[i] = x
<1> DEFINE n == Cardinality(S)
           f == SetToSeq(S)
<1>1. n \in Nat /\ ExistsBijection(1 .. n, S)
  BY FS_CardinalityType
<1>2. \E g \in [1 .. n -> S] : IsInjective(g)
  BY <1>1 DEF ExistsBijection, Bijection, Injection, IsInjective
<1>3. f \in [1 .. n -> S] /\ IsInjective(f)
  BY <1>2 DEF SetToSeq
<1> HIDE DEF f
<1>4. \A i, j \in 1 .. n : f[i] = f[j] => i = j
  BY <1>3 DEF IsInjective
<1>5. f \in Injection(1 .. n, S)
  BY <1>3, <1>4 DEF Injection
<1>6. Cardinality(1 .. n) = n
  BY <1>1, FS_Interval
<1>7. f \in Surjection(1 .. n, S)
  BY <1>5, <1>6, FS_Injection
<1>8. \A x \in S : \E i \in 1 .. n : f[i] = x
  BY <1>7 DEF Surjection
<1> QED
  BY <1>1, <1>3, <1>4, <1>8 DEF f

LEMMA ApexesOfType ==
  ASSUME NEW records \in Seq(Entry)
  PROVE  /\ ApexesOf(records) \subseteq Seq(Label) /\ IsFiniteSet(ApexesOf(records))
         /\ \A a \in ApexesOf(records) : \E i \in DOMAIN records : records[i].owner = a
<1>1. /\ Len(records) \in Nat /\ DOMAIN records = 1 .. Len(records)
      /\ \A i \in DOMAIN records : records[i] \in Entry
  BY LenProperties, ElementOfSeq
<1>2. \A a \in ApexesOf(records) : \E i \in DOMAIN records : records[i].owner = a
  BY DEF ApexesOf, ToSet
<1> DEFINE f == [i \in 1 .. Len(records) |-> records[i].owner]
           Owners == {records[i].owner : i \in 1 .. Len(records)}
<1>3. f \in Surjection(1 .. Len(records), Owners)
  BY DEF Surjection
<1>4. IsFiniteSet(1 .. Len(records))
  BY <1>1, FS_Interval
<1>5. ApexesOf(records) \in SUBSET Owners
  BY <1>1, <1>2
<1> HIDE DEF f, Owners
<1>6. IsFiniteSet(ApexesOf(records))
  BY <1>3, <1>4, <1>5, FS_Surjection, FS_Subset
<1> QED
  BY <1>1, <1>2, <1>6 DEF Entry

LEMMA DefaultTtlType ==
  ASSUME NEW records \in Seq(Entry), NEW apex
  PROVE  DefaultTtl(records, apex) \in Optional(Nat)
<1> DEFINE setters == {i \in DOMAIN records : /\ records[i].rtype = "soa"
                                              /\ records[i].owner = apex
                                              /\ records[i].ttl # None}
           last == CHOOSE i \in setters : \A j \in setters : j <= i
           T == {Len(records) - i : i \in setters}
<1>1. /\ Len(records) \in Nat /\ DOMAIN records = 1 .. Len(records)
      /\ \A i \in DOMAIN records : records[i] \in Entry
  BY LenProperties, ElementOfSeq
<1>2. setters \subseteq 1 .. Len(records)
  BY <1>1
<1>3. DefaultTtl(records, apex) = IF setters = {} THEN None ELSE records[last].ttl
  BY DEF DefaultTtl
<1> HIDE DEF setters
<1>4. CASE setters # {}
  <2>1. T \subseteq Nat /\ T # {}
    <3>1. \A i \in setters : Len(records) - i \in Nat
      BY <1>1, <1>2
    <3> QED
      BY <1>4, <3>1
  <2>2. PICK m \in T : \A k \in T : m <= k
    BY <2>1, LeastNatural
  <2>3. PICK i \in setters : m = Len(records) - i
    BY <2>2
  <2>4. ASSUME NEW j \in setters PROVE j <= i
    <3>1. m <= Len(records) - j
      BY <2>2
    <3>2. i \in Nat /\ j \in Nat
      BY <1>2
    <3> HIDE DEF T
    <3> QED
      BY <1>1, <2>3, <3>1, <3>2
  <2>5. last \in setters
    BY <2>4
  <2> HIDE DEF last
  <2>6. records[last] \in Entry
    BY <1>1, <1>2, <2>5
  <2> QED
    BY <1>3, <1>4, <2>6 DEF Entry
<1>5. CASE setters = {}
  BY <1>3, <1>5 DEF Optional
<1> QED
  BY <1>4, <1>5

LEMMA ParsedType ==
  ASSUME NEW lines \in Seq(Line)
  PROVE  ParsedFile(lines) \in Seq(Entry)
<1> DEFINE seqs == [i \in DOMAIN lines |-> IF Raises(lines[i]) THEN <<>> ELSE Parsed(lines[i])]
<1>1. /\ Len(lines) \in Nat /\ DOMAIN lines = 1 .. Len(lines)
      /\ \A i \in DOMAIN lines : lines[i] \in Line
  BY LenProperties, ElementOfSeq
<1>2. ASSUME NEW line \in Line, ~Raises(line) PROVE Parsed(line) \in Seq(Entry)
  <2>1. /\ line.name \in Seq(Label) /\ line.data \in Optional(Seq(Label))
        /\ line.ip \in Optional(Seq(Label))
        /\ line.ttl \in Optional(Nat) /\ line.serial \in Optional(Nat)
    BY LinesAssumption
  <2>2. \A owner \in Seq(Label), content \in Optional(Seq(Label)),
           rtype \in {"soa", "ns", "a", "ptr", "cname", "txt", "srv"} :
          Rec(line, owner, rtype, content) \in Entry
    BY <2>1 DEF Rec, Entry
  <2>3. line.type = "=" => line.ip \in Seq(Label)
    BY <2>1, LinesAssumption DEF Optional
  <2>4. line.type = "&" => line.data \in Seq(Label)
    BY <1>2, <2>1 DEF Raises, Optional
  <2>5. <<>> \in Optional(Seq(Label)) /\ line.name \in Optional(Seq(Label))
    BY <2>1 DEF Optional
  <2>6. \A e \in Entry : <<e>> \in Seq(Entry)
    OBVIOUS
  <2>7. CASE line.type = "Z"
    <3>1. Parsed(line) = <<Rec(line, line.name, "soa", <<>>)>>
      BY <2>7 DEF Parsed
    <3> QED
      BY <2>1, <2>2, <2>5, <2>6, <3>1
  <2>8. CASE line.type = "+"
    <3>1. Parsed(line) = <<Rec(line, line.name, "a", line.ip)>>
      BY <2>8 DEF Parsed
    <3> QED
      BY <2>1, <2>2, <2>6, <3>1
  <2>9. CASE line.type = "="
    <3> DEFINE pointer == [Rec(line, ReverseName(line.ip), "ptr", line.name)
                             EXCEPT !.implicit = TRUE]
    <3>1. Parsed(line) = <<Rec(line, line.name, "a", line.ip), pointer>>
      BY <2>9 DEF Parsed
    <3>2. ReverseName(line.ip) \in Seq(Label)
      BY <2>3, <2>9, NamesAssumption, ReverseType, ConcatProperties DEF ReverseName
    <3>3. Rec(line, ReverseName(line.ip), "ptr", line.name) \in Entry
      BY <2>2, <2>5, <3>2
    <3>4. pointer \in Entry
      BY <3>3 DEF Entry
    <3>5. Rec(line, line.name, "a", line.ip) \in Entry
      BY <2>1, <2>2
    <3> HIDE DEF pointer
    <3> QED
      BY <3>1, <3>4, <3>5
  <2>10. CASE line.type = "&"
    <3> DEFINE glue == IF line.ip = None THEN <<>> ELSE <<Rec(line, line.data, "a", line.ip)>>
    <3>1. Parsed(line) = <<Rec(line, line.name, "ns", line.data)>> \o glue
      BY <2>10 DEF Parsed
    <3>2. glue \in Seq(Entry)
      BY <2>1, <2>2, <2>4, <2>6, <2>10
    <3>3. <<Rec(line, line.name, "ns", line.data)>> \in Seq(Entry)
      BY <2>1, <2>2, <2>6
    <3> HIDE DEF glue
    <3> QED
      BY <3>1, <3>2, <3>3, ConcatProperties
  <2>11. CASE line.type = "'"
    <3>1. Parsed(line) = <<Rec(line, line.name, "txt", line.data)>>
      BY <2>11 DEF Parsed
    <3> QED
      BY <2>1, <2>2, <2>6, <3>1
  <2>12. CASE line.type = "C"
    <3>1. Parsed(line) = <<Rec(line, line.name, "cname", line.data)>>
      BY <2>12 DEF Parsed
    <3> QED
      BY <2>1, <2>2, <2>6, <3>1
  <2>13. CASE line.type = ":"
    <3>1. Parsed(line) = <<Rec(line, line.name, "srv", line.data)>>
      BY <2>13 DEF Parsed
    <3> QED
      BY <2>1, <2>2, <2>6, <3>1
  <2> QED
    BY <1>2, <2>7, <2>8, <2>9, <2>10, <2>11, <2>12, <2>13 DEF Raises
<1>3. seqs \in [1 .. Len(lines) -> Seq(Entry)]
  <2>1. <<>> \in Seq(Entry)
    OBVIOUS
  <2>2. \A i \in DOMAIN lines :
          (IF Raises(lines[i]) THEN <<>> ELSE Parsed(lines[i])) \in Seq(Entry)
    BY <1>1, <1>2, <2>1
  <2> QED
    BY <1>1, <2>2
<1>4. seqs \in Seq(Seq(Entry))
  BY <1>1, <1>3, IsASeq
<1>5. ParsedFile(lines) = FlattenSeq(seqs)
  BY DEF ParsedFile
<1> HIDE DEF seqs
<1> QED
  BY <1>4, <1>5, FlattenOrigins

LEMMA ConvertibleType ==
  ASSUME NEW records \in Seq(Entry)
  PROVE  /\ Convertible(records) \subseteq ApexesOf(records)
         /\ Convertible(records) \subseteq Seq(Label)
         /\ IsFiniteSet(Convertible(records))
<1>1. Convertible(records) \in SUBSET ApexesOf(records)
  BY DEF Convertible
<1> QED
  BY <1>1, ApexesOfType, FS_Subset

\* One domain for each zone that has a TTL, with what is kept of its records.
LEMMA ConvertedDomains ==
  ASSUME NEW records \in Seq(Entry)
  PROVE  /\ Converted(records) \in Seq(Domain)
         /\ \A i \in DOMAIN Converted(records) :
              /\ Converted(records)[i].domain \in Convertible(records)
              /\ Converted(records)[i].records =
                   Kept(Bucket(records, Converted(records)[i].domain))
         /\ \A i, j \in DOMAIN Converted(records) :
              Converted(records)[i].domain = Converted(records)[j].domain => i = j
         /\ \A a \in Convertible(records) :
              \E i \in DOMAIN Converted(records) : Converted(records)[i].domain = a
<1> DEFINE C == Convertible(records)
           n == Cardinality(C)
           f == SetToSeq(C)
           Made(a) == [domain |-> a, ttl |-> DefaultTtl(records, a),
                       records |-> Kept(Bucket(records, a))]
<1>1. C \subseteq Seq(Label) /\ IsFiniteSet(C)
  BY ConvertibleType
<1>2. Converted(records) = [i \in 1 .. n |-> Made(f[i])]
  BY DEF Converted
<1> HIDE DEF C
<1>3. /\ n \in Nat /\ f \in [1 .. n -> C]
      /\ \A i, j \in 1 .. n : f[i] = f[j] => i = j
      /\ \A x \in C : \E i \in 1 .. n : f[i] = x
  BY <1>1, ListsOnce
<1> HIDE DEF f, n
<1>4. \A a \in C : Made(a) \in Domain
  <2> SUFFICES ASSUME NEW a \in C PROVE Made(a) \in Domain
    OBVIOUS
  <2>1. DefaultTtl(records, a) \in Optional(Nat)
    BY DefaultTtlType
  <2>2. Kept(Bucket(records, a)) \in Seq(Entry)
    BY BucketSelects, KeptSelects
  <2> QED
    BY <1>1, <2>1, <2>2 DEF Domain
<1>5. Converted(records) \in [1 .. n -> Domain]
  BY <1>2, <1>3, <1>4
<1>6. Converted(records) \in Seq(Domain) /\ DOMAIN Converted(records) = 1 .. n
  BY <1>3, <1>5, IsASeq
<1>7. \A i \in 1 .. n : /\ Converted(records)[i].domain = f[i]
                        /\ Converted(records)[i].records = Kept(Bucket(records, f[i]))
  BY <1>2
<1> QED
  BY <1>3, <1>6, <1>7 DEF C

-----------------------------------------------------------------------------
(* The invariant: as long as nobody edits zones.yml by hand, it is what the *)
(* last conversion made of its source, and the report is that conversion's. *)

ZonesTypeOK ==
  /\ data \in Seq(Line)
  /\ zones \in Optional(Seq(Domain))
  /\ source \in Optional(Seq(Line))
  /\ handEdits \in 0 .. MaxEdits

SourceInv ==
  source # None =>
    /\ zones = Converted(ParsedFile(source)) /\ zones # <<>>
    /\ issues = ParseIssues(source) \cup BucketIssues(ParsedFile(source))

ZonesInv == ZonesTypeOK /\ SourceInv

LEMMA EditedZones ==
  ASSUME ZonesTypeOK, EditByHand
  PROVE  zones' \in Seq(Domain)
<1>1. /\ zones \in Seq(Domain) /\ Len(zones) \in Nat /\ DOMAIN zones = 1 .. Len(zones)
      /\ \A i \in DOMAIN zones : zones[i] \in Domain
  <2>1. zones \in Seq(Domain)
    BY DEF ZonesTypeOK, EditByHand, Optional
  <2> QED
    BY <2>1, LenProperties, ElementOfSeq
<1>2. ASSUME NEW i \in DOMAIN zones, NEW rs \in Seq(Entry),
             zones' = [zones EXCEPT ![i].records = rs]
      PROVE  zones' \in Seq(Domain)
  <2>1. [zones[i] EXCEPT !.records = rs] \in Domain
    BY <1>1 DEF Domain
  <2>2. zones' = [zones EXCEPT ![i] = [zones[i] EXCEPT !.records = rs]]
    BY <1>2
  <2> QED
    BY <1>1, <2>1, <2>2, ExceptSeq
<1>3. \A i \in DOMAIN zones : /\ zones[i].records \in Seq(Entry)
                              /\ DOMAIN zones[i].records = 1 .. Len(zones[i].records)
                              /\ Len(zones[i].records) \in Nat
  BY <1>1, LenProperties DEF Domain
<1>4. CASE \E i \in DOMAIN zones, r \in Record :
             zones' = [zones EXCEPT ![i].records = Append(@, r)]
  <2>1. PICK i \in DOMAIN zones, r \in Record :
          zones' = [zones EXCEPT ![i].records = Append(zones[i].records, r)]
    BY <1>4
  <2>2. Append(zones[i].records, r) \in Seq(Entry)
    BY <1>3, LinesAssumption, AppendProperties
  <2> QED
    BY <1>2, <2>1, <2>2
<1>5. CASE \E i \in DOMAIN zones : \E j \in DOMAIN zones[i].records :
             zones' = [zones EXCEPT ![i].records = RemoveAt(@, j)]
  <2>1. PICK i \in DOMAIN zones : \E j \in DOMAIN zones[i].records :
          zones' = [zones EXCEPT ![i].records = RemoveAt(zones[i].records, j)]
    BY <1>5
  <2> DEFINE rs == zones[i].records
  <2>2. PICK j \in DOMAIN rs : zones' = [zones EXCEPT ![i].records = RemoveAt(rs, j)]
    BY <2>1
  <2>3. rs \in Seq(Entry) /\ Len(rs) \in Nat /\ j \in 1 .. Len(rs)
    BY <1>3
  <2> HIDE DEF rs
  <2>4. SubSeq(rs, 1, j - 1) \in Seq(Entry) /\ SubSeq(rs, j + 1, Len(rs)) \in Seq(Entry)
    BY <2>3, SubSeqProperties
  <2>5. RemoveAt(rs, j) \in Seq(Entry)
    BY <2>4, ConcatProperties DEF RemoveAt
  <2> QED
    BY <1>2, <2>2, <2>5
<1>6. CASE \E r \in Record :
             zones' = Append(zones, [domain |-> r.owner, ttl |-> 1, records |-> <<r>>])
  <2>1. PICK r \in Record :
          zones' = Append(zones, [domain |-> r.owner, ttl |-> 1, records |-> <<r>>])
    BY <1>6
  <2>2. r \in Entry
    BY LinesAssumption
  <2>3. [domain |-> r.owner, ttl |-> 1, records |-> <<r>>] \in Domain
    BY <2>2 DEF Domain, Entry, Optional
  <2> QED
    BY <1>1, <2>1, <2>3, AppendProperties
<1> QED
  BY <1>4, <1>5, <1>6 DEF EditByHand

LEMMA ZonesInvariance == ZonesSpec => []ZonesInv
<1>1. ZonesInit => ZonesInv
  BY LinesAssumption DEF ZonesInit, ZonesInv, ZonesTypeOK, SourceInv, Optional
<1>2. ZonesInv /\ [ZonesNext]_zonesVars => ZonesInv'
  <2> SUFFICES ASSUME ZonesInv, [ZonesNext]_zonesVars PROVE ZonesInv'
    OBVIOUS
  <2> USE DEF ZonesInv
  <2>1. CASE WriteLine
    <3>1. PICK line \in Line : data' = Append(data, line)
      BY <2>1 DEF WriteLine
    <3>2. data' \in Seq(Line)
      BY <3>1, AppendProperties DEF ZonesTypeOK
    <3> QED
      BY <2>1, <3>2 DEF WriteLine, ZonesTypeOK, SourceInv
  <2>2. CASE Convert
    <3> DEFINE records == ParsedFile(data)
    <3>1. records \in Seq(Entry)
      BY ParsedType DEF ZonesTypeOK
    <3>2. /\ data' = data /\ handEdits' = handEdits
          /\ issues' = ParseIssues(data) \cup
               (IF ApexesOf(records) = {} THEN {} ELSE BucketIssues(records))
          /\ IF Converted(records) = <<>>
             THEN source' = None /\ zones' = zones
             ELSE source' = data /\ zones' = Converted(records)
      BY <2>2 DEF Convert
    <3>3. Converted(records) \in Seq(Domain)
      BY <3>1, ConvertedDomains
    <3>4. Converted(records) # <<>> => ApexesOf(records) # {}
      <4>1. SUFFICES ASSUME Converted(records) # <<>> PROVE ApexesOf(records) # {}
        OBVIOUS
      <4>2. PICK i \in DOMAIN Converted(records) : TRUE
        <5> DEFINE c == Converted(records)
        <5>1. Len(c) \in Nat /\ Len(c) # 0 /\ DOMAIN c = 1 .. Len(c)
          BY <3>3, <4>1, EmptySeq, LenProperties
        <5>2. 1 \in DOMAIN c
          BY <5>1
        <5> QED
          BY <5>2
      <4>3. Converted(records)[i].domain \in Convertible(records)
        BY <3>1, <4>2, ConvertedDomains
      <4> QED
        BY <3>1, <4>3, ConvertibleType
    <3>5. ZonesTypeOK'
      BY <3>2, <3>3 DEF ZonesTypeOK, Optional
    <3>6. SourceInv'
      BY <3>2, <3>4 DEF SourceInv
    <3> QED
      BY <3>5, <3>6
  <2>3. CASE EditByHand
    <3>1. data' = <<>> /\ source' = None /\ handEdits < MaxEdits /\ handEdits' = handEdits + 1
      BY <2>3 DEF EditByHand
    <3>2. zones' \in Seq(Domain)
      BY <2>3, EditedZones
    <3> QED
      BY <3>1, <3>2, LinesAssumption DEF ZonesTypeOK, SourceInv, Optional
  <2>4. CASE UNCHANGED zonesVars
    BY <2>4 DEF zonesVars, ZonesTypeOK, SourceInv
  <2> QED
    BY <2>1, <2>2, <2>3, <2>4 DEF ZonesNext
<1> QED
  BY <1>1, <1>2, PTL DEF ZonesSpec

(* zones.yml and dns/data are well-formed.                                  *)
THEOREM ZonesTypeCorrect == ZonesSpec => []ZonesTypeOK
<1>1. ZonesInv => ZonesTypeOK
  BY DEF ZonesInv
<1> QED
  BY <1>1, ZonesInvariance, PTL

(* In a file the lint finds nothing in, every record is where a server      *)
(* looks for it, for files of any length.                                   *)
THEOREM CleanFileTheorem == ZonesSpec => []CleanFileIsAnswered
<1>1. ZonesInv => CleanFileIsAnswered
  <2>1. ASSUME ZonesInv, zones # None PROVE zones \in Seq(Domain)
    BY <2>1 DEF ZonesInv, ZonesTypeOK, Optional
  <2>2. zones = None => CleanFileIsAnswered
    BY DEF CleanFileIsAnswered
  <2> QED
    BY <2>1, <2>2, CleanIsAnswered
<1> QED
  BY <1>1, ZonesInvariance, PTL

\* A record in the bucket of a zone that is written is kept or reported.
LEMMA KeptOrReported ==
  ASSUME NEW records \in Seq(Entry), NEW a \in Convertible(records),
         NEW i \in DOMAIN records, ZoneOf(records[i], records) = a
  PROVE  \/ records[i] \in ToSet(Kept(Bucket(records, a)))
         \/ <<"CNAME", records[i]>> \in BucketIssues(records)
<1> DEFINE zone == Bucket(records, a)
<1>1. zone \in Seq(Entry)
  BY BucketSelects
<1>2. PICK at : Selects(zone, records,
                        {k \in DOMAIN records : ZoneOf(records[k], records) = a}, at)
  BY BucketSelects
<1>3. PICK k \in DOMAIN zone : zone[k] = records[i]
  BY <1>2 DEF Selects
<1>4. CASE Survives(k, zone)
  <2>1. PICK on : Selects(Kept(zone), zone, {j \in DOMAIN zone : Survives(j, zone)}, on)
    BY <1>1, KeptSelects
  <2>2. \E m \in DOMAIN Kept(zone) : Kept(zone)[m] = zone[k]
    <3> HIDE DEF zone
    <3> QED
      BY <1>3, <1>4, <2>1 DEF Selects
  <2> QED
    BY <1>3, <2>2 DEF ToSet
<1>5. CASE ~Survives(k, zone)
  <2> DEFINE Dropped(b) == {<<"CNAME", Bucket(records, b)[j]>> :
                              j \in {l \in DOMAIN Bucket(records, b) :
                                       ~Survives(l, Bucket(records, b))}}
  <2>1. <<"CNAME", zone[k]>> \in Dropped(a)
    BY <1>3, <1>5
  <2>2. UNION {Dropped(b) : b \in Convertible(records)} \subseteq BucketIssues(records)
    BY DEF BucketIssues
  <2> HIDE DEF Dropped
  <2>3. <<"CNAME", zone[k]>> \in BucketIssues(records)
    BY <2>1, <2>2
  <2> QED
    BY <1>3, <2>3
<1> QED
  BY <1>4, <1>5

\* What is kept of a zone is in the data.
LEMMA KeptIsData ==
  ASSUME NEW records \in Seq(Entry), NEW a
  PROVE  ToSet(Kept(Bucket(records, a))) \subseteq ToSet(records)
<1> DEFINE zone == Bucket(records, a)
<1>1. zone \in Seq(Entry)
  BY BucketSelects
<1>2. PICK at : Selects(zone, records,
                        {k \in DOMAIN records : ZoneOf(records[k], records) = a}, at)
  BY BucketSelects
<1>3. PICK on : Selects(Kept(zone), zone, {j \in DOMAIN zone : Survives(j, zone)}, on)
  BY <1>1, KeptSelects
<1> HIDE DEF zone
<1>4. ASSUME NEW m \in DOMAIN Kept(zone) PROVE Kept(zone)[m] \in ToSet(records)
  <2>1. Kept(zone)[m] = zone[on[m]] /\ on[m] \in DOMAIN zone
    BY <1>3 DEF Selects
  <2>2. zone[on[m]] = records[at[on[m]]] /\ at[on[m]] \in DOMAIN records
    BY <1>2, <2>1 DEF Selects
  <2> QED
    BY <2>1, <2>2 DEF ToSet
<1> QED
  BY <1>4 DEF ToSet, zone

(* The conversion loses no line and no record in silence, and invents none, *)
(* for data of any length: a record whose closest zone is written is in it, *)
(* or was dropped for a CNAME by name; the others are reported themselves   *)
(* or with their zone.                                                      *)
THEOREM NothingIsLostTheorem == ZonesSpec => []NothingIsLost
<1>1. ZonesInv => NothingIsLost
  <2> SUFFICES ASSUME ZonesInv, source # None PROVE NothingIsLost
    BY DEF NothingIsLost
  <2> DEFINE records == ParsedFile(source)
  <2>1. source \in Seq(Line)
    BY DEF ZonesInv, ZonesTypeOK, Optional
  <2>2. records \in Seq(Entry)
    BY <2>1, ParsedType
  <2>3. zones = Converted(records) /\ issues = ParseIssues(source) \cup BucketIssues(records)
    BY DEF ZonesInv, SourceInv
  <2> HIDE DEF records
  <2>4. \A i \in DOMAIN source : Raises(source[i]) => <<"line", source[i]>> \in issues
    BY <2>3 DEF ParseIssues
  <2>5. ASSUME NEW i \in DOMAIN records
        PROVE  LET r == records[i] IN
               \/ AtHome(r)
               \/ <<"no zone", r>> \in issues \/ <<"CNAME", r>> \in issues
               \/ <<"zone", Closest(r.owner, ApexesOf(records))>> \in issues
    <3> DEFINE r == records[i]
               home == ZoneOf(r, records)
    <3>1. r \in Entry /\ r \in ToSet(records)
      BY <2>2, LenProperties, ElementOfSeq DEF ToSet
    <3>2. ApexesOf(records) \subseteq Seq(Label) /\ r.owner \in Seq(Label)
      BY <2>2, <3>1, ApexesOfType DEF Entry
    <3>3. CASE home = None
      BY <2>3, <3>1, <3>3 DEF BucketIssues
    <3>4. CASE home # None
      <4>1. PICK b \in ApexesOf(records) : Inside(r.owner, b)
        BY <3>4 DEF ZoneOf, Closest
      <4>2. home \in ApexesOf(records) /\ Inside(r.owner, home)
        BY <3>2, <4>1, ClosestIsLongest DEF ZoneOf
      <4>3. CASE home \notin Convertible(records)
        BY <2>3, <4>2, <4>3 DEF BucketIssues, ZoneOf
      <4>4. CASE home \in Convertible(records)
        <5>1. PICK k \in DOMAIN zones : zones[k].domain = home
          BY <2>2, <2>3, <4>4, ConvertedDomains
        <5>2. zones[k].records = Kept(Bucket(records, home))
          BY <2>2, <2>3, <5>1, ConvertedDomains
        <5> DEFINE domains == {zones[j].domain : j \in DOMAIN zones}
        <5>3. domains \subseteq ApexesOf(records) /\ home \in domains
          BY <2>2, <2>3, <5>1, ConvertedDomains, ConvertibleType
        <5>4. Closest(r.owner, domains) = home
          <6> HIDE DEF domains
          <6> QED
            BY <3>2, <4>1, <5>3, ClosestOfFewer DEF ZoneOf
        <5>5. CASE r \in ToSet(zones[k].records)
          BY <5>1, <5>4, <5>5 DEF AtHome
        <5>6. CASE <<"CNAME", r>> \in BucketIssues(records)
          BY <2>3, <5>6
        <5> QED
          BY <2>2, <4>4, <5>2, <5>5, <5>6, KeptOrReported
      <4> QED
        BY <4>3, <4>4
    <3> QED
      BY <3>3, <3>4
  <2>6. \A i \in DOMAIN zones : ToSet(zones[i].records) \subseteq ToSet(records)
    BY <2>2, <2>3, ConvertedDomains, KeptIsData
  <2>7. \A r \in ToSet(records) :
          \/ AtHome(r)
          \/ <<"no zone", r>> \in issues \/ <<"CNAME", r>> \in issues
          \/ <<"zone", Closest(r.owner, ApexesOf(records))>> \in issues
    BY <2>5 DEF ToSet
  <2> QED
    BY <2>4, <2>6, <2>7 DEF NothingIsLost, records
<1> QED
  BY <1>1, ZonesInvariance, PTL

\* What the converter writes is nowhere hidden: no record is outside the zone
\* it is written in, or belongs to a closer zone of the file.
WrittenIsAtHome ==
  source # None =>
    \A i \in DOMAIN zones : \A r \in ToSet(zones[i].records) :
      /\ Inside(r.owner, zones[i].domain)
      /\ zones[i].domain = Closest(r.owner, {zones[j].domain : j \in DOMAIN zones})

(* Every record that a conversion writes is in the zone a server answers    *)
(* its name from, also when other zones are left out for want of a TTL.     *)
THEOREM WrittenIsAtHomeTheorem == ZonesSpec => []WrittenIsAtHome
<1>1. ZonesInv => WrittenIsAtHome
  <2> SUFFICES ASSUME ZonesInv, source # None, NEW i \in DOMAIN zones,
                      NEW r \in ToSet(zones[i].records)
               PROVE  /\ Inside(r.owner, zones[i].domain)
                      /\ zones[i].domain = Closest(r.owner, {zones[j].domain : j \in DOMAIN zones})
    BY DEF WrittenIsAtHome
  <2> DEFINE records == ParsedFile(source)
             apex == zones[i].domain
             domains == {zones[j].domain : j \in DOMAIN zones}
  <2>1. records \in Seq(Entry) /\ zones = Converted(records)
    BY ParsedType DEF ZonesInv, ZonesTypeOK, SourceInv, Optional
  <2> HIDE DEF records
  <2>2. apex \in ApexesOf(records) /\ apex \in Seq(Label) /\ domains \subseteq ApexesOf(records)
    BY <2>1, ConvertedDomains, ConvertibleType
  <2>3. zones[i].records = Kept(Bucket(records, apex))
    BY <2>1, ConvertedDomains
  <2>4. PICK k \in DOMAIN records : r = records[k] /\ ZoneOf(records[k], records) = apex
    <3> DEFINE zone == Bucket(records, apex)
               I == {k \in DOMAIN records : ZoneOf(records[k], records) = apex}
    <3>1. zone \in Seq(Entry) /\ \E at : Selects(zone, records, I, at)
      BY <2>1, BucketSelects
    <3>2. PICK at : Selects(zone, records, I, at)
      BY <3>1
    <3> HIDE DEF zone, I
    <3>3. PICK on : Selects(Kept(zone), zone, {j \in DOMAIN zone : Survives(j, zone)}, on)
      BY <3>1, KeptSelects
    <3>4. PICK m \in DOMAIN Kept(zone) : r = Kept(zone)[m]
      BY <2>3 DEF ToSet, zone
    <3>5. on[m] \in DOMAIN zone /\ r = zone[on[m]]
      BY <3>3, <3>4 DEF Selects
    <3>6. at[on[m]] \in I /\ r = records[at[on[m]]]
      BY <3>2, <3>5 DEF Selects
    <3> QED
      BY <3>6 DEF I
  <2>5. r.owner \in Seq(Label) /\ ApexesOf(records) \subseteq Seq(Label)
    <3>1. r \in Entry
      BY <2>1, <2>4, ElementOfSeq, LenProperties
    <3> QED
      BY <2>1, <3>1, ApexesOfType DEF Entry
  <2>6. Closest(r.owner, ApexesOf(records)) = apex /\ apex # None
    BY <2>2, <2>4, NamesAssumption DEF ZoneOf
  <2>7. PICK b \in ApexesOf(records) : Inside(r.owner, b)
    BY <2>6 DEF Closest
  <2>8. Inside(r.owner, apex)
    BY <2>5, <2>6, <2>7, ClosestIsLongest
  <2>9. apex \in domains
    OBVIOUS
  <2> HIDE DEF apex, domains
  <2>10. Closest(r.owner, domains) = apex
    BY <2>2, <2>5, <2>6, <2>7, <2>9, ClosestOfFewer
  <2> QED
    BY <2>8, <2>10 DEF apex, domains
<1> QED
  BY <1>1, ZonesInvariance, PTL

(* The gate accepts what the converter writes, unless the data spells one   *)
(* name in two ways: of two records with one name neither is a CNAME, for   *)
(* the CNAME would have been dropped.                                       *)
THEOREM ConvertedPassesTheorem == ZonesSpec => []ConvertedPassesGate
<1>1. ZonesInv => ConvertedPassesGate
  <2> SUFFICES ASSUME ZonesInv, source # None, ~SpelledTwice(ParsedFile(source))
               PROVE  Accepted(zones)
    BY DEF ConvertedPassesGate
  <2> DEFINE records == ParsedFile(source)
  <2>1. source \in Seq(Line)
    BY DEF ZonesInv, ZonesTypeOK, Optional
  <2>2. records \in Seq(Entry)
    BY <2>1, ParsedType
  <2>3. zones = Converted(records) /\ zones # <<>>
    BY DEF ZonesInv, SourceInv
  <2>4. zones \in Seq(Domain)
    BY <2>2, <2>3, ConvertedDomains
  <2>5. WellFormed(zones)
    BY <2>3, <2>4, LinesAssumption DEF WellFormed
  <2>6. \A i, j \in DOMAIN records :
          Canon(records[i].owner) = Canon(records[j].owner) => records[i].owner = records[j].owner
    BY DEF SpelledTwice, ToSet
  <2> HIDE DEF records
  <2>7. ASSUME NEW apex \in Apexes(zones), CnameClashes(Records(zones, apex)) # {}
        PROVE  FALSE
    <3> DEFINE rs == Records(zones, apex)
    <3>1. PICK p \in Shared(rs) : rs[p].rtype = "cname"
      BY <2>7 DEF CnameClashes
    <3>2. PICK q \in DOMAIN rs \ {p} : rs[q].owner = rs[p].owner
      BY DEF Shared
    <3>3. p \in DOMAIN rs
      BY DEF Shared
    <3>4. PICK row, column : Collected(zones, apex, row, column)
      BY <2>4, RecordsOrigins
    <3> DEFINE k == row[p]
               zone == Bucket(records, zones[k].domain)
    <3>5. k \in DOMAIN zones /\ row[q] \in DOMAIN zones
      BY <3>2, <3>3, <3>4 DEF Collected
    <3>6. row[q] = k
      <4>1. Canon(zones[k].domain) = Canon(zones[row[q]].domain)
        BY <3>2, <3>3, <3>4 DEF Collected
      <4>2. zones[k].domain \in ApexesOf(records) /\ zones[row[q]].domain \in ApexesOf(records)
        BY <2>2, <2>3, <3>5, ConvertedDomains, ConvertibleType
      <4>3. zones[k].domain = zones[row[q]].domain
        BY <2>2, <2>6, <4>1, <4>2, ApexesOfType
      <4> QED
        BY <2>2, <2>3, <3>5, <4>3, ConvertedDomains
    <3>7. zones[k].records = Kept(zone)
      BY <2>2, <2>3, <3>5, ConvertedDomains
    <3>8. zone \in Seq(Entry)
      BY <2>2, BucketSelects
    <3>9. PICK on : Selects(Kept(zone), zone, {j \in DOMAIN zone : Survives(j, zone)}, on)
      BY <3>8, KeptSelects
    <3>10. PICK at : Selects(zone, records,
              {j \in DOMAIN records : ZoneOf(records[j], records) = zones[k].domain}, at)
      BY <2>2, BucketSelects
    <3> DEFINE x == on[column[p]]
               y == on[column[q]]
    <3>11. /\ column[p] \in DOMAIN Kept(zone) /\ column[q] \in DOMAIN Kept(zone)
           /\ column[p] # column[q]
           /\ rs[p] = [Kept(zone)[column[p]] EXCEPT !.owner = Canon(@)]
           /\ rs[q] = [Kept(zone)[column[q]] EXCEPT !.owner = Canon(@)]
      BY <3>2, <3>3, <3>4, <3>6, <3>7 DEF Collected
    <3> HIDE DEF rs, zone, k
    <3>12. /\ x \in DOMAIN zone /\ y \in DOMAIN zone /\ x # y
           /\ Survives(x, zone) /\ Survives(y, zone)
           /\ Kept(zone)[column[p]] = zone[x] /\ Kept(zone)[column[q]] = zone[y]
      BY <3>9, <3>11 DEF Selects
    <3> HIDE DEF x, y
    <3>13. zone[x] \in Entry /\ zone[y] \in Entry
      BY <3>8, <3>12, LenProperties, ElementOfSeq
    <3>14. /\ rs[p].owner = Canon(zone[x].owner) /\ rs[q].owner = Canon(zone[y].owner)
           /\ rs[p].rtype = zone[x].rtype
      BY <3>11, <3>12, <3>13 DEF Entry
    <3>15. zone[x].owner = zone[y].owner
      <4>1. /\ at[x] \in DOMAIN records /\ zone[x] = records[at[x]]
            /\ at[y] \in DOMAIN records /\ zone[y] = records[at[y]]
        BY <3>10, <3>12 DEF Selects, zone
      <4> QED
        BY <2>6, <3>2, <3>14, <4>1
    <3>16. zone[x].rtype = "cname"
      BY <3>1, <3>14
    <3>17. zone[y].rtype = "cname" /\ x < y
      BY <3>12, <3>15, <3>16 DEF Survives
    <3>18. y < x
      BY <3>12, <3>15, <3>17 DEF Survives
    <3>19. x \in Nat /\ y \in Nat
      BY <3>8, <3>12, LenProperties
    <3> QED
      BY <3>17, <3>18, <3>19
  <2> QED
    BY <2>5, <2>7 DEF Accepted, Blocks
<1> QED
  BY <1>1, ZonesInvariance, PTL

-----------------------------------------------------------------------------
(* The reload.  Until somebody edits the file, each command makes one thing *)
(* agree with it for good: the backend, the zone cache, the packet cache,   *)
(* the recursor's zones and its cache.  What clients ask afterwards leaves  *)
(* only answers that agree as well.                                         *)

(* How far the file has come: past the command of each stage.               *)
Past(stages) == ~edited /\ (pc \in stages \/ outcome = "ok")

Shape ==
  /\ file \in Doc /\ loaded \in Served
  /\ cached = [z \in Zone |-> cached[z]] /\ relayed = [z \in Zone |-> relayed[z]]
  /\ checked \subseteq Zone /\ todo \subseteq checked
  /\ unanswered \subseteq checked \ todo
  /\ pc # "probe" => unanswered = {}
  /\ outcome # "unknown" => pc = "idle" /\ ~edited
  /\ pc \notin {"wipe", "probe"} => todo = {}
  /\ pc \in {"wipe", "probe"} => forwarded = configured

\* The answers of the two servers when their caches agree with the backend.
Fresh(z) == IF Authoritative(z) THEN Content(loaded, z) ELSE Refused
Relay(z) == IF z \in forwarded THEN Fresh(z) ELSE Elsewhere

GateInv ==
  /\ unchecked \/ Accepted(loaded)
  /\ pc = "reload" /\ ~edited => Accepted(file)

FileInv ==
  /\ Past({"reload", "rediscover", "purge", "recursor", "wipe", "probe"}) =>
       checked = Apexes(file)
  /\ Past({"rediscover", "purge", "recursor", "wipe", "probe"}) => loaded = file
  /\ Past({"purge", "recursor", "wipe", "probe"}) => apexes = Apexes(loaded)

CacheInv ==
  ~warned =>
    /\ Past({"recursor", "wipe", "probe"}) => \A z \in Zone : cached[z] \in {None, Fresh(z)}
    /\ ~edited /\ pc = "wipe" => \A z \in checked \ todo : relayed[z] \in {None, Relay(z)}
    /\ Past({"probe"}) =>
         /\ \A z \in checked : relayed[z] \in {None, Relay(z)}
         /\ \A z \in checked \ (todo \cup unanswered) : z \in forwarded /\ Authoritative(z)

ProbeInv ==
  /\ pc = "probe" /\ ~edited /\ ~warned /\ ~silent =>
       \A z \in unanswered : z \notin forwarded \/ ~OnlySoa(Soas(Content(loaded, z), z))
  /\ FailureIsTheConfiguration

IInv == Shape /\ GateInv /\ FileInv /\ CacheInv /\ ProbeInv

-----------------------------------------------------------------------------
(* The operators.                                                           *)

LEMMA ApexesAreZones == \A d \in Served : Apexes(d) \subseteq Zone
BY DEF Zone

LEMMA AcceptedIsServed == \A d \in Doc : Accepted(d) => d \in Served
BY DEF Accepted, WellFormed, Served

\* A server whose cache agrees with its data answers with its data.
LEMMA AuthAnswersFresh ==
  ASSUME NEW z, cached[z] \in {None, Fresh(z)}
  PROVE  AuthAnswer(z) = Fresh(z)
BY DEF AuthAnswer, Fresh

LEMMA RelayedAnswersRelay ==
  ASSUME NEW z, cached[z] \in {None, Fresh(z)}, relayed[z] \in {None, Relay(z)}
  PROVE  RelayedAnswer(z) = Relay(z)
BY AuthAnswersFresh DEF RelayedAnswer, Relay

LEMMA FreshStays ==
  ASSUME UNCHANGED <<loaded, apexes>>
  PROVE  /\ \A z : Authoritative(z)' <=> Authoritative(z)
         /\ \A z : Fresh(z)' = Fresh(z)
BY DEF Fresh, Authoritative

LEMMA RelayStays ==
  ASSUME UNCHANGED <<loaded, apexes, forwarded>>
  PROVE  \A z : Relay(z)' = Relay(z)
BY FreshStays DEF Relay

\* No SOA is in what is no answer of the zone's.
LEMMA SoasOfNone == \A z : Soas(Refused, z) = <<>> /\ Soas(Elsewhere, z) = <<>>
BY DEF Soas

\* What a probe can leave in the caches.
Traces(z) == Asked(z) \/ AskedBoth(z) \/ UNCHANGED caches

\* Where the caches agree, what a client leaves in them agrees.
LEMMA AskedLeavesFresh ==
  ASSUME Shape, NEW z \in Zone, Traces(z), NEW y \in Zone,
         cached[y] \in {None, Fresh(y)}
  PROVE  /\ cached'[y] \in {None, Fresh(y)}
         /\ relayed[y] \in {None, Relay(y)} => relayed'[y] \in {None, Relay(y)}
<1>1. CASE y = z
  <2>1. AuthAnswer(z) = Fresh(z)
    BY <1>1, AuthAnswersFresh
  <2>2. relayed[z] \in {None, Relay(z)} => RelayedAnswer(z) = Relay(z)
    BY <1>1, RelayedAnswersRelay
  <2>3. relayed'[z] \in {relayed[z], RelayedAnswer(z)}
    BY DEF Traces, Asked, AskedBoth, caches, Shape
  <2>4. cached'[z] \in {cached[z], AuthAnswer(z)}
    BY DEF Traces, Asked, AskedBoth, caches, Shape
  <2> QED
    BY <1>1, <2>1, <2>2, <2>3, <2>4
<1>2. CASE y # z
  BY <1>2 DEF Traces, Asked, AskedBoth, caches, Shape
<1> QED
  BY <1>1, <1>2

LEMMA AskedShape ==
  ASSUME Shape, NEW z \in Zone, Traces(z)
  PROVE  /\ cached' = [y \in Zone |-> cached'[y]]
         /\ relayed' = [y \in Zone |-> relayed'[y]]
BY DEF Traces, Asked, AskedBoth, caches, Shape

-----------------------------------------------------------------------------
(* The invariant.                                                           *)

LEMMA Initially == Init => IInv
<1> SUFFICES ASSUME Init PROVE IInv
  OBVIOUS
<1>1. file \in Served /\ file \in Doc /\ loaded = file /\ Accepted(file)
  BY DEF Init, Served
<1>2. checked = {} /\ todo = {} /\ unanswered = {} /\ pc = "idle" /\ outcome = "unknown"
  BY Zenon DEF Init
<1>3. cached = [z \in Zone |-> None] /\ relayed = [z \in Zone |-> None]
  BY Zenon DEF Init
<1>4. Shape
  BY <1>1, <1>2, <1>3 DEF Shape
<1> QED
  BY <1>1, <1>2, <1>4
  DEF IInv, GateInv, FileInv, CacheInv, Past, ProbeInv, FailureIsTheConfiguration

LEMMA ClientPreserves == ASSUME IInv, NEW z \in Zone, Client(z) PROVE IInv'
<1>1. UNCHANGED <<file, pc, todo, checked, loaded, apexes, unchecked, configured, forwarded,
                  outcome, edited, warned, unanswered, silent>>
  BY DEF Client, server, probes
<1>2. Shape'
  BY <1>1, AskedShape DEF Client, Traces, Shape, IInv
<1>3. GateInv' /\ FileInv'
  BY <1>1 DEF IInv, GateInv, FileInv, Past
<1>7. ProbeInv'
  BY <1>1 DEF IInv, ProbeInv, FailureIsTheConfiguration
<1>4. ASSUME NEW y \in Zone, cached[y] \in {None, Fresh(y)}
      PROVE  /\ cached'[y] \in {None, Fresh(y)}
             /\ relayed[y] \in {None, Relay(y)} => relayed'[y] \in {None, Relay(y)}
  <2>1. CASE Asked(z)
    BY <1>4, <2>1, AskedLeavesFresh DEF IInv, Traces
  <2>2. CASE cached' = [cached EXCEPT ![z] = AuthAnswer(z)] /\ UNCHANGED relayed
    <3>1. y = z => AuthAnswer(z) = Fresh(y)
      BY <1>4, AuthAnswersFresh
    <3> QED
      BY <1>4, <2>2, <3>1 DEF IInv, Shape
  <2>3. CASE cached' = [cached EXCEPT ![z] = None] /\ UNCHANGED relayed
    BY <1>4, <2>3 DEF IInv, Shape
  <2>4. CASE relayed' = [relayed EXCEPT ![z] = None] /\ UNCHANGED cached
    BY <1>4, <2>4 DEF IInv, Shape
  <2> QED
    BY <2>1, <2>2, <2>3, <2>4 DEF Client
<1>5. /\ \A y : Fresh(y)' = Fresh(y) /\ (Authoritative(y)' <=> Authoritative(y))
      /\ \A y : Relay(y)' = Relay(y)
  BY <1>1, FreshStays, RelayStays
<1>6. CacheInv'
  <2> SUFFICES ASSUME ~warned
               PROVE  /\ Past({"recursor", "wipe", "probe"}) =>
                            \A y \in Zone : cached'[y] \in {None, Fresh(y)}
                      /\ ~edited /\ pc = "wipe" =>
                            \A y \in checked \ todo : relayed'[y] \in {None, Relay(y)}
                      /\ Past({"probe"}) =>
                            /\ \A y \in checked : relayed'[y] \in {None, Relay(y)}
                            /\ \A y \in checked \ (todo \cup unanswered) :
                                 y \in forwarded /\ Authoritative(y)
    BY <1>1, <1>5 DEF CacheInv, Past
  <2>1. checked \subseteq Zone
    BY DEF IInv, Shape
  <2>2. Past({"probe"}) \/ (~edited /\ pc = "wipe") => Past({"recursor", "wipe", "probe"})
    BY DEF Past
  <2> QED
    BY <1>4, <2>1, <2>2 DEF CacheInv, IInv
<1> QED
  BY <1>2, <1>3, <1>7, <1>6 DEF IInv

\* What the daemons and the operators do.
LEMMA AroundPreserves ==
  ASSUME IInv, RefreshZones \/ Restart \/ Edit \/ AddForward \/ Activate \/ GiveUp
  PROVE  IInv'
<1> USE DEF IInv, server, caches, probes
<1>0. ProbeInv'
  <2>1. CASE RefreshZones \/ AddForward
    BY <2>1 DEF RefreshZones, AddForward, Shape, ProbeInv, FailureIsTheConfiguration
  <2>2. CASE Restart
    <3>1. pc = "probe" /\ ~edited => loaded' = loaded
      BY <2>2 DEF Restart, FileInv, Past
    <3> QED
      BY <2>2, <3>1 DEF Restart, ProbeInv, FailureIsTheConfiguration
  <2>3. CASE Edit \/ Activate \/ GiveUp
    BY <2>3 DEF Edit, Activate, GiveUp, Exit, ProbeInv, FailureIsTheConfiguration
  <2> QED
    BY <2>1, <2>2, <2>3
<1>1. CASE RefreshZones
  <2>1. Past({"recursor", "wipe", "probe"}) \/ (~edited /\ pc = "wipe") => apexes' = apexes
    BY <1>1 DEF RefreshZones, FileInv, Past
  <2>2. Shape' /\ GateInv' /\ FileInv'
    BY <1>1 DEF RefreshZones, Shape, GateInv, FileInv, Past
  <2>3. CASE apexes' = apexes
    BY <1>0, <1>1, <2>2, <2>3, FreshStays, RelayStays DEF RefreshZones, CacheInv, Past
  <2>4. CASE apexes' # apexes
    BY <1>0, <1>1, <2>1, <2>2, <2>4 DEF RefreshZones, CacheInv, Past
  <2> QED
    BY <2>3, <2>4
<1>2. CASE Restart
  <2>1. file \in Served
    BY <1>2 DEF Restart, Shape, Served
  <2>2. Shape'
    BY <1>2, <2>1 DEF Restart, Shape
  <2>3. GateInv' /\ FileInv'
    BY <1>2 DEF Restart, GateInv, FileInv, Past
  <2>4. Past({"wipe", "probe"})' => apexes' = apexes /\ loaded' = loaded
    BY <1>2 DEF Restart, FileInv, Past
  <2>5. \A z \in Zone : cached'[z] = None
    BY <1>2 DEF Restart
  <2>6. CASE apexes' = apexes /\ loaded' = loaded
    <3>1. \A z : Relay(z)' = Relay(z)
      BY <1>2, <2>6, RelayStays DEF Restart
    <3> QED
      BY <1>0, <1>2, <2>2, <2>3, <2>5, <2>6, <3>1, FreshStays DEF Restart, CacheInv, Past
  <2>7. CASE ~ Past({"wipe", "probe"})'
    BY <1>0, <1>2, <2>2, <2>3, <2>5, <2>7 DEF Restart, CacheInv, Past
  <2> QED
    BY <2>4, <2>6, <2>7
<1>3. CASE Edit
  <2>1. edited' /\ outcome' = "unknown"
    BY <1>3 DEF Edit
  <2>2. Shape' /\ GateInv'
    BY <1>3, <2>1 DEF Edit, Shape, GateInv
  <2> QED
    BY <1>0, <2>1, <2>2 DEF FileInv, CacheInv, Past
<1>4. CASE AddForward
  <2>1. pc = "idle" /\ UNCHANGED <<loaded, apexes, forwarded>>
    BY <1>4 DEF AddForward
  <2>2. Shape' /\ GateInv' /\ FileInv'
    BY <1>4 DEF AddForward, Shape, GateInv, FileInv, Past
  <2> QED
    BY <1>0, <1>4, <2>1, <2>2, FreshStays, RelayStays DEF AddForward, CacheInv, Past
<1>5. CASE Activate
  <2>1. Shape' /\ GateInv' /\ FileInv'
    BY <1>5 DEF Activate, Shape, GateInv, FileInv, Past
  <2>2. CacheInv'
    BY <1>5 DEF Activate, CacheInv, Past
  <2> QED
    BY <1>0, <2>1, <2>2
<1>6. CASE GiveUp
  <2>1. Shape' /\ GateInv' /\ FileInv'
    BY <1>6 DEF GiveUp, Exit, Shape, GateInv, FileInv, Past
  <2>2. CacheInv'
    BY <1>6 DEF GiveUp, Exit, CacheInv, Past
  <2> QED
    BY <1>0, <2>1, <2>2
<1> QED
  BY <1>0, <1>1, <1>2, <1>3, <1>4, <1>5, <1>6

\* What the run does to the backend, the zone cache and the packet cache.
LEMMA ServerCommandsPreserve ==
  ASSUME IInv, Check \/ Reload \/ Rediscover \/ Purge
  PROVE  IInv'
<1> USE DEF IInv, server, caches, probes
<1>0. ProbeInv'
  BY DEF Check, Reload, Rediscover, Purge, After, Exit, Shape, ProbeInv, FailureIsTheConfiguration
<1>1. CASE Check
  <2>1. CASE Passes(file)
    <3>1. Accepted(file) /\ file \in Served /\ Apexes(file) \subseteq Zone
      BY <2>1, AcceptedIsServed, ApexesAreZones DEF Passes, Shape
    <3>2. pc' = "reload" /\ checked' = Apexes(file) /\ todo' = {} /\ outcome' = "unknown"
      BY <1>1, <2>1 DEF Check, Shape
    <3>3. UNCHANGED <<file, loaded, apexes, unchecked, cached, relayed, configured, forwarded,
                      unanswered>>
      BY <1>1, <2>1 DEF Check
    <3>4. Shape'
      BY <1>1, <3>1, <3>2, <3>3 DEF Check, Shape
    <3>5. GateInv'
      BY <3>1, <3>3 DEF GateInv
    <3>6. FileInv' /\ CacheInv'
      BY <3>2, <3>3 DEF FileInv, CacheInv, Past
    <3> QED
      BY <1>0, <3>4, <3>5, <3>6
  <2>2. CASE ~ Passes(file)
    <3>1. /\ pc' = "idle" /\ todo' = {} /\ outcome' = "unknown" /\ unanswered' = {}
          /\ UNCHANGED <<file, loaded, unchecked, cached, relayed, checked>>
      BY <1>1, <2>2 DEF Check, Exit
    <3>2. Shape' /\ GateInv'
      BY <3>1 DEF Shape, GateInv
    <3>3. FileInv' /\ CacheInv'
      BY <3>1 DEF FileInv, CacheInv, Past
    <3> QED
      BY <1>0, <3>2, <3>3
  <2> QED
    BY <2>1, <2>2
<1>2. CASE Reload
  <2>1. file \in Served /\ pc' = "rediscover" /\ outcome' = "unknown"
    BY <1>2 DEF Reload, After, Shape, Served
  <2>2. Shape'
    BY <1>2, <2>1 DEF Reload, Shape
  <2>3. GateInv'
    BY <1>2, <2>1 DEF Reload, GateInv
  <2>4. FileInv' /\ CacheInv'
    BY <1>2, <2>1 DEF Reload, FileInv, CacheInv, Past
  <2> QED
    BY <1>0, <2>2, <2>3, <2>4
<1>3. CASE Rediscover
  <2>1. pc' = "purge" /\ outcome' = "unknown"
    BY <1>3 DEF Rediscover, After, Shape
  <2>2. Shape' /\ GateInv'
    BY <1>3, <2>1 DEF Rediscover, Shape, GateInv
  <2>3. FileInv' /\ CacheInv'
    BY <1>3, <2>1 DEF Rediscover, FileInv, CacheInv, Past
  <2> QED
    BY <1>0, <2>2, <2>3
<1>4. CASE Purge
  <2>1. pc' = "recursor" /\ outcome' = "unknown"
    BY <1>4 DEF Purge, After, Shape
  <2>2. Shape' /\ GateInv' /\ FileInv'
    BY <1>4, <2>1 DEF Purge, Shape, GateInv, FileInv, Past
  <2>3. CacheInv'
    BY <1>4, <2>1 DEF Purge, CacheInv, Past
  <2> QED
    BY <1>0, <2>2, <2>3
<1> QED
  BY <1>1, <1>2, <1>3, <1>4

\* What it does to the recursor.
LEMMA RecursorCommandsPreserve ==
  ASSUME IInv, ReloadZones \/ Wipe \/ FindDig
  PROVE  IInv'
<1> USE DEF IInv, server, caches, probes
<1>0. ProbeInv'
  BY DEF ReloadZones, Wipe, FindDig, Exit, Shape, ProbeInv, FailureIsTheConfiguration
<1>1. CASE ReloadZones
  <2>1. pc' = "wipe" /\ todo' = checked /\ outcome' = "unknown"
    BY <1>1 DEF ReloadZones, Shape
  <2>2. Shape' /\ GateInv' /\ FileInv'
    BY <1>1, <2>1 DEF ReloadZones, Shape, GateInv, FileInv, Past
  <2>3. \A z : Fresh(z)' = Fresh(z)
    BY <1>1, FreshStays DEF ReloadZones
  <2>4. CacheInv'
    BY <1>1, <2>1, <2>3 DEF ReloadZones, CacheInv, Past
  <2> QED
    BY <1>0, <2>2, <2>4
<1>2. CASE Wipe
  <2>1. (\A z : Fresh(z)' = Fresh(z)) /\ (\A z : Relay(z)' = Relay(z))
    BY <1>2, FreshStays, RelayStays DEF Wipe
  <2>2. outcome' = "unknown" /\ checked \subseteq Zone
    BY <1>2 DEF Wipe, Shape
  <2>3. PICK z \in todo :
          /\ todo' = todo \ {z}
          /\ \/ relayed' = [relayed EXCEPT ![z] = None] /\ UNCHANGED warned
             \/ UNCHANGED relayed /\ warned' = TRUE
    BY <1>2 DEF Wipe
  <2>4. Shape' /\ GateInv' /\ FileInv'
    BY <1>2, <2>2, <2>3 DEF Wipe, Shape, GateInv, FileInv, Past
  <2>5. CASE warned'
    BY <1>0, <2>4, <2>5 DEF CacheInv
  <2>6. CASE relayed' = [relayed EXCEPT ![z] = None] /\ UNCHANGED warned
    BY <1>0, <1>2, <2>1, <2>2, <2>3, <2>4, <2>6 DEF Wipe, CacheInv, Past, Shape
  <2> QED
    BY <2>3, <2>5, <2>6
<1>3. CASE FindDig
  <2>1. (\A z : Fresh(z)' = Fresh(z)) /\ (\A z : Relay(z)' = Relay(z))
    BY <1>3, FreshStays, RelayStays DEF FindDig
  <2>2. UNCHANGED <<file, loaded, apexes, unchecked, checked, cached, relayed, forwarded,
                    configured, edited, warned>>
    BY <1>3 DEF FindDig
  <2>3. pc = "wipe" /\ todo = {} /\ outcome = "unknown" /\ unanswered = {}
    BY <1>3 DEF FindDig, Shape
  <2>4. CASE pc' = "probe" /\ todo' = checked /\ UNCHANGED <<outcome, unanswered>>
    <3>1. Shape' /\ GateInv' /\ FileInv'
      BY <2>2, <2>3, <2>4 DEF Shape, GateInv, FileInv, Past
    <3>2. CacheInv'
      BY <2>1, <2>2, <2>3, <2>4 DEF CacheInv, Past
    <3> QED
      BY <1>0, <3>1, <3>2
  <2>5. CASE Exit("unverified")
    <3>1. /\ pc' = "idle" /\ todo' = {} /\ unanswered' = {}
          /\ outcome' \in {"unknown", "unverified"} /\ (edited => outcome' = "unknown")
      BY <2>5 DEF Exit
    <3>2. Shape' /\ GateInv' /\ FileInv' /\ CacheInv'
      BY <2>2, <3>1 DEF Shape, GateInv, FileInv, CacheInv, Past
    <3> QED
      BY <1>0, <3>2
  <2> QED
    BY <1>3, <2>4, <2>5 DEF FindDig
<1> QED
  BY <1>1, <1>2, <1>3

\* While the file stands and no cache was left full, a probe that is answered
\* finds the one SOA of a zone that is configured, and nothing else matches.
LEMMA ProbeFinds ==
  ASSUME IInv, NEW z \in todo, pc = "probe", ~edited, ~warned
  PROVE  /\ Matches(z) => z \in forwarded /\ Authoritative(z)
         /\ ~Matches(z) => z \notin forwarded \/ ~OnlySoa(Soas(Content(loaded, z), z))
<1>1. Past({"recursor", "wipe", "probe"}) /\ Past({"probe"})
  BY DEF Past
<1>2. z \in checked /\ z \in Zone
  BY DEF IInv, Shape
<1>3. AuthAnswer(z) = Fresh(z) /\ RelayedAnswer(z) = Relay(z)
  BY <1>1, <1>2, AuthAnswersFresh, RelayedAnswersRelay DEF IInv, CacheInv
<1>4. ASSUME Matches(z)
      PROVE  z \in forwarded /\ Authoritative(z)
  <2>1. Soas(Relay(z), z) # <<>>
    BY <1>3, <1>4 DEF Matches
  <2>2. Relay(z) # Refused /\ Relay(z) # Elsewhere
    BY <2>1, SoasOfNone
  <2> QED
    BY <2>2 DEF Relay, Fresh
<1>5. ASSUME z \in forwarded, OnlySoa(Soas(Content(loaded, z), z))
      PROVE  Matches(z)
  <2>1. z \in apexes
    BY <1>1, <1>2 DEF IInv, FileInv, Past
  <2>2. Authoritative(z)
    BY <1>5, <2>1 DEF Authoritative, OnlySoa
  <2>3. Fresh(z) = Content(loaded, z) /\ Relay(z) = Content(loaded, z)
    BY <1>5, <2>2 DEF Fresh, Relay
  <2> QED
    BY <1>3, <1>5, <2>3 DEF Matches, OnlySoa
<1> QED
  BY <1>4, <1>5

LEMMA ProbePreserves == ASSUME IInv, Probe PROVE IInv'
<1>1. PICK z \in todo :
        /\ todo' = todo \ {z}
        /\ \/ /\ IF Soas(RelayedAnswer(z), z) # <<>> THEN AskedBoth(z) ELSE Asked(z)
              /\ unanswered' = IF Matches(z) THEN unanswered ELSE unanswered \cup {z}
              /\ UNCHANGED silent
           \/ /\ Asked(z) \/ UNCHANGED caches
              /\ unanswered' = unanswered \cup {z} /\ silent' = TRUE
  BY DEF Probe
<1>2. Traces(z)
  BY <1>1 DEF Traces
<1>3. /\ UNCHANGED <<file, loaded, apexes, unchecked, checked, forwarded, configured, outcome,
                     edited, warned, pc>>
      /\ pc = "probe"
  BY DEF Probe, server
<1>4. outcome = "unknown" /\ checked \subseteq Zone /\ z \in Zone /\ z \in checked
  BY <1>3 DEF IInv, Shape
<1>5. /\ \A y : Fresh(y)' = Fresh(y) /\ (Authoritative(y)' <=> Authoritative(y))
      /\ \A y : Relay(y)' = Relay(y)
  BY <1>3, FreshStays, RelayStays
<1>6. /\ todo' = todo \ {z} /\ unanswered' \subseteq unanswered \cup {z}
      /\ unanswered \subseteq unanswered'
      /\ z \in unanswered' \/ Matches(z)
      /\ silent' \/ (unanswered' = unanswered \cup {z} => ~Matches(z) \/ z \in unanswered)
  BY <1>1
<1>7. Shape'
  <2>1. cached' = [y \in Zone |-> cached'[y]] /\ relayed' = [y \in Zone |-> relayed'[y]]
    BY <1>2, <1>4, AskedShape DEF IInv
  <2> QED
    BY <1>3, <1>4, <1>6, <2>1 DEF IInv, Shape
<1>8. GateInv' /\ FileInv'
  BY <1>3 DEF IInv, GateInv, FileInv, Past
<1>9. CacheInv'
  <2> SUFFICES ASSUME ~warned, ~edited
               PROVE  /\ \A y \in Zone : cached'[y] \in {None, Fresh(y)}
                      /\ \A y \in checked : relayed'[y] \in {None, Relay(y)}
                      /\ \A y \in checked \ (todo' \cup unanswered') :
                           y \in forwarded /\ Authoritative(y)
    BY <1>3, <1>4, <1>5 DEF CacheInv, Past
  <2>1. Past({"recursor", "wipe", "probe"}) /\ Past({"probe"})
    BY <1>3 DEF Past
  <2>2. \A y \in Zone : cached'[y] \in {None, Fresh(y)}
    BY <1>2, <1>4, <2>1, AskedLeavesFresh DEF IInv, CacheInv
  <2>3. \A y \in checked : relayed'[y] \in {None, Relay(y)}
    BY <1>2, <1>4, <2>1, AskedLeavesFresh DEF IInv, CacheInv
  <2>4. Matches(z) => z \in forwarded /\ Authoritative(z)
    BY <1>3, ProbeFinds
  <2>5. \A y \in checked \ (todo \cup unanswered) : y \in forwarded /\ Authoritative(y)
    BY <2>1 DEF IInv, CacheInv
  <2> QED
    BY <1>6, <2>2, <2>3, <2>4, <2>5
<1>10. ProbeInv'
  <2>1. ASSUME ~edited, ~warned, ~silent'
        PROVE  \A y \in unanswered' : y \notin forwarded \/ ~OnlySoa(Soas(Content(loaded, y), y))
    <3>1. unanswered' = IF Matches(z) THEN unanswered ELSE unanswered \cup {z}
      BY <1>1, <2>1
    <3>2. ~silent
      BY <1>1, <2>1
    <3>3. \A y \in unanswered : y \notin forwarded \/ ~OnlySoa(Soas(Content(loaded, y), y))
      BY <1>3, <2>1, <3>2 DEF IInv, ProbeInv
    <3>4. ~Matches(z) => z \notin forwarded \/ ~OnlySoa(Soas(Content(loaded, z), z))
      BY <1>3, <2>1, ProbeFinds
    <3> QED
      BY <3>1, <3>3, <3>4
  <2> QED
    BY <1>3, <1>4, <2>1 DEF ProbeInv, FailureIsTheConfiguration
<1> QED
  BY <1>7, <1>8, <1>9, <1>10 DEF IInv

LEMMA ConcludePreserves == ASSUME IInv, Conclude PROVE IInv'
<1>1. /\ UNCHANGED <<file, loaded, apexes, unchecked, checked, forwarded, configured, cached,
                     relayed, edited, warned, silent>>
      /\ pc = "probe" /\ todo = {} /\ pc' = "idle" /\ todo' = {} /\ unanswered' = {}
      /\ outcome' = IF edited THEN "unknown" ELSE IF unanswered = {} THEN "ok" ELSE "unverified"
  BY DEF Conclude, Exit, server, caches
<1>2. Shape'
  BY <1>1 DEF IInv, Shape
<1>3. GateInv' /\ FileInv'
  BY <1>1 DEF IInv, GateInv, FileInv, Past
<1>4. /\ \A y : Fresh(y)' = Fresh(y) /\ (Authoritative(y)' <=> Authoritative(y))
      /\ \A y : Relay(y)' = Relay(y)
  BY <1>1, FreshStays, RelayStays
<1>5. CacheInv'
  BY <1>1, <1>4 DEF IInv, CacheInv, Past
<1>6. FailureIsTheConfiguration'
  <2> SUFFICES ASSUME ~edited, unanswered # {}, ~warned, ~silent
               PROVE  \E z \in Apexes(file) :
                        z \notin forwarded \/ ~OnlySoa(Soas(Content(file, z), z))
    BY <1>1 DEF FailureIsTheConfiguration
  <2>1. PICK z \in unanswered : TRUE
    OBVIOUS
  <2>2. z \notin forwarded \/ ~OnlySoa(Soas(Content(loaded, z), z))
    BY <1>1 DEF IInv, ProbeInv
  <2>3. checked = Apexes(file) /\ loaded = file
    BY <1>1 DEF IInv, FileInv, Past
  <2>4. z \in checked
    BY DEF IInv, Shape
  <2> QED
    BY <2>2, <2>3, <2>4
<1> QED
  BY <1>1, <1>2, <1>3, <1>5, <1>6 DEF IInv, ProbeInv

\* However the commands, the clients and the edits interleave.
THEOREM Invariance == Spec => []IInv
<1>1. IInv /\ [Next]_vars => IInv'
  <2>1. ASSUME IInv, Next PROVE IInv'
    BY <2>1, ClientPreserves, AroundPreserves, ServerCommandsPreserve,
       RecursorCommandsPreserve, ProbePreserves, ConcludePreserves DEF Next, Run
  <2>2. ASSUME IInv, UNCHANGED vars PROVE IInv'
    <3>1. Shape' /\ GateInv' /\ FileInv' /\ ProbeInv'
      BY <2>2
      DEF vars, server, caches, probes, IInv, Shape, GateInv, FileInv, Past, ProbeInv,
          FailureIsTheConfiguration
    <3>2. UNCHANGED <<pc, todo, checked, loaded, apexes, forwarded, cached, relayed, unanswered,
                      outcome, edited, warned>>
      BY <2>2 DEF vars, server, caches, probes
    <3>3. /\ \A z : Fresh(z)' = Fresh(z) /\ (Authoritative(z)' <=> Authoritative(z))
          /\ \A z : Relay(z)' = Relay(z)
      BY <3>2, FreshStays, RelayStays
    <3>4. CacheInv'
      BY <2>2, <3>2, <3>3 DEF IInv, CacheInv, Past
    <3> QED
      BY <3>1, <3>4 DEF IInv
  <2> QED
    BY <2>1, <2>2
<1> QED
  BY <1>1, Initially, PTL DEF Spec

\* Whatever is served passed the check, unless it was written after it or
\* came in with a restart.
THEOREM Gate == Spec => []NothingBlockedIsServed
<1>1. IInv => NothingBlockedIsServed
  BY DEF IInv, GateInv, NothingBlockedIsServed
<1> QED
  BY <1>1, Invariance, PTL

\* After a run that ended well, clients get what the file says from either
\* server, and go on to, whatever they asked while it went on.
THEOREM Success == Spec => []OkMeansServed
<1>1. IInv => OkMeansServed
  <2> SUFFICES ASSUME IInv, outcome = "ok", ~warned
               PROVE  /\ loaded = file
                      /\ \A z \in Apexes(file) :
                           /\ AuthAnswer(z) = Content(file, z)
                           /\ RelayedAnswer(z) = Content(file, z)
    BY DEF OkMeansServed
  <2>1. checked = Apexes(file) /\ loaded = file /\ apexes = Apexes(loaded)
    BY DEF IInv, Shape, FileInv, Past
  <2>2. ASSUME NEW z \in Apexes(file)
        PROVE  AuthAnswer(z) = Content(file, z) /\ RelayedAnswer(z) = Content(file, z)
    <3>1. z \in checked /\ z \in Zone /\ z \in forwarded /\ Authoritative(z)
      BY <2>1, <2>2 DEF IInv, Shape, CacheInv, Past
    <3>2. AuthAnswer(z) = Fresh(z) /\ RelayedAnswer(z) = Relay(z)
      BY <3>1, AuthAnswersFresh, RelayedAnswersRelay DEF IInv, Shape, CacheInv, Past
    <3> QED
      BY <2>1, <2>2, <3>1, <3>2 DEF Fresh, Relay
  <2> QED
    BY <2>1, <2>2
<1> QED
  BY <1>1, Invariance, PTL

\* Exit status 3 of a run whose digs were answered and whose caches were
\* emptied is never for what a client left in a cache: some zone of the file
\* is not configured, or has not the one SOA a probe can compare.
THEOREM Failure == Spec => []FailureIsTheConfiguration
<1>1. IInv => FailureIsTheConfiguration
  BY DEF IInv, ProbeInv
<1> QED
  BY <1>1, Invariance, PTL

=============================================================================
