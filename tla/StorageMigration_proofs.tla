---------------------- MODULE StorageMigration_proofs ----------------------
(***************************************************************************)
(* Proofs about StorageMigration for any operators, limits, events and      *)
(* faults, where neither a rollback nor a repeated migration overlaps       *)
(* another operation and no command appends while a backup exists.          *)
(*                                                                         *)
(* The first part says what files joined into a chain are: a recursion     *)
(* shown to exist and to be unique by the least counterexample.  The second *)
(* is the invariant: what each operation has still to do, and what the     *)
(* files are until it has.                                                 *)
(***************************************************************************)
EXTENDS StorageMigration, FiniteSetTheorems, SequenceTheorems, TLAPS

(* What holds of 0, and of n + 1 when of n, holds up to any bound: stated   *)
(* of the set of numbers it holds of.                                       *)
LEMMA Least ==
    ASSUME NEW T \in SUBSET Nat, T # {}
    PROVE  \E x \in T : \A y \in T : x <= y
<1> DEFINE R == OpToRel(<, Nat)
<1>1. \E x \in T : \A y \in T : ~(<<y, x>> \in R)
  <2>1. T \subseteq Nat OBVIOUS
  <2>2. QED BY ONLY <2>1, T # {}, NatLessThanWellFounded, WFMin
<1>2. \A y, x \in Nat : y < x => <<y, x>> \in R BY DEF OpToRel
<1> HIDE DEF R
<1>3. PICK x \in T : \A y \in T : ~(<<y, x>> \in R) BY <1>1
<1>4. ASSUME NEW y \in T PROVE x <= y
  <2>1. x \in Nat /\ y \in Nat OBVIOUS
  <2>2. ~(<<y, x>> \in R) BY <1>3
  <2>3. ~(y < x) BY ONLY <2>1, <2>2, <1>2
  <2>4. QED BY ONLY <2>1, <2>3
<1>5. QED BY <1>4

LEMMA Induction ==
    ASSUME NEW n \in Nat, NEW H, 0 \in H, \A i \in 0 .. n - 1 : i \in H => i + 1 \in H
    PROVE  0 .. n \subseteq H
<1> DEFINE T == {i \in 0 .. n : i \notin H}
<1>1. SUFFICES ASSUME T # {} PROVE FALSE OBVIOUS
<1>2. T \in SUBSET Nat OBVIOUS
<1>3. PICK x \in T : \A y \in T : x <= y
  <2> HIDE DEF T
  <2>1. QED BY <1>1, <1>2, Least
<1>4. x \in 0 .. n /\ x \notin H OBVIOUS
<1>5. x # 0 BY <1>4
<1>6. x - 1 \in 0 .. n - 1 BY <1>4, <1>5
<1>7. x - 1 \in H
  <2>1. x - 1 \notin T BY <1>3, <1>4
  <2>2. QED BY <2>1, <1>6, <1>4
<1>8. QED BY <1>6, <1>7, <1>4

-----------------------------------------------------------------------------
Events == [seq : Nat, id : Nat, prior : Nat]
Chains == Seq(Events)
File == [version : 0..2, chain : Chains]
Directory == [Name -> File]

LEMMA ChainIs == ASSUME NEW c \in Chains PROVE Len(c) \in Nat /\ c \in Seq(Events)
BY DEF Chains

(* FlattenSeq is what its recursion says: the function it chooses exists.   *)
LEMMA FlattenIs ==
    ASSUME NEW q \in Seq(Chains), q # <<>>
    PROVE  \E f : /\ FlattenSeq(q) = f[Len(q)]
                  /\ f[1] = q[1]
                  /\ \A i \in 2..Len(q) : f[i] = f[i - 1] \o q[i]
<1> DEFINE n == Len(q)
           F(g, m) == g = [i \in 1..m |-> IF i = 1 THEN q[i] ELSE g[i - 1] \o q[i]]
           H == {m \in Nat : \E g : F(g, m)}
           f == CHOOSE g : F(g, n)
<1>1. 0 \in H
  <2>1. F([i \in 1..0 |-> q[i]], 0) OBVIOUS
  <2>2. QED BY <2>1
<1>n. n \in Nat \ {0} BY EmptySeq
<1>2. ASSUME NEW m \in 0 .. n - 1, m \in H PROVE m + 1 \in H
  <2>1. PICK g : F(g, m) BY <1>2
  <2> DEFINE h == [i \in 1 .. m + 1 |-> IF i <= m THEN g[i]
                                        ELSE IF i = 1 THEN q[i] ELSE g[m] \o q[i]]
  <2>2. m \in Nat /\ m + 1 \in Nat OBVIOUS
  <2>3. ASSUME NEW i \in 1 .. m + 1
        PROVE  h[i] = IF i = 1 THEN q[i] ELSE h[i - 1] \o q[i]
    <3>1. CASE i \in 1..m
      <4>1. h[i] = g[i] /\ (i # 1 => h[i - 1] = g[i - 1]) BY <3>1, <2>2
      <4>2. g[i] = IF i = 1 THEN q[i] ELSE g[i - 1] \o q[i] BY <3>1, <2>1, <2>2
      <4>3. QED BY <3>1, <4>1, <4>2
    <3>2. CASE i = m + 1
      <4>0. i \notin 1..m /\ i - 1 = m /\ (i # 1 => m \in 1..m /\ m \in 1 .. m + 1) BY <3>2, <2>2
      <4>1. i # 1 => h[i] = g[m] \o q[i] /\ h[i - 1] = g[m]
        <5>1. h[i] = IF i = 1 THEN q[i] ELSE g[m] \o q[i] BY <4>0, <2>2
        <5>2. i # 1 => h[m] = g[m] BY <4>0, <2>2
        <5>3. QED BY <5>1, <5>2, <4>0
      <4>2. i = 1 => h[i] = q[i] BY <3>2, <2>2
      <4>3. QED BY <4>1, <4>2
    <3>3. QED BY <3>1, <3>2, <2>2
  <2>4. F(h, m + 1)
    <3> DEFINE e == [i \in 1 .. m + 1 |-> IF i = 1 THEN q[i] ELSE h[i - 1] \o q[i]]
    <3>1. \A i \in 1 .. m + 1 : h[i] = e[i] BY <2>3
    <3>2. h = e BY ONLY <3>1
    <3>3. QED BY <3>2
  <2>5. QED BY <2>2, <2>4
<1>3. n \in H
  <2> HIDE DEF H
  <2>1. n \in Nat /\ n \in 0 .. n BY <1>n
  <2> HIDE DEF n
  <2>2. 0 .. n \subseteq H BY <1>1, <1>2, <2>1, Induction
  <2>3. QED BY <2>1, <2>2
<1>4. F(f, n)
  <2>1. \E g : F(g, n) BY <1>3
  <2> HIDE DEF F
  <2>2. QED BY <2>1
<1>5. FlattenSeq(q) = f[n]
  <2>1. n # 0 BY <1>n
  <2>2. QED BY <2>1 DEF FlattenSeq
<1> HIDE DEF f
<1>6. f[1] = q[1] BY <1>4, <1>n
<1>7. ASSUME NEW i \in 2..n PROVE f[i] = f[i - 1] \o q[i]
  <2>1. i \in 1..n /\ i # 1 BY <1>n
  <2>2. QED BY <1>4, <2>1
<1>8. QED BY <1>5, <1>6, <1>7

LEMMA FlattenNone == FlattenSeq(<<>>) = <<>>
BY EmptySeq DEF FlattenSeq

(* What a prefix of the chunks joins to.                                    *)
LEMMA FlattenType ==
    ASSUME NEW q \in Seq(Chains)
    PROVE  /\ FlattenSeq(q) \in Chains
           /\ (\A i \in 1..Len(q) : q[i] # <<>>) => Len(FlattenSeq(q)) >= Len(q)
<1>1. CASE q = <<>>
  <2>1. <<>> \in Chains /\ Len(<<>>) = 0 BY EmptySeq DEF Chains
  <2>2. QED BY <1>1, <2>1, FlattenNone
<1>2. CASE q # <<>>
  <2>1. PICK f : /\ FlattenSeq(q) = f[Len(q)]
                 /\ f[1] = q[1]
                 /\ \A i \in 2..Len(q) : f[i] = f[i - 1] \o q[i]
    BY <1>2, FlattenIs
  <2> DEFINE n == Len(q)
             Filled(j) == \A i \in 1..j : q[i] # <<>>
             Good(j) == f[j] \in Chains /\ (Filled(j) => Len(f[j]) >= j)
             H == {m \in 0 .. n - 1 : Good(m + 1)}
  <2>2. n \in Nat \ {0} /\ \A i \in 1..n : q[i] \in Chains BY <1>2, EmptySeq
  <2>l. \A c \in Chains : Len(c) \in Nat /\ (c # <<>> => Len(c) >= 1)
    BY EmptySeq DEF Chains
  <2>3. 0 \in H
    <3>1. f[1] = q[1] /\ q[1] \in Chains BY <2>1, <2>2
    <3>2. Filled(1) => Len(f[1]) >= 1 BY <3>1, <2>l
    <3>3. QED BY <3>1, <3>2, <2>2
  <2>4. ASSUME NEW i \in 0 .. (n - 1) - 1, i \in H PROVE i + 1 \in H
    <3>1. i + 1 \in 0 .. n - 1 /\ i + 2 \in 2..n /\ i + 2 \in 1..n /\ (i + 2) - 1 = i + 1
          /\ (i + 1) + 1 = i + 2 /\ i + 1 \in Nat
      BY <2>2
    <3>2. f[i + 2] = f[i + 1] \o q[i + 2] BY <2>1, <3>1
    <3>3. f[i + 1] \in Chains /\ q[i + 2] \in Chains BY <2>4, <2>2, <3>1
    <3>4. f[i + 2] \in Chains /\ Len(f[i + 2]) = Len(f[i + 1]) + Len(q[i + 2])
      BY <3>2, <3>3, ConcatProperties DEF Chains
    <3>5. ASSUME Filled(i + 2) PROVE Len(f[i + 2]) >= i + 2
      <4>1. q[i + 2] # <<>> BY <3>1, <3>5
      <4>2. Filled(i + 1) BY <3>1, <3>5
      <4>3. Len(f[i + 1]) >= i + 1 BY <2>4, <4>2
      <4>4. Len(q[i + 2]) >= 1 BY <4>1, <3>3, <2>l
      <4>5. Len(f[i + 1]) \in Nat /\ Len(q[i + 2]) \in Nat BY <3>3, <2>l
      <4>6. i \in Nat OBVIOUS
      <4>7. \A a, b, d \in Nat : a >= i + 1 /\ b >= 1 /\ d = a + b => d >= i + 2 BY ONLY <4>6
      <4>8. Len(f[i + 2]) \in Nat BY <3>4, <2>l
      <4>9. QED BY <4>3, <4>4, <4>5, <4>7, <4>8, <3>4
    <3>6. Good((i + 1) + 1) BY <3>1, <3>4, <3>5
    <3>7. QED BY <3>1, <3>6
  <2>5. n - 1 \in H
    <3> HIDE DEF H
    <3>1. n - 1 \in Nat /\ n - 1 \in 0 .. n - 1 BY <2>2
    <3>2. 0 .. n - 1 \subseteq H BY <2>3, <2>4, <3>1, Induction
    <3>3. QED BY <3>1, <3>2
  <2>6. Good(n) BY <2>5, <2>2
  <2>7. QED BY <2>6, <2>1
<1>3. QED BY <1>1, <1>2

LEMMA FlattenAppend ==
    ASSUME NEW q \in Seq(Chains), NEW c \in Chains
    PROVE  FlattenSeq(Append(q, c)) = FlattenSeq(q) \o c
<1> DEFINE n == Len(q)
           r == Append(q, c)
<1>1. /\ r \in Seq(Chains) /\ r # <<>> /\ Len(r) = n + 1 /\ n \in Nat
      /\ \A i \in 1..n : r[i] = q[i] /\ q[i] \in Chains
      /\ r[n + 1] = c
  BY AppendProperties
<1>2. PICK g : /\ FlattenSeq(r) = g[Len(r)]
               /\ g[1] = r[1]
               /\ \A i \in 2..Len(r) : g[i] = g[i - 1] \o r[i]
  <2> HIDE DEF r
  <2>1. QED BY <1>1, FlattenIs
<1> HIDE DEF r
<1>3. CASE q = <<>>
  <2>1. n = 0 BY <1>3, EmptySeq
  <2>2. FlattenSeq(r) = c BY <1>1, <1>2, <2>1
  <2>3. <<>> \o c = c BY ConcatEmptySeq DEF Chains
  <2>4. QED BY <2>2, <2>3, <1>3, FlattenNone DEF r
<1>4. CASE q # <<>>
  <2>1. PICK f : /\ FlattenSeq(q) = f[Len(q)]
                 /\ f[1] = q[1]
                 /\ \A i \in 2..Len(q) : f[i] = f[i - 1] \o q[i]
    BY <1>4, FlattenIs
  <2>2. n \in Nat \ {0} BY <1>4, EmptySeq
  <2> DEFINE H == {m \in 0 .. n - 1 : g[m + 1] = f[m + 1]}
  <2>3. 0 \in H BY <2>1, <2>2, <1>1, <1>2
  <2>4. ASSUME NEW i \in 0 .. (n - 1) - 1, i \in H PROVE i + 1 \in H
    <3>1. i + 1 \in 0 .. n - 1 /\ i + 2 \in 2..n /\ i + 2 \in 1..n /\ (i + 2) - 1 = i + 1
          /\ (i + 1) + 1 = i + 2 /\ i + 2 \in 2..Len(r)
      BY <2>2, <1>1
    <3>2. f[i + 2] = f[i + 1] \o q[i + 2] /\ g[i + 2] = g[i + 1] \o r[i + 2]
      BY <2>1, <1>2, <3>1
    <3>3. g[i + 1] = f[i + 1] /\ r[i + 2] = q[i + 2] BY <2>4, <3>1, <1>1
    <3>4. QED BY <3>1, <3>2, <3>3
  <2>5. n - 1 \in H
    <3> HIDE DEF H
    <3>1. n - 1 \in Nat /\ n - 1 \in 0 .. n - 1 BY <2>2
    <3>2. 0 .. n - 1 \subseteq H BY <2>3, <2>4, <3>1, Induction
    <3>3. QED BY <3>1, <3>2
  <2>6. g[n] = f[n] BY <2>5, <2>2
  <2>7. g[n + 1] = g[n] \o r[n + 1]
    <3>1. n + 1 \in 2..Len(r) /\ (n + 1) - 1 = n BY <2>2, <1>1
    <3>2. QED BY <3>1, <1>2
  <2>8. QED BY <2>1, <2>6, <2>7, <1>1, <1>2 DEF r
<1>5. QED BY <1>3, <1>4

-----------------------------------------------------------------------------
Jsons   == {Segment("json", k) : k \in 1..MaxEvents}
Ndjsons == {Segment("ndjson", k) : k \in 1..MaxEvents}
Olds    == Jsons \cup {Part, Manifest}

LEMMA Names ==
    /\ Jsons \subseteq Name /\ Ndjsons \subseteq Name
    /\ {Sidecars, Part, Manifest, Metadata} \subseteq Name
    /\ Jsons \cap Ndjsons = {}
    /\ Sidecars \notin Olds \cup Ndjsons /\ Metadata \notin Olds \cup Ndjsons
    /\ Part \notin Jsons \cup Ndjsons /\ Manifest \notin Jsons \cup Ndjsons
    /\ Sidecars # Metadata /\ Part # Manifest
    /\ \A k, j : \A kind : Segment(kind, k) = Segment(kind, j) => k = j
    /\ \A k \in 1..MaxEvents : Segment("json", k) \in Jsons /\ Segment("ndjson", k) \in Ndjsons
    /\ \A n \in Name : n \in Jsons \cup Ndjsons \cup {Sidecars, Part, Manifest, Metadata}
BY DEF Jsons, Ndjsons, Olds, Name, Segment, Sidecars, Part, Manifest, Metadata

LEMMA Constants ==
    /\ MaxEvents \in Nat /\ MaxFaults \in Nat
    /\ Limit \in Nat \ {0} /\ Wide \in Nat \ {0} /\ Interval \in Nat \ {0}
    /\ NoOperator \notin Operator
BY MigrationAssumption

LEMMA AbsentIs == Absent \in File /\ Absent.version = 0 /\ Absent.chain = <<>>
<1>1. <<>> \in Chains BY EmptySeq DEF Chains
<1>2. QED BY <1>1 DEF Absent, Has, File

LEMMA HasIs ==
    ASSUME NEW v \in 0..2, NEW c \in Chains
    PROVE  Has(v, c) \in File /\ Has(v, c).version = v /\ Has(v, c).chain = c
BY DEF Has, File

LEMMA FileIs ==
    ASSUME NEW f \in File PROVE f = Has(f.version, f.chain) /\ f.chain \in Chains /\ f.version \in 0..2
BY DEF Has, File

-----------------------------------------------------------------------------
(* Files joined into a chain.                                               *)
LEMMA JoinedSame ==
    ASSUME NEW names \in Seq(Name), NEW d, NEW e,
           \A i \in 1..Len(names) : d[names[i]].chain = e[names[i]].chain
    PROVE  Joined(names, d) = Joined(names, e)
<1>1. [k \in 1..Len(names) |-> d[names[k]].chain] = [k \in 1..Len(names) |-> e[names[k]].chain]
  OBVIOUS
<1>2. QED BY <1>1 DEF Joined

LEMMA JoinedNone == \A d : Joined(<<>>, d) = <<>>
<1>1. \A d : [k \in 1..0 |-> d[(<<>>)[k]].chain] = <<>> OBVIOUS
<1>2. Len(<<>>) = 0 OBVIOUS
<1>3. QED BY <1>1, <1>2, FlattenNone DEF Joined

LEMMA ChunksType ==
    ASSUME NEW names \in Seq(Name), NEW d \in Directory
    PROVE  /\ [k \in 1..Len(names) |-> d[names[k]].chain] \in Seq(Chains)
           /\ Len([k \in 1..Len(names) |-> d[names[k]].chain]) = Len(names)
           /\ Len(names) \in Nat
<1>1. Len(names) \in Nat /\ \A k \in 1..Len(names) : d[names[k]].chain \in Chains
  BY LenProperties, ElementOfSeq, FileIs DEF Directory
<1>2. QED BY <1>1

LEMMA JoinedType ==
    ASSUME NEW names \in Seq(Name), NEW d \in Directory
    PROVE  /\ Joined(names, d) \in Chains
           /\ (\A i \in 1..Len(names) : d[names[i]].chain # <<>>) => Len(Joined(names, d)) >= Len(names)
<1> DEFINE q == [k \in 1..Len(names) |-> d[names[k]].chain]
<1>1. q \in Seq(Chains) /\ Len(q) = Len(names) BY ChunksType
<1>2. Joined(names, d) = FlattenSeq(q) BY DEF Joined
<1>3. (\A i \in 1..Len(names) : d[names[i]].chain # <<>>) => \A i \in 1..Len(q) : q[i] # <<>>
  BY <1>1
<1> HIDE DEF q
<1>4. QED BY <1>1, <1>2, <1>3, FlattenType

LEMMA JoinedAppend ==
    ASSUME NEW names \in Seq(Name), NEW n \in Name, NEW d \in Directory
    PROVE  Joined(Append(names, n), d) = Joined(names, d) \o d[n].chain
<1> DEFINE r == Append(names, n)
           q == [k \in 1..Len(names) |-> d[names[k]].chain]
           s == [k \in 1..Len(r) |-> d[r[k]].chain]
<1>1. q \in Seq(Chains) /\ Len(q) = Len(names) /\ Len(names) \in Nat BY ChunksType
<1>2. /\ r \in Seq(Name) /\ Len(r) = Len(names) + 1
      /\ \A k \in 1..Len(names) : r[k] = names[k]
      /\ r[Len(names) + 1] = n
  BY AppendProperties
<1>3. d[n].chain \in Chains BY FileIs DEF Directory
<1>4. s = Append(q, d[n].chain)
  <2>1. s \in Seq(Chains) /\ Len(s) = Len(names) + 1
    <3> HIDE DEF r
    <3>1. QED BY <1>2, ChunksType
  <2>2. /\ Append(q, d[n].chain) \in Seq(Chains) /\ Len(Append(q, d[n].chain)) = Len(names) + 1
        /\ \A k \in 1..Len(names) : Append(q, d[n].chain)[k] = q[k]
        /\ Append(q, d[n].chain)[Len(names) + 1] = d[n].chain
    <3> HIDE DEF q
    <3>1. QED BY <1>1, <1>3, AppendProperties
  <2>3. ASSUME NEW k \in 1 .. Len(names) + 1 PROVE s[k] = Append(q, d[n].chain)[k]
    <3>1. s[k] = d[r[k]].chain BY <1>2
    <3>2. CASE k \in 1..Len(names) BY <3>1, <3>2, <2>2, <1>2
    <3>3. CASE k = Len(names) + 1 BY <3>1, <3>3, <2>2, <1>2
    <3>4. QED BY <3>2, <3>3, <1>1
  <2> HIDE DEF s, q
  <2>4. QED BY <2>1, <2>2, <2>3, SeqEqual
<1>5. Joined(names, d) = FlattenSeq(q) /\ Joined(r, d) = FlattenSeq(s) BY DEF Joined
<1> HIDE DEF q, s, r
<1>6. FlattenSeq(s) = FlattenSeq(q) \o d[n].chain BY <1>1, <1>3, <1>4, FlattenAppend
<1>7. QED BY <1>5, <1>6 DEF r

(* An event more in the last file is an event more in the chain.            *)
LEMMA JoinedGrows ==
    ASSUME NEW front \in Seq(Name), NEW n \in Name, NEW d \in Directory, NEW e \in Directory,
           NEW event \in Events,
           \A i \in 1..Len(front) : e[front[i]].chain = d[front[i]].chain,
           e[n].chain = Append(d[n].chain, event)
    PROVE  Joined(Append(front, n), e) = Append(Joined(front, d) \o d[n].chain, event)
<1> DEFINE c == Joined(front, d)
           x == d[n].chain
<1>1. Joined(front, e) = c BY JoinedSame
<1>2. Joined(Append(front, n), e) = Joined(front, e) \o e[n].chain BY JoinedAppend
<1>3. c \in Seq(Events) /\ x \in Seq(Events) BY JoinedType, FileIs DEF Directory, Chains
<1> HIDE DEF c, x
<1>4. <<event>> \in Seq(Events) OBVIOUS
<1>5. Append(x, event) = x \o <<event>> /\ Append(c \o x, event) = (c \o x) \o <<event>>
  BY <1>3, AppendIsConcat, ConcatProperties
<1>6. (c \o x) \o <<event>> = c \o (x \o <<event>>) BY <1>3, <1>4, ConcatAssociative
<1>7. QED BY <1>1, <1>2, <1>5, <1>6 DEF c, x

-----------------------------------------------------------------------------
(* The segments of a kind under their numbers.                              *)
LEMMA NumberedType ==
    ASSUME NEW kind \in {"json", "ndjson"}, NEW numbers \in SUBSET (1..MaxEvents)
    PROVE  /\ IsFiniteSet(numbers) /\ Cardinality(numbers) \in Nat
           /\ Numbered(kind, numbers) \in Seq(Name)
           /\ Len(Numbered(kind, numbers)) = Cardinality(numbers)
           /\ \A k \in 1..Cardinality(numbers) :
                 k \in 1..MaxEvents /\ Numbered(kind, numbers)[k] = Segment(kind, k)
           /\ numbers = {} => Numbered(kind, numbers) = <<>>
<1> DEFINE c == Cardinality(numbers)
<1>1. IsFiniteSet(1..MaxEvents) /\ Cardinality(1..MaxEvents) = MaxEvents
  BY FS_Interval, Constants
<1>2. IsFiniteSet(numbers) /\ c <= MaxEvents BY <1>1, FS_Subset
<1>3. c \in Nat BY <1>2, FS_CardinalityType
<1>4. numbers = {} => c = 0 BY FS_EmptySet
<1>5. Numbered(kind, numbers) = [k \in 1..c |-> Segment(kind, k)] BY DEF Numbered
<1> HIDE DEF c
<1>6. \A k \in 1..c : k \in 1..MaxEvents /\ Segment(kind, k) \in Name
  BY <1>2, <1>3, Names, Constants
<1>7. [k \in 1..c |-> Segment(kind, k)] \in Seq(Name) BY <1>3, <1>6
<1>8. c = 0 => [k \in 1..c |-> Segment(kind, k)] = <<>> OBVIOUS
<1>9. QED BY <1>2, <1>3, <1>4, <1>5, <1>6, <1>7, <1>8 DEF c

LEMMA CardinalityTo == \A c \in Nat : Cardinality(1..c) = c
BY FS_Interval

LEMMA NumberedNext ==
    ASSUME NEW kind \in {"json", "ndjson"}, NEW c \in Nat, c + 1 <= MaxEvents
    PROVE  Numbered(kind, 1 .. c + 1) = Append(Numbered(kind, 1..c), Segment(kind, c + 1))
<1>1. 1..c \in SUBSET (1..MaxEvents) /\ 1 .. c + 1 \in SUBSET (1..MaxEvents) /\ c + 1 \in 1..MaxEvents
  BY Constants
<1>2. Cardinality(1..c) = c /\ Cardinality(1 .. c + 1) = c + 1 BY CardinalityTo
<1> DEFINE s == Numbered(kind, 1..c)
           t == Numbered(kind, 1 .. c + 1)
<1>3. /\ s \in Seq(Name) /\ Len(s) = c /\ t \in Seq(Name) /\ Len(t) = c + 1
      /\ \A k \in 1..c : s[k] = Segment(kind, k)
      /\ \A k \in 1 .. c + 1 : t[k] = Segment(kind, k)
  BY <1>1, <1>2, NumberedType
<1> HIDE DEF s, t
<1>4. Segment(kind, c + 1) \in Name BY <1>1, Names
<1>5. /\ Append(s, Segment(kind, c + 1)) \in Seq(Name) /\ Len(Append(s, Segment(kind, c + 1))) = c + 1
      /\ \A k \in 1..c : Append(s, Segment(kind, c + 1))[k] = Segment(kind, k)
      /\ Append(s, Segment(kind, c + 1))[c + 1] = Segment(kind, c + 1)
  BY <1>3, <1>4, AppendProperties
<1>6. t = Append(s, Segment(kind, c + 1)) BY <1>3, <1>5, SeqEqual
<1>7. QED BY <1>6 DEF s, t

-----------------------------------------------------------------------------
LEMMA EventIs ==
    ASSUME NEW c \in Chains, NEW n \in Nat
    PROVE  Event(n, c) \in Events /\ Event(n, c).seq = Len(c) + 1
           /\ Event(n, c).prior = IF c = <<>> THEN 0 ELSE c[Len(c)].id
<1>1. Len(c) \in Nat /\ (c # <<>> => Len(c) \in 1..Len(c))
  BY EmptySeq DEF Chains
<1>2. c # <<>> => c[Len(c)] \in Events
  BY <1>1, ElementOfSeq DEF Chains
<1>3. QED BY <1>1, <1>2 DEF Event, Events, Last

LEMMA LinkedNext ==
    ASSUME NEW c \in Chains, NEW n \in Nat, Linked(c)
    PROVE  Append(c, Event(n, c)) \in Chains /\ Linked(Append(c, Event(n, c)))
<1> DEFINE event == Event(n, c)
           t == Append(c, event)
<1>1. event \in Events /\ event.seq = Len(c) + 1
      /\ event.prior = IF c = <<>> THEN 0 ELSE c[Len(c)].id
  BY EventIs
<1> HIDE DEF event
<1>2. /\ t \in Chains /\ Len(t) = Len(c) + 1 /\ Len(c) \in Nat
      /\ \A i \in 1..Len(c) : t[i] = c[i]
      /\ t[Len(c) + 1] = event
  BY <1>1, AppendProperties DEF Chains
<1>3. c = <<>> <=> Len(c) = 0 BY EmptySeq DEF Chains
<1> HIDE DEF t
<1>4. ASSUME NEW i \in 1..Len(t)
      PROVE  t[i].seq = i /\ t[i].prior = IF i = 1 THEN 0 ELSE t[i - 1].id
  <2>1. CASE i \in 1..Len(c)
    <3>1. t[i] = c[i] /\ (i # 1 => t[i - 1] = c[i - 1]) BY <2>1, <1>2
    <3>2. QED BY <3>1, <2>1 DEF Linked
  <2>2. CASE i = Len(c) + 1
    <3>1. t[i] = event /\ (i # 1 => t[i - 1] = c[Len(c)]) BY <2>2, <1>2
    <3>2. QED BY <3>1, <2>2, <1>1, <1>2, <1>3
  <2>3. QED BY <2>1, <2>2, <1>2
<1>5. Linked(t) BY <1>4 DEF Linked
<1>6. QED BY <1>2, <1>5 DEF t, event

LEMMA PrefixNext ==
    ASSUME NEW s \in Chains, NEW t \in Chains, NEW event \in Events, IsPrefix(s, t)
    PROVE  IsPrefix(s, Append(t, event))
<1>1. Len(s) \in Nat /\ Len(t) \in Nat /\ Len(s) <= Len(t) BY DEF IsPrefix, Chains
<1>2. /\ Append(t, event) \in Chains /\ Len(Append(t, event)) = Len(t) + 1
      /\ \A i \in 1..Len(t) : Append(t, event)[i] = t[i]
  BY AppendProperties DEF Chains
<1> DEFINE r == Append(t, event)
<1> HIDE DEF r
<1>3. \A i \in 1..Len(s) : r[i] = t[i] /\ t[i] \in Events /\ r[i] \in Events
  BY <1>1, <1>2, ElementOfSeq DEF r, Chains
<1>4. /\ SubSeq(t, 1, Len(s)) \in Seq(Events) /\ Len(SubSeq(t, 1, Len(s))) = Len(s)
      /\ \A i \in 1..Len(s) : SubSeq(t, 1, Len(s))[i] = t[i]
  BY <1>1, <1>3, SubSeqProperties
<1>5. /\ SubSeq(r, 1, Len(s)) \in Seq(Events) /\ Len(SubSeq(r, 1, Len(s))) = Len(s)
      /\ \A i \in 1..Len(s) : SubSeq(r, 1, Len(s))[i] = r[i]
  BY <1>1, <1>3, SubSeqProperties
<1>6. SubSeq(r, 1, Len(s)) = SubSeq(t, 1, Len(s)) BY <1>3, <1>4, <1>5, SeqEqual
<1>7. QED BY <1>1, <1>2, <1>6 DEF IsPrefix, r

-----------------------------------------------------------------------------
(* The invariant.  Between its Lock and its end an operation is at work;    *)
(* one that only cleans up may do so without the lease.                    *)
Working == {"prepare", "rewrite", "checkpoint",
            "clear", "clearSnapshots", "restore", "validate", "forget"}
Migrating == {"lockToMigrate", "prepare", "rewrite", "checkpoint"}
Restoring == {"clear", "clearSnapshots", "restore", "validate"}
Point == Working \cup {"idle", "verify", "lockToMigrate", "lockToRestore", "cleanup"}

Do == {"save", "mark", "put", "remove", "index", "unmark", "discard", "restore", "forget"}
FileCall == [do : Do, name : Name, content : File]
Plan == [set : BOOLEAN, names : Seq(Name), chain : Chains]
Job == [at : Point, todo : Seq(FileCall), plan : Plan]

TypeOK ==
    /\ live \in Directory
    /\ backup \in Directory
    /\ marker \in Plan
    /\ lease \in Operator \cup {NoOperator}
    /\ op \in [Operator -> Job]
    /\ outcome \in {"none", "failed", "migrated", "rolledBack"}
    /\ acked \subseteq Events
    /\ issued \in 0..MaxEvents

(* A segment that is there holds events; the metadata is always there.      *)
Full == {f \in File : f.version # 0 /\ f.chain # <<>>}
FilesFilled ==
    /\ \A n \in Jsons \cup Ndjsons : live[n] \in Full \cup {Absent} /\ backup[n] \in Full \cup {Absent}
    /\ live[Metadata] \in {Has(1, <<>>), Has(2, <<>>)}
    /\ backup[Metadata] \in {Absent, Has(1, <<>>), Has(2, <<>>)}

(* Whoever is at work has the lease; a rollback, until it has unmarked, and *)
(* a repeated migration run alone.                                         *)
Solitary(p) ==
    \/ op[p].at \in {"verify", "lockToRestore"} \cup Restoring
    \/ op[p].at = "cleanup" /\ lease # p
    \/ op[p].at = "forget" /\ marker.set
Excluded(p) ==
    /\ op[p].at = "idle" => op[p] = Idle
    /\ op[p].at \in Working => lease = p
    /\ lease = p => op[p].at \in Working \cup {"cleanup"}
    /\ Solitary(p) => Alone(p)

(* The backup a marker stands for is whole, and no JSON segment is beside   *)
(* it.  A migration that follows a failed one may have saved the metadata  *)
(* of version 2, of an empty chain.                                        *)
BackupWhole ==
    /\ marker.chain = Effective
    /\ \A n \in Range(marker.names) : n \in Olds /\ backup[n] # Absent
    /\ backup[Metadata] # Absent
    /\ backup[Metadata].version = 2 => marker.chain = <<>>
    /\ Present("json") \subseteq Saved(marker.names)

(* As long as an operation that began without a marker may go on, either    *)
(* nothing was written since there is one, or it shows.                    *)
Untouched ==
    /\ live[Metadata] = backup[Metadata]
    /\ \A n \in Olds : live[n] = IF n \in Range(marker.names) THEN backup[n] ELSE Absent
Touched ==
    \/ Present("ndjson") # {}
    \/ live[Sidecars] # Absent
    \/ marker.chain = <<>> /\ Present("json") = {}
Shows == marker.set /\ (\E p \in Operator : op[p].at \in Migrating) => Untouched \/ Touched

Cleared == Present("ndjson") = {} /\ live[Sidecars] = Absent
Upgraded == Version = 2 /\ live[Sidecars] = Has(2, Current)

Named(todo) == {todo[i].name : i \in 1..Len(todo)}

(* The calls of a rewrite: up to the mark they copy, and change nothing.    *)
Mark == Call("mark", Metadata, Absent)
Ending == <<Put(Metadata, Has(2, <<>>)), Call("index", Sidecars, Absent)>>
Saves(names) == {c \in FileCall :
    c.do = "save" /\ c.name \in Range(names) \cup {Metadata} /\ c.content = live[c.name]}
Writes == [do : {"put"}, name : Ndjsons, content : Full] \cup
          [do : {"remove"}, name : Olds, content : {Absent}]

Copying(todo, plan) ==
    /\ \E s \in Seq(Saves(plan.names)), t \in Seq(Writes) :
          /\ todo = s \o (<<Mark>> \o (t \o Ending))
          /\ plan.chain # <<>> => t # <<>> /\ Head(t).do = "put"
          /\ \A n \in Range(plan.names) \cup {Metadata} : backup[n] = live[n] \/ n \in Named(s)
    /\ plan.set
    /\ Readable /\ Current = plan.chain /\ Cleared
    /\ Range(plan.names) \subseteq Olds
    /\ \A n \in Olds : live[n] # Absent <=> n \in Range(plan.names)
    /\ marker.set => marker.chain = plan.chain

(* After it they write the new files and remove the old.                    *)
Replacing(todo, plan) ==
    /\ marker.set /\ marker = plan
    /\ \/ \E t \in Seq(Writes) :
             /\ todo = t \o Ending
             /\ Touched \/ (Untouched /\ t # <<>> /\ Head(t).do = "put")
       \/ todo = Tail(Ending) /\ Version = 2 /\ Touched
       \/ todo = <<>> /\ Upgraded

Checkpointing(todo, plan) ==
    /\ marker.set /\ marker = plan
    /\ marker.chain = Current /\ Upgraded
    /\ todo \in Seq([do : {"put"}, name : {Part, Manifest}, content : File])

(* The marker goes first, when the files hold what it stands for.           *)
Releasing(todo) ==
    /\ marker.set => /\ todo # <<>> /\ Head(todo).do = "unmark"
                     /\ Readable /\ Current = marker.chain
    /\ todo \in Seq([do : {"unmark", "discard", "forget"}, name : Name, content : File])

(* A rollback clears events/, then puts the saved files back.               *)
Removals(names) == [do : {"remove"}, name : names, content : File]
Clearing(todo) ==
    /\ todo \in Seq(Removals(Ndjsons \cup {Sidecars}))
    /\ \A n \in Ndjsons \cup {Sidecars} : live[n] = Absent \/ n \in Named(todo)
Restored(todo, names) ==
    /\ todo \in Seq([do : {"restore"}, name : Range(names) \cup {Metadata}, content : File])
    /\ \A n \in Range(names) \cup {Metadata} : live[n] = backup[n] \/ n \in Named(todo)

JobOK(at, todo, plan) ==
    /\ at \in {"lockToMigrate", "lockToRestore", "prepare", "verify", "clear"} => todo = <<>>
    /\ at = "verify" => Version = 2
    /\ at = "rewrite" => Copying(todo, plan) \/ Replacing(todo, plan)
    /\ at = "checkpoint" => Checkpointing(todo, plan)
    /\ at = "cleanup" => Releasing(todo) /\ Upgraded
    /\ at = "forget" => Releasing(todo)
    /\ at \in {"lockToRestore"} \cup Restoring => marker.set /\ marker = plan
    /\ at = "clearSnapshots" => Clearing(todo)
    /\ at \in {"restore", "validate"} => Cleared
    /\ at = "restore" => todo \in Seq(Removals({Part, Manifest}))
    /\ at = "validate" => Restored(todo, plan.names)

Ended ==
    outcome \in {"migrated", "rolledBack"} =>
        /\ lease = NoOperator /\ ~marker.set
        /\ \A p \in Operator : op[p].at \in {"idle", "lockToMigrate"}
        /\ outcome = "migrated" => Upgraded

FilesOK ==
    /\ FilesFilled
    /\ Len(Effective) <= issued
    /\ \A e \in acked : \E i \in 1..Len(Effective) : Effective[i] = e
    /\ IF marker.set THEN BackupWhole ELSE Readable

Due(p) == JobOK(op[p].at, op[p].todo, op[p].plan)
OpOK(p) == Excluded(p) /\ Due(p)

MigrationInv ==
    /\ TypeOK /\ FilesOK
    /\ \A p \in Operator : OpOK(p)
    /\ Shows /\ Ended

-----------------------------------------------------------------------------
(* What depends on files only stays when they do.                           *)
LEMMA SameFiles ==
    ASSUME UNCHANGED files
    PROVE  /\ \A kind : Present(kind)' = Present(kind)
           /\ Current' = Current /\ Readable' = Readable /\ Effective' = Effective
           /\ Version' = Version /\ Upgraded' = Upgraded /\ Cleared' = Cleared
           /\ FilesFilled' = FilesFilled /\ BackupWhole' = BackupWhole
           /\ Untouched' = Untouched /\ Touched' = Touched
           /\ Snapshots' = Snapshots /\ ToClear' = ToClear
<1> USE DEF files
<1>1. \A kind : Present(kind)' = Present(kind) BY DEF Present
<1>2. Version' = Version BY DEF Version
<1>3. \A kind : Listed(kind)' = Listed(kind) BY <1>1 DEF Listed
<1>4. \A names, d : Joined(names, d)' = Joined(names, d) OBVIOUS
<1>5. Current' = Current BY <1>2, <1>3 DEF Current
<1>6. Readable' = Readable BY <1>1, <1>2, <1>5 DEF Readable
<1>7. Effective' = Effective BY <1>5, <1>6 DEF Effective
<1>8. Upgraded' = Upgraded /\ Cleared' = Cleared /\ Touched' = Touched /\ Untouched' = Untouched
  BY <1>1, <1>2, <1>5 DEF Upgraded, Cleared, Touched, Untouched
<1>9. FilesFilled' = FilesFilled BY DEF FilesFilled
<1>10. BackupWhole' = BackupWhole BY <1>1, <1>7 DEF BackupWhole
<1>11. Snapshots' = Snapshots /\ ToClear' = ToClear BY <1>1 DEF Snapshots, ToClear
<1>12. QED BY <1>1, <1>2, <1>5, <1>6, <1>7, <1>8, <1>9, <1>10, <1>11

(* So does what an operation has still to do.                               *)
LEMMA SameDue ==
    ASSUME UNCHANGED files, NEW q, JobOK(op'[q].at, op'[q].todo, op'[q].plan)
    PROVE  Due(q)'
<1>1. UNCHANGED <<live, backup, marker>> BY DEF files
<1>2. /\ Current' = Current /\ Readable' = Readable /\ Version' = Version
      /\ Upgraded' = Upgraded /\ Cleared' = Cleared
      /\ Untouched' = Untouched /\ Touched' = Touched
  BY SameFiles
<1>3. QED
  BY <1>1, <1>2 DEF Due, JobOK, Copying, Saves, Replacing, Checkpointing, Releasing, Clearing, Restored

-----------------------------------------------------------------------------
LEMMA JobIs == ASSUME TypeOK, NEW p \in Operator
    PROVE  op[p] \in Job /\ op[p].at \in Point /\ op[p].todo \in Seq(FileCall) /\ op[p].plan \in Plan
BY DEF TypeOK, Job

LEMMA IdleIs == Idle \in Job /\ Idle.at = "idle" /\ Idle.todo = <<>> /\ Idle.plan = NoMarker
<1>1. NoMarker \in Plan BY EmptySeq DEF NoMarker, Plan, Chains
<1>2. QED BY <1>1, EmptySeq DEF Idle, Job, Point

(* Beside an operation at work the others are idle or wait for the lease.   *)
LEMMA Sole ==
    ASSUME MigrationInv, NEW p \in Operator, op[p].at \notin {"idle", "lockToMigrate"},
           NEW q \in Operator \ {p}
    PROVE  op[q].at \in {"idle", "lockToMigrate"} /\ lease # q
<1>1. Excluded(p) /\ Excluded(q) BY DEF MigrationInv, OpOK
<1>2. op[p].at \in Point /\ op[q].at \in Point BY JobIs DEF MigrationInv
<1>3. (\E r \in {p} : Alone(r)) => op[q] = Idle BY DEF Alone
<1>4. (\E r \in {q} : Alone(r)) => op[p] = Idle BY DEF Alone
<1>5. Idle.at = "idle" BY IdleIs
<1>6. SUFFICES ASSUME op[q].at # "idle" PROVE op[q].at = "lockToMigrate" /\ lease # q
  BY <1>1 DEF Excluded, Solitary, Working
<1>7. ~Alone(p) /\ ~Alone(q) BY <1>3, <1>4, <1>5, <1>6
<1>8. op[p].at \in Working \cup {"cleanup"} /\ lease = p
  BY <1>1, <1>2, <1>7 DEF Excluded, Solitary, Point
<1>9. op[q].at \notin Working \cup {"cleanup", "verify", "lockToRestore"} /\ lease # q
  BY <1>1, <1>7, <1>8 DEF Excluded, Solitary
<1>10. QED BY <1>2, <1>6, <1>9 DEF Point

(* Whoever is idle or waits is not concerned by what is done to the files.  *)
LEMMA Bystander ==
    ASSUME MigrationInv, NEW q \in Operator, op[q].at \in {"idle", "lockToMigrate"},
           op'[q] = op[q], lease' # q
    PROVE  OpOK(q)'
<1>1. OpOK(q) BY DEF MigrationInv
<1>2. Idle' = Idle BY DEF Idle, NoMarker
<1>3. Excluded(q)' BY <1>1, <1>2 DEF OpOK, Excluded, Solitary, Working, Restoring
<1>4. Due(q)' BY <1>1 DEF OpOK, Due, JobOK, Restoring
<1>5. QED BY <1>3, <1>4 DEF OpOK

(* An operation at work goes on: it suffices to look at its own job.        *)
LEMMA GoesOn ==
    ASSUME MigrationInv, NEW p \in Operator,
           op[p].at \notin {"idle", "lockToMigrate"},
           \A q \in Operator \ {p} : op'[q] = op[q],
           op'[p].at \in Working \cup {"cleanup"},
           op'[p].at \in Working => op[p].at \in Working,
           op'[p].at \in Migrating => op[p].at \in Migrating,
           op'[p].at \in Restoring => op[p].at \in Restoring,
           op'[p].at = "forget" /\ marker'.set =>
               op[p].at \in Restoring \/ (op[p].at = "forget" /\ marker.set),
           op'[p].at = "cleanup" => op[p].at \in {"verify", "checkpoint", "cleanup"},
           Due(p)',
           UNCHANGED <<lease, outcome, acked, issued>>,
           TypeOK', FilesOK',
           marker'.set /\ (\E q \in Operator : op[q].at \in Migrating) => (Untouched \/ Touched)'
    PROVE  MigrationInv'
<1>1. OpOK(p) /\ Excluded(p) BY DEF MigrationInv, OpOK
<1>2. \A q \in Operator \ {p} : op[q].at \in {"idle", "lockToMigrate"} /\ lease # q BY Sole
<1>3. ASSUME NEW q \in Operator \ {p} PROVE OpOK(q)' BY <1>2, Bystander
<1>4. Alone(p) => Alone(p)' BY DEF Alone, Idle, NoMarker
<1>5. Excluded(p)'
  <2>1. op'[p].at # "idle" BY DEF Working
  <2>2. op'[p].at \in Working => lease' = p BY <1>1 DEF Excluded, Solitary
  <2>3. ASSUME op'[p].at \in Restoring PROVE Alone(p)' BY <2>3, <1>1, <1>4 DEF Excluded, Solitary
  <2>4. ASSUME op'[p].at = "cleanup" /\ lease' # p PROVE Alone(p)'
    <3>1. lease # p /\ op[p].at \in {"verify", "checkpoint", "cleanup"} BY <2>4
    <3>2. op[p].at # "checkpoint" BY <1>1, <3>1 DEF Excluded, Solitary, Working
    <3>3. QED BY <1>1, <1>4, <3>1, <3>2 DEF Excluded, Solitary
  <2>5. ASSUME op'[p].at = "forget" /\ marker'.set PROVE Alone(p)'
    BY <2>5, <1>1, <1>4 DEF Excluded, Solitary
  <2>6. op'[p].at \notin {"verify", "lockToRestore"} BY DEF Working
  <2>7. QED BY <2>1, <2>2, <2>3, <2>4, <2>5, <2>6 DEF Excluded, Solitary
<1>6. Shows'
  <2>1. ASSUME NEW q \in Operator, op'[q].at \in Migrating PROVE op[q].at \in Migrating
    BY <2>1
  <2>2. QED BY <2>1 DEF Shows
<1>7. Ended' BY DEF MigrationInv, Ended
<1>8. OpOK(p)' BY <1>5 DEF OpOK
<1>9. QED BY <1>3, <1>6, <1>7, <1>8 DEF MigrationInv

(* From one step of an operation to the next the files stay.                *)
LEMMA Turns ==
    ASSUME MigrationInv, NEW p \in Operator, NEW job \in Job,
           op[p].at \notin {"idle", "lockToMigrate"},
           op' = [op EXCEPT ![p] = job],
           job.at \in Working \cup {"cleanup"},
           job.at \in Working => op[p].at \in Working,
           job.at \in Migrating => op[p].at \in Migrating,
           job.at \in Restoring \cup {"forget"} => op[p].at \in Restoring,
           job.at = "cleanup" => op[p].at \in {"verify", "checkpoint"},
           JobOK(job.at, job.todo, job.plan),
           UNCHANGED <<files, lease, outcome, history>>
    PROVE  MigrationInv' /\ Effective' = Effective
<1>1. op \in [Operator -> Job] BY DEF MigrationInv, TypeOK
<1>2. op' \in [Operator -> Job] /\ op'[p] = job /\ \A q \in Operator \ {p} : op'[q] = op[q]
  BY <1>1
<1>3. UNCHANGED files /\ UNCHANGED <<lease, outcome, acked, issued>> /\ UNCHANGED <<live, backup, marker>>
  BY DEF history, files
<1>4. Effective' = Effective BY <1>3, SameFiles
<1>5. TypeOK' BY <1>2, <1>3 DEF MigrationInv, TypeOK, files
<1>6. FilesOK' BY <1>3, <1>4, SameFiles DEF MigrationInv, FilesOK
<1>7. Due(p)' BY <1>2, <1>3, SameDue
<1>8. marker'.set /\ (\E q \in Operator : op[q].at \in Migrating) => (Untouched \/ Touched)'
  BY <1>3, SameFiles DEF MigrationInv, Shows
<1>9. MigrationInv' BY <1>2, <1>3, <1>5, <1>6, <1>7, <1>8, GoesOn
<1>10. QED BY <1>4, <1>9

LEMMA Enters ==
    ASSUME MigrationInv, NEW p \in Operator, NEW point, NEW todo \in Seq(FileCall),
           op[p].at \notin {"idle", "lockToMigrate"},
           Enter(p, point, todo),
           point \in Working \cup {"cleanup"},
           point \in Working => op[p].at \in Working,
           point \in Migrating => op[p].at \in Migrating,
           point \in Restoring \cup {"forget"} => op[p].at \in Restoring,
           point = "cleanup" => op[p].at \in {"verify", "checkpoint"},
           JobOK(point, todo, op[p].plan),
           UNCHANGED <<files, lease, outcome, history>>
    PROVE  MigrationInv' /\ Effective' = Effective
<1> DEFINE job == [op[p] EXCEPT !.at = point, !.todo = todo]
<1>1. op[p] \in Job BY JobIs DEF MigrationInv
<1>2. job \in Job /\ job.at = point /\ job.todo = todo /\ job.plan = op[p].plan
  BY <1>1 DEF Job, Point
<1>3. op' = [op EXCEPT ![p] = job] BY DEF MigrationInv, TypeOK, Enter
<1> HIDE DEF job
<1>4. QED BY <1>2, <1>3, Turns

(* An operation ends, however it does.                                      *)
LEMMA Finishes ==
    ASSUME MigrationInv, NEW p \in Operator, NEW result \in {"failed", "migrated", "rolledBack"},
           Finish(p, result),
           result # "failed" => ~marker.set /\ op[p].at \in {"cleanup", "forget"},
           result = "migrated" => Upgraded,
           UNCHANGED <<files, history>>
    PROVE  MigrationInv' /\ Effective' = Effective
<1>1. UNCHANGED files /\ UNCHANGED <<live, backup, marker, acked, issued>> BY DEF files, history
<1>2. Effective' = Effective BY <1>1, SameFiles
<1>3. op \in [Operator -> Job] /\ lease \in Operator \cup {NoOperator} BY DEF MigrationInv, TypeOK
<1>4. /\ op' \in [Operator -> Job] /\ op'[p] = Idle
      /\ \A q \in Operator \ {p} : op'[q] = op[q]
      /\ lease' = IF lease = p THEN NoOperator ELSE lease
      /\ outcome' = result
  BY <1>3, IdleIs DEF Finish
<1>5. TypeOK' BY <1>1, <1>3, <1>4 DEF MigrationInv, TypeOK
<1>6. FilesOK' BY <1>1, <1>2, SameFiles DEF MigrationInv, FilesOK
<1>7. Idle' = Idle BY DEF Idle, NoMarker
<1>8. ASSUME NEW q \in Operator \ {p} PROVE OpOK(q)'
  <2>1. OpOK(q) BY DEF MigrationInv
  <2>2. lease' = q <=> lease = q BY <1>4, Constants
  <2>3. Alone(q) => Alone(q)' BY <1>4, <1>7 DEF Alone
  <2>4. Excluded(q)' BY <1>1, <1>4, <1>7, <2>1, <2>2, <2>3 DEF OpOK, Excluded, Solitary
  <2>5. Due(q)' BY <1>1, <1>4, <2>1, SameDue DEF OpOK, Due
  <2>6. QED BY <1>4, <2>4, <2>5 DEF OpOK
<1>9. OpOK(p)'
  <2>1. op'[p].at = "idle" BY <1>4, IdleIs
  <2>2. lease' # p BY <1>4, Constants
  <2>3. Excluded(p)' BY <1>4, <1>7, <2>1, <2>2 DEF Excluded, Solitary, Working, Restoring
  <2>4. Due(p)' BY <2>1 DEF Due, JobOK, Restoring
  <2>5. QED BY <2>3, <2>4 DEF OpOK
<1>10. Shows'
  <2>1. ASSUME NEW q \in Operator, op'[q].at \in Migrating PROVE op[q].at \in Migrating
    BY <2>1, <1>4, IdleIs DEF Migrating
  <2>2. QED BY <1>1, <2>1, SameFiles DEF MigrationInv, Shows
<1>11. Ended'
  <2>1. SUFFICES ASSUME result # "failed" PROVE Ended' BY <1>4 DEF Ended
  <2>2. op[p].at \notin {"idle", "lockToMigrate"} BY <2>1
  <2>3. \A q \in Operator \ {p} : op[q].at \in {"idle", "lockToMigrate"} /\ lease # q BY <2>2, Sole
  <2>4. lease' = NoOperator BY <1>3, <1>4, <2>3
  <2>5. \A q \in Operator : op'[q].at \in {"idle", "lockToMigrate"} BY <1>4, <2>3, IdleIs
  <2>6. QED BY <1>1, <1>4, <2>1, <2>4, <2>5, SameFiles DEF Ended
<1>12. QED BY <1>2, <1>5, <1>6, <1>8, <1>9, <1>10, <1>11 DEF MigrationInv

-----------------------------------------------------------------------------
LEMMA KindIs == \A v : Kind(v) \in {"json", "ndjson"}
BY DEF Kind

LEMMA PresentIs == \A kind : Present(kind) \in SUBSET (1..MaxEvents)
BY DEF Present

LEMMA ListedType ==
    ASSUME NEW kind \in {"json", "ndjson"}
    PROVE  /\ Listed(kind) \in Seq(Name)
           /\ Present(kind) = {} => Listed(kind) = <<>>
BY PresentIs, NumberedType DEF Listed

LEMMA ChainTypes == ASSUME TypeOK PROVE Current \in Chains /\ Effective \in Chains
<1>1. Current \in Chains BY ListedType, KindIs, JoinedType DEF TypeOK, Current
<1>2. Saved(marker.names) \in SUBSET (1..MaxEvents) BY DEF Saved
<1>3. Joined(Numbered("json", Saved(marker.names)), backup) \in Chains
  BY <1>2, NumberedType, JoinedType DEF TypeOK
<1>4. <<>> \in Chains BY EmptySeq DEF Chains
<1>5. QED BY <1>1, <1>3, <1>4 DEF Effective

LEMMA NothingThere == Present(Kind(Version)) = {} => Current = <<>>
BY ListedType, KindIs, JoinedNone DEF Current

LEMMA VersionIs ==
    ASSUME FilesFilled
    PROVE  Version \in {1, 2} /\ (Version = 1 => Kind(Version) = "json" /\ Kind(3 - Version) = "ndjson")
           /\ (Version = 2 => Kind(Version) = "ndjson" /\ Kind(3 - Version) = "json")
BY DEF FilesFilled, Version, Has, Kind

(* A workspace of version 1, whose segments are those that are there, holds *)
(* what they join to; so do none, of version 2.                            *)
LEMMA JsonsHold ==
    ASSUME FilesFilled, Readable, Present("ndjson") = {}
    PROVE  /\ Current = Joined(Numbered("json", Present("json")), live)
           /\ Version = 2 => Present("json") = {} /\ Current = <<>>
<1>1. CASE Version = 1 BY <1>1, VersionIs DEF Current, Listed
<1>2. CASE Version = 2
  <2>1. Present("json") = {} /\ Current = <<>> BY <1>2, VersionIs, NothingThere DEF Readable
  <2>2. Numbered("json", Present("json")) = <<>> BY <2>1, PresentIs, NumberedType
  <2>3. QED BY <1>2, <2>1, <2>2, JoinedNone
<1>3. QED BY <1>1, <1>2, VersionIs

LEMMA Initially == Init => MigrationInv /\ Effective = <<>>
<1> SUFFICES ASSUME Init PROVE MigrationInv /\ Effective = <<>> OBVIOUS
<1>1. /\ live \in Directory /\ backup \in Directory
      /\ live[Metadata] = Has(1, <<>>) /\ backup[Metadata] = Absent
      /\ \A n \in Name \ {Metadata} : live[n] = Absent /\ backup[n] = Absent
  <2>1. <<>> \in Chains BY EmptySeq DEF Chains
  <2>2. Has(1, <<>>) \in File /\ Absent \in File BY <2>1, HasIs, AbsentIs
  <2>3. QED BY <2>2, Names DEF Init, Directory
<1>2. Present("json") = {} /\ Present("ndjson") = {} /\ live[Sidecars] = Absent
  <2>1. \A k \in 1..MaxEvents : /\ Segment("json", k) \in Name \ {Metadata}
                               /\ Segment("ndjson", k) \in Name \ {Metadata}
    BY Names DEF Olds
  <2>2. Sidecars \in Name \ {Metadata} BY Names
  <2>3. QED BY <1>1, <2>1, <2>2 DEF Present
<1>3. TypeOK
  BY <1>1, IdleIs, Constants DEF Init, TypeOK, Job
<1>4. FilesFilled BY <1>1, Names DEF FilesFilled, Olds
<1>5. Version = 1 BY <1>1, HasIs DEF Version, Has
<1>6. Current = <<>> BY <1>2, <1>5, NothingThere DEF Kind
<1>7. Readable
  <2>1. Kind(Version) = "json" /\ Kind(3 - Version) = "ndjson" BY <1>4, <1>5, VersionIs
  <2>2. Cardinality(Present("json")) = 0 BY <1>2, FS_EmptySet
  <2>3. Linked(Current) BY <1>6 DEF Linked
  <2>4. live[Part] = Absent /\ live[Manifest] = Absent BY <1>1, Names DEF Olds
  <2>5. QED BY <1>2, <1>5, <2>1, <2>2, <2>3, <2>4 DEF Readable
<1>8. marker.set = FALSE BY DEF Init, NoMarker
<1>9. Effective = <<>> BY <1>6, <1>7, <1>8 DEF Effective
<1>10. FilesOK BY <1>4, <1>7, <1>8, <1>9, Constants DEF Init, FilesOK
<1>11. ASSUME NEW p \in Operator PROVE OpOK(p)
  <2>1. op[p] = Idle /\ lease # p BY Constants DEF Init
  <2>2. op[p].at = "idle" BY <2>1, IdleIs
  <2>3. QED BY <2>1, <2>2 DEF OpOK, Excluded, Solitary, Working, Restoring, Due, JobOK
<1>12. QED BY <1>3, <1>8, <1>9, <1>10, <1>11 DEF MigrationInv, Shows, Ended, Init

-----------------------------------------------------------------------------
(* An operation that begins, or gets the lease.                             *)
LEMMA Starts ==
    ASSUME MigrationInv, NEW p \in Operator, NEW job \in Job,
           op' = [op EXCEPT ![p] = job],
           lease' = lease \/ (lease = NoOperator /\ lease' = p),
           outcome' = "none",
           \A q \in Operator \ {p} : ~Solitary(q),
           Excluded(p)', JobOK(job.at, job.todo, job.plan),
           job.at \in Migrating => ~marker.set \/ op[p].at \in Migrating,
           UNCHANGED <<files, history>>
    PROVE  MigrationInv' /\ Effective' = Effective
<1>1. UNCHANGED files /\ UNCHANGED <<live, backup, marker, acked, issued>> BY DEF files, history
<1>2. Effective' = Effective BY <1>1, SameFiles
<1>3. op \in [Operator -> Job] /\ lease \in Operator \cup {NoOperator} BY DEF MigrationInv, TypeOK
<1>4. /\ op' \in [Operator -> Job] /\ op'[p] = job
      /\ \A q \in Operator \ {p} : op'[q] = op[q]
  BY <1>3
<1>5. TypeOK' BY <1>1, <1>3, <1>4 DEF MigrationInv, TypeOK
<1>6. FilesOK' BY <1>1, <1>2, SameFiles DEF MigrationInv, FilesOK
<1>7. Idle' = Idle BY DEF Idle, NoMarker
<1>8. ASSUME NEW q \in Operator \ {p} PROVE OpOK(q)'
  <2>1. OpOK(q) /\ ~Solitary(q) BY DEF MigrationInv
  <2>2. (lease' = q <=> lease = q) /\ op'[q] = op[q] BY <1>3, <1>4, Constants
  <2>3. ~Solitary(q)' BY <1>1, <2>1, <2>2 DEF Solitary
  <2>4. op[q].at \in Working => lease' = q BY <2>1, <2>2 DEF OpOK, Excluded
  <2>5. lease' = q => op[q].at \in Working \cup {"cleanup"} BY <2>1, <2>2 DEF OpOK, Excluded
  <2>6. Excluded(q)' BY <1>7, <2>1, <2>2, <2>3, <2>4, <2>5 DEF OpOK, Excluded, Working
  <2>7. Due(q)' BY <1>1, <2>1, <2>2, SameDue DEF OpOK, Due
  <2>8. QED BY <2>6, <2>7 DEF OpOK
<1>9. Due(p)' BY <1>1, <1>4, SameDue
<1>10. Shows'
  <2>1. ASSUME NEW q \in Operator, op'[q].at \in Migrating, marker.set PROVE op[q].at \in Migrating
    BY <2>1, <1>4
  <2>2. QED BY <1>1, <2>1, SameFiles DEF MigrationInv, Shows
<1>11. Ended' BY DEF Ended
<1>12. QED BY <1>2, <1>5, <1>6, <1>8, <1>9, <1>10, <1>11 DEF MigrationInv, OpOK

LEMMA BeginMigrateStep ==
    ASSUME MigrationInv, NEW p \in Operator, BeginMigrate(p), Overlapping = FALSE
    PROVE  MigrationInv' /\ Effective' = Effective
<1> DEFINE job == [Idle EXCEPT !.at = IF Version = 2 THEN "verify" ELSE "lockToMigrate"]
<1>1. /\ job \in Job /\ job.at = (IF Version = 2 THEN "verify" ELSE "lockToMigrate") /\ job.todo = <<>>
      /\ job.at \notin {"idle"} \cup Working \cup Restoring
  BY IdleIs DEF Job, Point, Working, Restoring
<1>2. op' = [op EXCEPT ![p] = job]
  <2>1. op[p] = Idle BY DEF BeginMigrate
  <2>2. job = [Idle EXCEPT !.at = IF Version = 2 THEN "verify" ELSE "lockToMigrate", !.todo = <<>>]
    BY IdleIs DEF Idle
  <2>3. QED BY <2>1, <2>2 DEF BeginMigrate, Enter
<1>3. Version \in {1, 2} BY VersionIs DEF MigrationInv, FilesOK
<1>4. Version = 2 => Alone(p) BY DEF BeginMigrate
<1>5. lease # p BY IdleIs DEF MigrationInv, OpOK, Excluded, BeginMigrate, Working
<1>6. ASSUME NEW q \in Operator \ {p} PROVE ~Solitary(q)
  <2>1. CASE Version = 2
    <3>1. op[q].at = "idle" BY <2>1, <1>4, IdleIs DEF Alone
    <3>2. QED BY <3>1 DEF Solitary, Restoring
  <2>2. CASE Version = 1
    <3>1. ~marker.set BY <2>2 DEF BeginMigrate
    <3>2. Due(q) BY DEF MigrationInv, OpOK
    <3>3. QED BY <2>2, <3>1, <3>2 DEF Solitary, Due, JobOK, Upgraded
  <2>3. QED BY <1>3, <2>1, <2>2
<1>7. op'[p] = job /\ \A q \in Operator \ {p} : op'[q] = op[q]
  BY <1>2 DEF MigrationInv, TypeOK
<1>8. Alone(p) => Alone(p)' BY <1>7 DEF Alone, Idle, NoMarker
<1>9. UNCHANGED <<files, lease, history>> /\ outcome' = "none" BY DEF BeginMigrate
<1>10. Excluded(p)' BY <1>1, <1>4, <1>5, <1>7, <1>8, <1>9 DEF Excluded, Solitary
<1>11. JobOK(job.at, job.todo, job.plan) BY <1>1 DEF JobOK
<1>12. job.at \in Migrating => ~marker.set BY <1>1, <1>3 DEF BeginMigrate, Migrating
<1> HIDE DEF job
<1>13. QED BY <1>1, <1>2, <1>6, <1>9, <1>10, <1>11, <1>12, Starts

LEMMA BeginRollbackStep ==
    ASSUME MigrationInv, NEW p \in Operator, BeginRollback(p), Overlapping = FALSE
    PROVE  MigrationInv' /\ Effective' = Effective
<1> DEFINE job == [Idle EXCEPT !.at = "lockToRestore", !.plan = marker]
<1>1. /\ job \in Job /\ job.at = "lockToRestore" /\ job.todo = <<>> /\ job.plan = marker
      /\ job.at \notin {"idle"} \cup Working \cup Restoring \cup Migrating
  BY IdleIs DEF MigrationInv, TypeOK, Job, Point, Working, Restoring, Migrating
<1>2. op' = [op EXCEPT ![p] = job] BY DEF BeginRollback
<1>3. Alone(p) /\ marker.set BY DEF BeginRollback
<1>4. lease # p BY IdleIs DEF MigrationInv, OpOK, Excluded, BeginRollback, Working
<1>5. ASSUME NEW q \in Operator \ {p} PROVE ~Solitary(q)
  <2>1. op[q].at = "idle" BY <1>3, IdleIs DEF Alone
  <2>2. QED BY <2>1 DEF Solitary, Restoring
<1>6. op'[p] = job /\ \A q \in Operator \ {p} : op'[q] = op[q]
  BY <1>2 DEF MigrationInv, TypeOK
<1>7. Alone(p)' BY <1>3, <1>6 DEF Alone, Idle, NoMarker
<1>8. UNCHANGED <<files, lease, history>> /\ outcome' = "none" BY DEF BeginRollback
<1>9. Excluded(p)' BY <1>1, <1>4, <1>6, <1>7, <1>8 DEF Excluded, Working
<1>10. JobOK(job.at, job.todo, job.plan) BY <1>1, <1>3 DEF JobOK
<1> HIDE DEF job
<1>11. QED BY <1>1, <1>2, <1>5, <1>8, <1>9, <1>10, Starts

LEMMA LockStep ==
    ASSUME MigrationInv, NEW p \in Operator, Lock(p)
    PROVE  MigrationInv' /\ Effective' = Effective
<1>1. CASE lease # NoOperator
  <2>1. Finish(p, "failed") /\ UNCHANGED <<files, history>> BY <1>1 DEF Lock
  <2>2. QED BY <2>1, Finishes
<1>2. CASE lease = NoOperator
  <2> DEFINE point == IF op[p].at = "lockToMigrate" THEN "prepare" ELSE "clear"
             job == [op[p] EXCEPT !.at = point, !.todo = <<>>]
  <2>1. /\ op[p] \in Job /\ op \in [Operator -> Job] /\ Excluded(p) /\ Due(p)
    BY JobIs DEF MigrationInv, OpOK, TypeOK
  <2>2. job \in Job /\ job.at = point /\ job.todo = <<>> /\ job.plan = op[p].plan
    BY <2>1, EmptySeq DEF Job, Point, Working
  <2>3. lease' = p /\ op' = [op EXCEPT ![p] = job] /\ outcome' = "none" /\ UNCHANGED <<files, history>>
    BY <1>2, <2>1 DEF Lock, Enter
  <2>4. op[p].at \in {"lockToMigrate", "lockToRestore"} BY DEF Lock
  <2>5. ASSUME NEW q \in Operator \ {p} PROVE ~Solitary(q)
    <3>1. op[p] # Idle BY <2>4, IdleIs
    <3>2. ~Alone(q) BY <3>1 DEF Alone
    <3>3. QED BY <3>2 DEF MigrationInv, OpOK, Excluded
  <2>6. op'[p] = job /\ \A q \in Operator \ {p} : op'[q] = op[q] BY <2>1, <2>3
  <2>7. op[p].at = "lockToRestore" => Alone(p)'
    BY <2>1, <2>6 DEF Excluded, Solitary, Alone, Idle, NoMarker
  <2>8. Excluded(p)'
    <3>1. CASE op[p].at = "lockToMigrate"
      <4>1. op'[p].at = "prepare" /\ lease' = p BY <2>2, <2>3, <2>6, <3>1
      <4>2. QED BY <4>1 DEF Excluded, Solitary, Working, Restoring
    <3>2. CASE op[p].at = "lockToRestore"
      <4>1. op'[p].at = "clear" /\ lease' = p BY <2>2, <2>3, <2>6, <3>2
      <4>2. QED BY <4>1, <2>7, <3>2 DEF Excluded, Working
    <3>3. QED BY <2>4, <3>1, <3>2
  <2>9. JobOK(job.at, job.todo, job.plan)
    BY <2>1, <2>2, <2>4 DEF Due, JobOK, Restoring
  <2>10. job.at \in Migrating => op[p].at \in Migrating BY <2>2, <2>4 DEF Migrating
  <2> HIDE DEF job
  <2>11. QED BY <1>2, <2>2, <2>3, <2>5, <2>8, <2>9, <2>10, Starts
<1>3. QED BY <1>1, <1>2

LEMMA StopStep ==
    ASSUME MigrationInv, NEW p \in Operator, Stop(p)
    PROVE  MigrationInv' /\ Effective' = Effective
BY Finishes DEF Stop

-----------------------------------------------------------------------------
LEMMA Nonempty ==
    ASSUME NEW S, NEW s \in Seq(S), NEW t \in Seq(S)
    PROVE  /\ s \o t \in Seq(S)
           /\ s \o t = <<>> <=> s = <<>> /\ t = <<>>
           /\ s # <<>> => /\ Head(s \o t) = Head(s)
                          /\ Tail(s \o t) = Tail(s) \o t
                          /\ Head(s) \in S /\ Tail(s) \in Seq(S)
           /\ s = <<>> => s \o t = t
<1>1. s \o t \in Seq(S) BY ConcatProperties
<1>2. s \o t = <<>> <=> s = <<>> /\ t = <<>> BY ConcatEqualIffEmpty
<1>3. ASSUME s # <<>> PROVE Head(s \o t) = Head(s) /\ Tail(s \o t) = Tail(s) \o t
  <2>1. Len(s) \in Nat \ {0} /\ Len(t) \in Nat BY <1>3, EmptySeq
  <2> DEFINE r == s \o t
  <2>2. /\ r \in Seq(S) /\ Len(r) = Len(s) + Len(t) /\ r # <<>>
        /\ \A i \in 1 .. Len(s) + Len(t) : r[i] = IF i <= Len(s) THEN s[i] ELSE t[i - Len(s)]
    BY <1>2, <1>3, ConcatProperties
  <2> HIDE DEF r
  <2>3. Head(r) = r[1] /\ Head(s) = s[1] /\ 1 \in 1 .. Len(s) + Len(t) /\ 1 <= Len(s) BY <2>1
  <2>4. Head(r) = Head(s) BY <2>2, <2>3
  <2>5. /\ Tail(r) \in Seq(S) /\ Len(Tail(r)) = Len(r) - 1
        /\ \A i \in 1 .. Len(Tail(r)) : Tail(r)[i] = r[i + 1]
    BY <2>2, HeadTailProperties
  <2>6. /\ Tail(s) \in Seq(S) /\ Len(Tail(s)) = Len(s) - 1
        /\ \A i \in 1 .. Len(Tail(s)) : Tail(s)[i] = s[i + 1]
    BY <1>3, HeadTailProperties
  <2> DEFINE u == Tail(s) \o t
  <2>7. /\ u \in Seq(S) /\ Len(u) = Len(Tail(s)) + Len(t)
        /\ \A i \in 1 .. Len(Tail(s)) + Len(t) :
              u[i] = IF i <= Len(Tail(s)) THEN Tail(s)[i] ELSE t[i - Len(Tail(s))]
    BY <2>6, ConcatProperties
  <2> HIDE DEF u
  <2>8. Len(Tail(r)) = Len(u) BY <2>1, <2>2, <2>5, <2>6, <2>7
  <2>9. ASSUME NEW i \in 1 .. Len(u) PROVE Tail(r)[i] = u[i]
    <3>1. i \in 1 .. Len(Tail(r)) /\ i + 1 \in 1 .. Len(s) + Len(t) /\ i \in 1 .. Len(Tail(s)) + Len(t)
      BY <2>1, <2>6, <2>7, <2>8
    <3>2. Tail(r)[i] = IF i + 1 <= Len(s) THEN s[i + 1] ELSE t[(i + 1) - Len(s)] BY <2>2, <2>5, <3>1
    <3>3. CASE i <= Len(s) - 1
      <4>1. i \in 1 .. Len(Tail(s)) BY <2>1, <2>6, <3>3
      <4>2. QED BY <2>1, <2>6, <2>7, <3>1, <3>2, <3>3, <4>1
    <3>4. CASE ~(i <= Len(s) - 1)
      <4>1. (i + 1) - Len(s) = i - Len(Tail(s)) /\ ~(i + 1 <= Len(s)) /\ ~(i <= Len(Tail(s)))
        BY <2>1, <2>6, <3>4
      <4>2. QED BY <2>7, <3>1, <3>2, <4>1
    <3>5. QED BY <3>3, <3>4
  <2>10. Tail(r) = u BY <2>5, <2>7, <2>8, <2>9, SeqEqual
  <2>11. QED BY <2>4, <2>10 DEF r, u
<1>4. s # <<>> => Head(s) \in S /\ Tail(s) \in Seq(S) BY HeadTailProperties
<1>5. <<>> \o t = t BY ConcatEmptySeq
<1>6. QED BY <1>1, <1>2, <1>3, <1>4, <1>5

LEMMA EachType ==
    ASSUME NEW S \in SUBSET Name, NEW names \in Seq(S), NEW do \in Do
    PROVE  /\ Each(do, names) \in Seq([do : {do}, name : S, content : {Absent}])
           /\ Len(Each(do, names)) = Len(names)
           /\ Named(Each(do, names)) = {names[i] : i \in 1..Len(names)}
<1> DEFINE e == Each(do, names)
<1>1. e = [i \in 1..Len(names) |-> Call(do, names[i], Absent)] /\ Len(names) \in Nat
  BY DEF Each
<1>2. \A i \in 1..Len(names) : names[i] \in S BY ElementOfSeq
<1>3. e \in Seq([do : {do}, name : S, content : {Absent}]) /\ Len(e) = Len(names)
  BY <1>1, <1>2 DEF Call
<1>4. \A i \in 1..Len(names) : e[i].name = names[i] BY <1>1 DEF Call
<1> HIDE DEF e
<1>5. Named(e) = {names[i] : i \in 1..Len(names)} BY <1>3, <1>4 DEF Named
<1>6. QED BY <1>3, <1>5 DEF e

LEMMA EndingIs ==
    /\ Ending \in Seq(FileCall) /\ Ending # <<>>
    /\ Head(Ending) = Put(Metadata, Has(2, <<>>))
    /\ Tail(Ending) = <<Call("index", Sidecars, Absent)>>
    /\ Tail(Ending) # <<>> /\ Tail(Tail(Ending)) = <<>>
    /\ Head(Tail(Ending)) = Call("index", Sidecars, Absent)
    /\ Mark \in FileCall /\ <<Mark>> \in Seq(FileCall)
<1>1. <<>> \in Chains BY EmptySeq DEF Chains
<1>2. Has(2, <<>>) \in File BY <1>1, HasIs
<1>3. {Call("index", Sidecars, Absent), Put(Metadata, Has(2, <<>>)), Mark} \subseteq FileCall
  BY <1>2, AbsentIs, Names DEF FileCall, Do, Call, Put, Mark
<1>4. QED BY <1>3 DEF Ending

(* The calls of a rewrite are calls.                                        *)
LEMMA WritesAre == Writes \subseteq FileCall
BY AbsentIs, Names DEF Writes, FileCall, Do, Full, Olds

LEMMA RewritingEnds ==
    ASSUME NEW plan, Copying(<<>>, plan) \/ Replacing(<<>>, plan)
    PROVE  marker.set /\ marker = plan /\ Upgraded
<1>1. ~Copying(<<>>, plan)
  <2>1. ASSUME NEW s \in Seq(Saves(plan.names)), NEW t \in Seq(Writes)
        PROVE  s \o (<<Mark>> \o (t \o Ending)) # <<>>
    <3>1. s \in Seq(FileCall) /\ t \in Seq(FileCall)
      BY WritesAre, SeqMonotonic DEF Saves
    <3>2. t \o Ending \in Seq(FileCall) BY <3>1, EndingIs, Nonempty
    <3>3. <<Mark>> # <<>> OBVIOUS
    <3>4. <<Mark>> \o (t \o Ending) \in Seq(FileCall) /\ <<Mark>> \o (t \o Ending) # <<>>
      BY <3>2, <3>3, EndingIs, Nonempty
    <3>5. QED BY <3>1, <3>4, Nonempty
  <2>2. QED BY <2>1 DEF Copying
<1>2. ASSUME NEW t \in Seq(Writes) PROVE t \o Ending # <<>>
  <2>1. t \in Seq(FileCall) BY WritesAre, SeqMonotonic
  <2>2. QED BY <2>1, EndingIs, Nonempty
<1>3. QED BY <1>1, <1>2, EndingIs DEF Replacing

LEMMA CheckStep ==
    ASSUME MigrationInv, NEW p \in Operator, Check(p)
    PROVE  MigrationInv' /\ Effective' = Effective
<1>1. CASE ~(Valid /\ Current = op[p].plan.chain)
  BY <1>1, Finishes DEF Check
<1>2. CASE Valid /\ Current = op[p].plan.chain
  <2> DEFINE todo == <<Put(Part, Has(2, Current)), Put(Manifest, Has(2, Current))>>
             Puts == [do : {"put"}, name : {Part, Manifest}, content : File]
  <2>1. op[p].at = "rewrite" /\ op[p].todo = <<>> BY DEF Check, At
  <2>2. Copying(<<>>, op[p].plan) \/ Replacing(<<>>, op[p].plan)
    BY <2>1 DEF MigrationInv, OpOK, Due, JobOK
  <2>3. marker.set /\ marker = op[p].plan /\ Upgraded BY <2>2, RewritingEnds
  <2>4. Has(2, Current) \in File BY ChainTypes, HasIs DEF MigrationInv
  <2>5. todo \in Seq(Puts) BY <2>4 DEF Put, Call
  <2>6. Puts \subseteq FileCall BY Names DEF FileCall, Do
  <2>7. todo \in Seq(FileCall)
    <3> HIDE DEF todo, Puts
    <3>1. QED BY <2>5, <2>6, SeqMonotonic
  <2>8. Enter(p, "checkpoint", todo) /\ UNCHANGED <<files, lease, outcome, history>> BY <1>2 DEF Check
  <2>9. marker.chain = Current BY <1>2, <2>3
  <2>10. JobOK("checkpoint", todo, op[p].plan)
    BY <2>3, <2>5, <2>9 DEF JobOK, Checkpointing, Restoring
  <2> HIDE DEF todo
  <2>11. QED BY <2>1, <2>7, <2>8, <2>10, Enters DEF Working, Migrating, Restoring
<1>3. QED BY <1>1, <1>2

LEMMA CleanupIs ==
    ASSUME NEW m \in Plan
    PROVE  /\ Cleanup(m) \in Seq([do : {"unmark", "discard", "forget"}, name : Name, content : File])
           /\ m.set => Cleanup(m) # <<>> /\ Head(Cleanup(m)).do = "unmark"
<1> DEFINE Calls == [do : {"unmark", "discard", "forget"}, name : Name, content : File]
           u == <<Call("unmark", Metadata, Absent)>>
           names == <<Metadata>> \o m.names
<1>1. u \in Seq(Calls) /\ u # <<>> /\ Head(u).do = "unmark"
  BY Names, AbsentIs DEF Call
<1>2. names \in Seq(Name) BY Names, ConcatProperties DEF Plan
<1>3. Each("discard", names) \in Seq(Calls)
  <2> DEFINE D == [do : {"discard"}, name : Name, content : {Absent}]
  <2>1. Each("discard", names) \in Seq(D)
    <3> HIDE DEF names
    <3>1. QED BY <1>2, EachType DEF Do
  <2>2. D \subseteq Calls BY AbsentIs
  <2> HIDE DEF D, Calls
  <2>3. QED BY <2>1, <2>2, SeqMonotonic
<1>4. Cleanup(m) = IF m.set THEN u \o Each("discard", names) ELSE <<>> BY DEF Cleanup
<1>5. <<>> \in Seq(Calls) BY EmptySeq
<1> HIDE DEF u, Calls
<1>6. QED BY <1>1, <1>3, <1>4, <1>5, Nonempty DEF Calls

LEMMA ReleasesAre == [do : {"unmark", "discard", "forget"}, name : Name, content : File] \subseteq FileCall
BY DEF FileCall, Do

LEMMA CleanupEntered ==
    ASSUME MigrationInv, NEW p \in Operator, op[p].at \in {"verify", "checkpoint"},
           Readable, Upgraded, marker.set => marker.chain = Current,
           Enter(p, "cleanup", Cleanup(marker)),
           UNCHANGED <<files, lease, outcome, history>>
    PROVE  MigrationInv' /\ Effective' = Effective
<1>1. marker \in Plan BY DEF MigrationInv, TypeOK
<1> DEFINE todo == Cleanup(marker)
<1>2. /\ todo \in Seq([do : {"unmark", "discard", "forget"}, name : Name, content : File])
      /\ marker.set => todo # <<>> /\ Head(todo).do = "unmark"
  BY <1>1, CleanupIs
<1>3. todo \in Seq(FileCall) BY <1>2, ReleasesAre, SeqMonotonic
<1> HIDE DEF todo
<1>4. JobOK("cleanup", todo, op[p].plan) BY <1>2 DEF JobOK, Releasing, Restoring
<1>5. QED BY <1>3, <1>4, Enters DEF todo, Working, Migrating, Restoring

LEMMA RecheckStep ==
    ASSUME MigrationInv, NEW p \in Operator, Recheck(p)
    PROVE  MigrationInv' /\ Effective' = Effective
<1>1. CASE ~Valid BY <1>1, Finishes DEF Recheck
<1>2. CASE Valid
  <2>1. op[p].at = "checkpoint" BY DEF Recheck, At
  <2>2. marker.chain = Current /\ Upgraded
    BY <2>1 DEF MigrationInv, OpOK, Due, JobOK, Checkpointing
  <2>3. QED BY <1>2, <2>1, <2>2, CleanupEntered DEF Recheck, Valid
<1>3. QED BY <1>1, <1>2

LEMMA VerifyStep ==
    ASSUME MigrationInv, NEW p \in Operator, Verify(p)
    PROVE  MigrationInv' /\ Effective' = Effective
<1>1. op[p].at = "verify" BY DEF Verify, At
<1>2. CASE Finish(p, "failed") BY <1>2, Finishes DEF Verify
<1>3. CASE ~Finish(p, "failed")
  BY <1>1, <1>3, CleanupEntered DEF Verify, Upgraded
<1>4. QED BY <1>2, <1>3

LEMMA MigratedStep ==
    ASSUME MigrationInv, NEW p \in Operator, Migrated(p)
    PROVE  MigrationInv' /\ Effective' = Effective
<1>1. op[p].at = "cleanup" /\ op[p].todo = <<>> BY DEF Migrated, At
<1>2. ~marker.set /\ Upgraded BY <1>1 DEF MigrationInv, OpOK, Due, JobOK, Releasing
<1>3. QED BY <1>1, <1>2, Finishes DEF Migrated

LEMMA RolledBackStep ==
    ASSUME MigrationInv, NEW p \in Operator, RolledBack(p)
    PROVE  MigrationInv' /\ Effective' = Effective
<1>1. op[p].at = "forget" /\ op[p].todo = <<>> BY DEF RolledBack, At
<1>2. ~marker.set BY <1>1 DEF MigrationInv, OpOK, Due, JobOK, Releasing
<1>3. QED BY <1>1, <1>2, Finishes DEF RolledBack

-----------------------------------------------------------------------------
(* The files of the backup hold what the marker says.                       *)
LEMMA AsSaved ==
    ASSUME TypeOK, FilesFilled, Readable, Present("ndjson") = {}, marker.set, BackupWhole,
           \A n \in Range(marker.names) \cup {Metadata} : live[n] = backup[n]
    PROVE  Current = marker.chain
<1> DEFINE names == Numbered("json", Present("json"))
<1>1. Current = Joined(names, live) /\ (Version = 2 => Current = <<>>) BY JsonsHold
<1>2. CASE Version = 2
  <2>1. backup[Metadata].version = 2 BY <1>2 DEF Version
  <2>2. QED BY <1>1, <1>2, <2>1 DEF BackupWhole
<1>3. CASE Version = 1
  <2>1. Present("json") = 1..Cardinality(Present("json")) BY <1>3, VersionIs DEF Readable
  <2>2. ASSUME NEW k \in Saved(marker.names) PROVE k \in Present("json")
    <3>1. Segment("json", k) \in Range(marker.names) /\ k \in 1..MaxEvents BY DEF Saved
    <3>2. live[Segment("json", k)] # Absent BY <3>1 DEF BackupWhole
    <3>3. QED BY <3>1, <3>2 DEF Present
  <2>3. Present("json") = Saved(marker.names) BY <2>2 DEF BackupWhole
  <2>4. /\ names \in Seq(Name) /\ Len(names) = Cardinality(Present("json"))
        /\ \A k \in 1..Cardinality(Present("json")) : names[k] = Segment("json", k)
    BY PresentIs, NumberedType
  <2>5. ASSUME NEW i \in 1..Len(names) PROVE live[names[i]].chain = backup[names[i]].chain
    <3>1. i \in Saved(marker.names) /\ names[i] = Segment("json", i) BY <2>1, <2>3, <2>4
    <3>2. names[i] \in Range(marker.names) BY <3>1 DEF Saved
    <3>3. QED BY <3>2
  <2> HIDE DEF names
  <2>6. Joined(names, live) = Joined(names, backup) BY <2>4, <2>5, JoinedSame
  <2>7. Effective = Joined(names, backup) BY <2>3 DEF Effective, names
  <2>8. QED BY <1>1, <2>6, <2>7 DEF BackupWhole
<1>4. QED BY <1>2, <1>3, VersionIs

(* A migration that finds a backup another one left finds its chain, too.   *)
LEMMA StillThere ==
    ASSUME MigrationInv, NEW p \in Operator, op[p].at \in Migrating,
           Readable, Cleared, marker.set
    PROVE  Current = marker.chain
<1>1. TypeOK /\ FilesFilled /\ BackupWhole BY DEF MigrationInv, FilesOK
<1>2. Untouched \/ Touched BY DEF MigrationInv, Shows
<1>3. CASE Untouched
  <2>1. \A n \in Range(marker.names) \cup {Metadata} : live[n] = backup[n]
    BY <1>1, <1>3 DEF Untouched, BackupWhole
  <2>2. QED BY <1>1, <2>1, AsSaved DEF Cleared
<1>4. CASE Touched
  <2>1. marker.chain = <<>> /\ Present("json") = {} BY <1>4 DEF Touched, Cleared
  <2>2. Numbered("json", Present("json")) = <<>> BY <2>1, PresentIs, NumberedType
  <2>3. Current = <<>> BY <1>1, <2>2, JsonsHold, JoinedNone DEF Cleared
  <2>4. QED BY <2>1, <2>3
<1>5. QED BY <1>2, <1>3, <1>4

-----------------------------------------------------------------------------
(* The directory in any order.                                              *)
LEMMA OrderIs ==
    ASSUME NEW S, IsFiniteSet(S), NEW order \in SetToSeqs(S)
    PROVE  order \in Seq(S) /\ {order[i] : i \in 1..Len(order)} = S
<1> DEFINE c == Cardinality(S)
<1>1. c \in Nat BY FS_CardinalityType
<1>2. order \in [1..c -> S] /\ \A i, j \in 1..c : i # j => order[i] # order[j]
  BY DEF SetToSeqs
<1>3. Cardinality(1..c) = c BY <1>1, CardinalityTo
<1> HIDE DEF c
<1>4. order \in Injection(1..c, S)
  <2>1. DOMAIN order = 1..c BY <1>2
  <2>2. QED BY <1>2, <2>1 DEF Injection, IsInjective
<1>5. order \in Surjection(1..c, S)
  BY <1>3, <1>4, FS_Injection DEF c
<1>6. order \in Seq(S) /\ Len(order) = c BY <1>1, <1>2
<1>7. \A n \in S : \E i \in 1..c : order[i] = n BY <1>5 DEF Surjection
<1>8. \A i \in 1..c : order[i] \in S BY <1>2
<1>9. {order[i] : i \in 1..Len(order)} = S BY <1>6, <1>7, <1>8
<1>10. QED BY <1>6, <1>9

LEMMA ToClearIs ==
    /\ IsFiniteSet(ToClear)
    /\ ToClear \subseteq Ndjsons \cup {Sidecars}
    /\ \A n \in Ndjsons \cup {Sidecars} : live[n] # Absent => n \in ToClear
<1> DEFINE P == Present("ndjson")
           f == [k \in P |-> Segment("ndjson", k)]
           N == {Segment("ndjson", k) : k \in P}
           T == IF live[Sidecars] = Absent THEN {} ELSE {Sidecars}
<1>1. IsFiniteSet(P) /\ \A k \in P : k \in 1..MaxEvents BY PresentIs, NumberedType
<1>2. \A k \in 1..MaxEvents : live[Segment("ndjson", k)] # Absent => k \in P BY DEF Present
<1>3. ToClear = N \cup T BY DEF ToClear
<1>4. f \in Surjection(P, N)
  <2> HIDE DEF P
  <2>1. QED BY DEF Surjection
<1> HIDE DEF P, f
<1>5. IsFiniteSet(N) BY <1>1, <1>4, FS_Surjection
<1>6. IsFiniteSet(T) BY FS_EmptySet, FS_Singleton
<1>7. IsFiniteSet(N \cup T)
  <2> HIDE DEF N, T
  <2>1. QED BY <1>5, <1>6, FS_Union
<1>8. N \cup T \subseteq Ndjsons \cup {Sidecars} BY <1>1, Names
<1>9. \A n \in Ndjsons \cup {Sidecars} : live[n] # Absent => n \in N \cup T
  BY <1>2 DEF Ndjsons
<1>10. QED BY <1>3, <1>7, <1>8, <1>9

LEMMA RemovalsAre ==
    ASSUME NEW S \in SUBSET Name, NEW names \in Seq(S)
    PROVE  /\ Each("remove", names) \in Seq(Removals(S)) /\ Each("remove", names) \in Seq(FileCall)
           /\ Named(Each("remove", names)) = {names[i] : i \in 1..Len(names)}
<1> DEFINE D == [do : {"remove"}, name : S, content : {Absent}]
           e == Each("remove", names)
<1>1. e \in Seq(D) /\ Named(e) = {names[i] : i \in 1..Len(names)} BY EachType DEF Do
<1>2. D \subseteq Removals(S) /\ D \subseteq FileCall BY AbsentIs DEF Removals, FileCall, Do
<1> HIDE DEF D, e
<1>3. e \in Seq(Removals(S)) /\ e \in Seq(FileCall) BY <1>1, <1>2, SeqMonotonic
<1>4. QED BY <1>1, <1>3 DEF e

LEMMA ClearStep ==
    ASSUME MigrationInv, NEW p \in Operator, Clear(p)
    PROVE  MigrationInv' /\ Effective' = Effective
<1>1. op[p].at = "clear" BY DEF Clear, At
<1>2. PICK order \in SetToSeqs(ToClear) : Enter(p, "clearSnapshots", Each("remove", order))
  BY DEF Clear
<1>3. order \in Seq(ToClear) /\ {order[i] : i \in 1..Len(order)} = ToClear
  BY ToClearIs, OrderIs
<1>4. order \in Seq(Ndjsons \cup {Sidecars}) BY <1>3, ToClearIs, SeqMonotonic
<1> DEFINE todo == Each("remove", order)
<1>5. Ndjsons \cup {Sidecars} \in SUBSET Name BY Names
<1>6. /\ todo \in Seq(Removals(Ndjsons \cup {Sidecars})) /\ todo \in Seq(FileCall)
      /\ Named(todo) = ToClear
  BY <1>3, <1>4, <1>5, RemovalsAre
<1> HIDE DEF todo
<1>7. Clearing(todo) BY <1>6, ToClearIs DEF Clearing
<1>8. JobOK("clearSnapshots", todo, op[p].plan)
  BY <1>1, <1>7 DEF MigrationInv, OpOK, Due, JobOK, Restoring
<1>9. Enter(p, "clearSnapshots", todo) /\ UNCHANGED <<files, lease, outcome, history>>
  BY <1>2 DEF Clear, todo
<1>10. QED BY <1>1, <1>6, <1>8, <1>9, Enters DEF Working, Migrating, Restoring

LEMMA SnapshotsAre ==
    /\ Snapshots \in Seq({Part, Manifest})
    /\ Range(Snapshots) = {n \in {Part, Manifest} : live[n] # Absent}
<1> DEFINE a == IF live[Part] = Absent THEN <<>> ELSE <<Part>>
           b == IF live[Manifest] = Absent THEN <<>> ELSE <<Manifest>>
<1>1. a \in Seq({Part, Manifest}) /\ b \in Seq({Part, Manifest})
  <2> DEFINE S == {Part, Manifest}
  <2>1. <<>> \in Seq(S) BY EmptySeq
  <2>2. <<Part>> \in Seq(S) /\ <<Manifest>> \in Seq(S) OBVIOUS
  <2> HIDE DEF S
  <2>3. a \in Seq(S) /\ b \in Seq(S) BY <2>1, <2>2
  <2>4. QED BY <2>3 DEF S
<1>2. Range(a) = (IF live[Part] = Absent THEN {} ELSE {Part})
      /\ Range(b) = (IF live[Manifest] = Absent THEN {} ELSE {Manifest})
  BY DEF Range
<1>3. Snapshots = a \o b BY DEF Snapshots
<1> HIDE DEF a, b
<1>4. a \o b \in Seq({Part, Manifest}) /\ Range(a \o b) = Range(a) \cup Range(b)
  BY <1>1, ConcatProperties, RangeConcatenation
<1>5. QED BY <1>2, <1>3, <1>4

LEMMA ClearSnapshotsStep ==
    ASSUME MigrationInv, NEW p \in Operator, ClearSnapshots(p)
    PROVE  MigrationInv' /\ Effective' = Effective
<1>1. op[p].at = "clearSnapshots" /\ op[p].todo = <<>> BY DEF ClearSnapshots, At
<1>2. /\ Clearing(<<>>) /\ marker.set /\ marker = op[p].plan
  BY <1>1 DEF MigrationInv, OpOK, Due, JobOK, Restoring
<1>3. Named(<<>>) = {} BY DEF Named
<1>4. Cleared BY <1>2, <1>3, Names DEF Clearing, Cleared, Present
<1> DEFINE todo == Each("remove", Snapshots)
<1>5. {Part, Manifest} \in SUBSET Name BY Names
<1>6. todo \in Seq(Removals({Part, Manifest})) /\ todo \in Seq(FileCall)
  BY <1>5, SnapshotsAre, RemovalsAre
<1>7. Enter(p, "restore", todo) /\ UNCHANGED <<files, lease, outcome, history>> BY DEF ClearSnapshots
<1> HIDE DEF todo
<1>8. JobOK("restore", todo, op[p].plan) BY <1>2, <1>4, <1>6 DEF JobOK, Restoring
<1>9. QED BY <1>1, <1>6, <1>7, <1>8, Enters DEF Working, Migrating, Restoring

LEMMA RestoreStep ==
    ASSUME MigrationInv, NEW p \in Operator, Restore(p)
    PROVE  MigrationInv' /\ Effective' = Effective
<1>1. op[p].at = "restore" BY DEF Restore, At
<1>2. Cleared /\ marker.set /\ marker = op[p].plan
  BY <1>1 DEF MigrationInv, OpOK, Due, JobOK, Restoring
<1> DEFINE names == op[p].plan.names
           all == Append(names, Metadata)
           S == Range(names) \cup {Metadata}
           todo == Each("restore", all)
           D == [do : {"restore"}, name : S, content : File]
<1>3. names \in Seq(Name) BY JobIs DEF MigrationInv, Plan
<1>4. names \in Seq(Range(names)) /\ Range(names) = {names[i] : i \in 1..Len(names)}
      /\ Range(names) \subseteq Name
  BY <1>3, SeqOfRange, RangeEquality, RangeOfSeq
<1>5. names \in Seq(S) BY <1>4, SeqMonotonic
<1> HIDE DEF names
<1>6. /\ all \in Seq(S) /\ Len(all) = Len(names) + 1 /\ Len(names) \in Nat
      /\ \A i \in 1..Len(names) : all[i] = names[i]
      /\ all[Len(names) + 1] = Metadata
  BY <1>5, AppendProperties
<1> HIDE DEF all
<1>7. {all[i] : i \in 1..Len(all)} = S
  <2>1. ASSUME NEW n \in S PROVE \E i \in 1..Len(all) : all[i] = n
    <3>1. CASE n = Metadata BY <3>1, <1>6
    <3>2. CASE n # Metadata
      <4>1. PICK i \in 1..Len(names) : names[i] = n BY <3>2, <1>4
      <4>2. i \in 1..Len(all) /\ all[i] = n BY <4>1, <1>6
      <4>3. QED BY <4>2
    <3>3. QED BY <3>1, <3>2
  <2>2. \A i \in 1..Len(all) : all[i] \in S BY <1>6, ElementOfSeq
  <2>3. QED BY <2>1, <2>2
<1>8. S \in SUBSET Name BY <1>4, Names
<1> HIDE DEF S
<1>9. /\ todo \in Seq([do : {"restore"}, name : S, content : {Absent}])
      /\ Named(todo) = S
  BY <1>6, <1>7, <1>8, EachType DEF Do
<1>10. /\ [do : {"restore"}, name : S, content : {Absent}] \subseteq D
       /\ D \subseteq FileCall
  BY <1>8, AbsentIs DEF FileCall, Do
<1>11. Enter(p, "validate", todo) /\ UNCHANGED <<files, lease, outcome, history>>
  BY DEF Restore, all, names
<1> HIDE DEF todo, D
<1>12. todo \in Seq(D) /\ todo \in Seq(FileCall) BY <1>9, <1>10, SeqMonotonic
<1>13. Restored(todo, names) BY <1>9, <1>12 DEF Restored, D, S
<1>14. JobOK("validate", todo, op[p].plan) BY <1>2, <1>13 DEF JobOK, Restoring, names
<1>15. QED BY <1>1, <1>11, <1>12, <1>14, Enters DEF Working, Migrating, Restoring

LEMMA ValidateStep ==
    ASSUME MigrationInv, NEW p \in Operator, Validate(p)
    PROVE  MigrationInv' /\ Effective' = Effective
<1>1. CASE ~Valid BY <1>1, Finishes DEF Validate
<1>2. CASE Valid
  <2>1. op[p].at = "validate" /\ op[p].todo = <<>> BY DEF Validate, At
  <2>2. /\ Cleared /\ marker.set /\ marker = op[p].plan /\ Restored(<<>>, op[p].plan.names)
    BY <2>1 DEF MigrationInv, OpOK, Due, JobOK, Restoring
  <2>3. Named(<<>>) = {} BY DEF Named
  <2>4. \A n \in Range(marker.names) \cup {Metadata} : live[n] = backup[n]
    BY <2>2, <2>3 DEF Restored
  <2>5. Current = marker.chain
    BY <1>2, <2>2, <2>4, AsSaved DEF MigrationInv, FilesOK, Valid, Cleared
  <2> DEFINE u == <<Call("unmark", Metadata, Absent)>>
             names == <<Metadata>> \o op[p].plan.names
             todo == u \o Each("forget", names)
             D == [do : {"unmark", "discard", "forget"}, name : Name, content : File]
  <2>6. u \in Seq(D) /\ u # <<>> /\ Head(u).do = "unmark" BY Names, AbsentIs DEF Call
  <2>7. names \in Seq(Name)
    <3>1. op[p].plan.names \in Seq(Name) BY JobIs DEF MigrationInv, Plan
    <3>2. QED BY <3>1, Names, ConcatProperties
  <2>8. Enter(p, "forget", todo) /\ UNCHANGED <<files, lease, outcome, history>>
    BY <1>2 DEF Validate
  <2> HIDE DEF names
  <2>9. Each("forget", names) \in Seq([do : {"forget"}, name : Name, content : {Absent}])
    BY <2>7, EachType DEF Do
  <2>10. [do : {"forget"}, name : Name, content : {Absent}] \subseteq D BY AbsentIs
  <2> HIDE DEF D, u
  <2>11. Each("forget", names) \in Seq(D) BY <2>9, <2>10, SeqMonotonic
  <2>12. todo \in Seq(D) /\ todo # <<>> /\ Head(todo).do = "unmark" BY <2>6, <2>11, Nonempty
  <2>13. todo \in Seq(FileCall) BY <2>12, ReleasesAre, SeqMonotonic DEF D
  <2> HIDE DEF todo
  <2>14. Releasing(todo) BY <1>2, <2>5, <2>12 DEF Releasing, Valid, D
  <2>15. JobOK("forget", todo, op[p].plan) BY <2>14 DEF JobOK, Restoring
  <2>16. QED BY <2>1, <2>8, <2>13, <2>15, Enters DEF Working, Migrating, Restoring
<1>3. QED BY <1>1, <1>2

-----------------------------------------------------------------------------
LEMMA Division ==
    ASSUME NEW a \in Nat, NEW b \in Nat \ {0}
    PROVE  \E q \in Nat : /\ (a + b - 1) \div b = q /\ q * b >= a /\ q <= a
                          /\ a > 0 => q > 0 /\ (q - 1) * b < a
                          /\ a = 0 => q = 0
<1> DEFINE x == a + b - 1
           q == x \div b
           r == x % b
<1>1. x \in Nat OBVIOUS
<1>2. q \in Nat /\ r \in 0 .. b - 1 /\ x = b * q + r BY <1>1
<1> HIDE DEF q, r
<1>3. b * q = q * b BY <1>2
<1>4. q * b >= a BY <1>2, <1>3
<1>5. a > 0 => q > 0
  <2>1. SUFFICES ASSUME a > 0, q = 0 PROVE FALSE BY <1>2
  <2>2. q * b = 0 BY <2>1
  <2>3. QED BY <2>1, <2>2, <1>4
<1>6. (q - 1) * b < a
  <2>1. (q - 1) * b = q * b - b BY <1>2
  <2>2. QED BY <2>1, <1>2, <1>3
<1>7. q <= a
  <2>1. SUFFICES ASSUME q > a PROVE FALSE BY <1>2
  <2>2. q - 1 \in Nat /\ q - 1 >= a BY <2>1, <1>2
  <2>3. (q - 1) * b >= q - 1 BY <2>2
  <2>4. QED BY <2>2, <2>3, <1>6
<1>8. a = 0 => q = 0 BY <1>2, <1>7
<1>9. QED BY <1>2, <1>4, <1>5, <1>6, <1>7, <1>8 DEF q

(* The pieces of a chain are not empty, and there are any when it is not.   *)
LEMMA PackedIs ==
    ASSUME NEW c \in Chains
    PROVE  /\ Packed(c) \in Seq(Chains \ {<<>>})
           /\ Len(Packed(c)) <= Len(c)
           /\ c # <<>> => Packed(c) # <<>>
<1>1. Len(c) \in Nat /\ (c # <<>> => Len(c) > 0) BY EmptySeq DEF Chains
<1>2. Wide \in Nat \ {0} BY Constants
<1>3. PICK count \in Nat : /\ (Len(c) + Wide - 1) \div Wide = count /\ count * Wide >= Len(c)
                           /\ count <= Len(c)
                           /\ Len(c) > 0 => count > 0 /\ (count - 1) * Wide < Len(c)
                           /\ Len(c) = 0 => count = 0
  BY <1>1, <1>2, Division
<1> DEFINE end(k) == IF k = count THEN Len(c) ELSE k * Wide
           piece(k) == SubSeq(c, (k - 1) * Wide + 1, end(k))
<1>4. Packed(c) = [k \in 1..count |-> piece(k)] BY <1>3 DEF Packed
<1>5. ASSUME NEW k \in 1..count PROVE piece(k) \in Chains \ {<<>>}
  <2> DEFINE m == (k - 1) * Wide + 1
             n == end(k)
  <2>1. k - 1 \in Nat /\ (k - 1) * Wide \in Nat /\ k * Wide \in Nat /\ k * Wide = (k - 1) * Wide + Wide
    BY <1>2
  <2>2. Len(c) > 0 /\ (count - 1) * Wide < Len(c) BY <1>3, <1>1
  <2>3. m \in Nat /\ n \in Nat /\ 1 <= m /\ m <= n /\ n <= Len(c)
    <3>1. CASE k = count
      <4>1. n = Len(c) BY <3>1
      <4>2. (k - 1) * Wide < Len(c) BY <2>2, <3>1
      <4>3. QED BY <4>1, <4>2, <2>1, <1>1
    <3>2. CASE k # count
      <4>1. n = k * Wide BY <3>2
      <4>2. m <= n BY <4>1, <2>1, <1>2
      <4>3. k <= count - 1 BY <3>2
      <4>4. count - 1 - k \in Nat BY <4>3
      <4>5. (count - 1) * Wide = k * Wide + (count - 1 - k) * Wide /\ (count - 1 - k) * Wide \in Nat
        BY <4>4, <1>2
      <4>6. QED BY <4>1, <4>2, <4>5, <2>1, <2>2, <1>1
    <3>3. QED BY <3>1, <3>2
  <2> HIDE DEF m, n
  <2>4. \A i \in m..n : c[i] \in Events
    <3>1. \A i \in m..n : i \in 1..Len(c) BY <2>3, <1>1
    <3>2. QED BY <3>1, ElementOfSeq DEF Chains
  <2>5. SubSeq(c, m, n) \in Seq(Events) /\ Len(SubSeq(c, m, n)) = n - m + 1
    BY <2>3, <2>4, SubSeqProperties
  <2>6. Len(<<>>) = 0 OBVIOUS
  <2>7. SubSeq(c, m, n) # <<>> BY <2>3, <2>5, <2>6
  <2>8. QED BY <2>5, <2>7 DEF m, n, Chains
<1> HIDE DEF piece
<1>6. [k \in 1..count |-> piece(k)] \in Seq(Chains \ {<<>>})
  <2> DEFINE S == Chains \ {<<>>}
  <2>1. \A k \in 1..count : piece(k) \in S BY <1>5
  <2> HIDE DEF S
  <2>2. [k \in 1..count |-> piece(k)] \in Seq(S) BY <2>1
  <2>3. QED BY <2>2 DEF S
<1>7. Len([k \in 1..count |-> piece(k)]) = count OBVIOUS
<1>8. count > 0 => [k \in 1..count |-> piece(k)] # <<>> BY <1>7
<1>9. QED BY <1>1, <1>3, <1>4, <1>6, <1>7, <1>8

(* The names a migration saves are those that are there.                    *)
LEMMA NamesSaved ==
    ASSUME TypeOK, FilesFilled, Readable, Cleared, NEW names, names = Listed("json") \o Snapshots
    PROVE  /\ names \in Seq(Name)
           /\ Range(names) \subseteq Olds
           /\ \A n \in Olds : live[n] # Absent <=> n \in Range(names)
<1> DEFINE s == Listed("json")
           c == Cardinality(Present("json"))
<1>1. /\ s \in Seq(Name) /\ Len(s) = c /\ c \in Nat
      /\ \A k \in 1..c : k \in 1..MaxEvents /\ s[k] = Segment("json", k)
  BY PresentIs, NumberedType DEF Listed
<1>2. Present("json") = 1..c
  <2>1. CASE Version = 1 BY <2>1, VersionIs DEF Readable
  <2>2. CASE Version = 2
    <3>1. Present("json") = {} BY <2>2, VersionIs DEF Readable
    <3>2. QED BY <3>1, FS_EmptySet
  <2>3. QED BY <2>1, <2>2, VersionIs
<1>3. \A k : k \in 1..c <=> k \in 1..MaxEvents /\ live[Segment("json", k)] # Absent
  BY <1>2 DEF Present
<1> HIDE DEF s, c
<1>4. Range(s) = {s[k] : k \in 1..c} BY <1>1, RangeEquality
<1>5. \A n \in Jsons : live[n] # Absent <=> n \in Range(s)
  <2>1. ASSUME NEW n \in Jsons, live[n] # Absent PROVE n \in Range(s)
    <3>1. PICK k \in 1..MaxEvents : n = Segment("json", k) BY DEF Jsons
    <3>2. k \in 1..c /\ s[k] = n BY <1>1, <1>3, <2>1, <3>1
    <3>3. QED BY <3>2, <1>4
  <2>2. ASSUME NEW n \in Range(s) PROVE live[n] # Absent
    <3>1. PICK k \in 1..c : n = s[k] BY <1>4
    <3>2. QED BY <3>1, <1>1, <1>3
  <2>3. QED BY <2>1, <2>2
<1>6. Range(s) \subseteq Jsons BY <1>1, <1>4, Names
<1>7. Snapshots \in Seq(Name) /\ Range(Snapshots) = {n \in {Part, Manifest} : live[n] # Absent}
  <2>1. {Part, Manifest} \subseteq Name BY Names
  <2>2. QED BY <2>1, SnapshotsAre, SeqMonotonic
<1>8. s \o Snapshots \in Seq(Name) /\ Range(s \o Snapshots) = Range(s) \cup Range(Snapshots)
  BY <1>1, <1>7, ConcatProperties, RangeConcatenation
<1>9. names = s \o Snapshots BY DEF s
<1>10. Part \notin Jsons /\ Manifest \notin Jsons BY Names
<1>11. QED BY <1>5, <1>6, <1>7, <1>8, <1>9, <1>10 DEF Olds

LEMMA OneMore ==
    ASSUME NEW S, NEW x \in S, NEW b \in Seq(S)
    PROVE  /\ <<x>> \o b \in Seq(S) /\ Len(<<x>> \o b) = 1 + Len(b) /\ Len(b) \in Nat
           /\ (<<x>> \o b)[1] = x
           /\ \A i \in 1..Len(b) : (<<x>> \o b)[i + 1] = b[i]
<1> DEFINE a == <<x>>
           s == a \o b
<1>1. a \in Seq(S) /\ Len(a) = 1 /\ a[1] = x /\ Len(b) \in Nat OBVIOUS
<1> HIDE DEF a
<1>2. /\ s \in Seq(S) /\ Len(s) = Len(a) + Len(b)
      /\ \A i \in 1 .. Len(a) + Len(b) : s[i] = IF i <= Len(a) THEN a[i] ELSE b[i - Len(a)]
  BY <1>1, ConcatProperties
<1> HIDE DEF s
<1>3. s[1] = x BY <1>1, <1>2
<1>4. ASSUME NEW i \in 1..Len(b) PROVE s[i + 1] = b[i]
  <2>1. i + 1 \in 1 .. 1 + Len(b) /\ ~(i + 1 <= 1) /\ (i + 1) - 1 = i BY <1>1
  <2>2. QED BY <1>1, <1>2, <2>1
<1>5. QED BY <1>1, <1>2, <1>3, <1>4 DEF s, a

LEMMA SavesType ==
    ASSUME NEW names \in Seq(Name), TypeOK
    PROVE  LET saves == <<Call("save", Metadata, live[Metadata])>> \o
                        [i \in 1..Len(names) |-> Call("save", names[i], live[names[i]])]
           IN  /\ saves \in Seq(Saves(names))
               /\ Range(names) \cup {Metadata} \subseteq Named(saves)
<1> DEFINE x == Call("save", Metadata, live[Metadata])
           b == [i \in 1..Len(names) |-> Call("save", names[i], live[names[i]])]
           S == Saves(names)
           s == <<x>> \o b
<1>1. \A n \in Range(names) \cup {Metadata} : Call("save", n, live[n]) \in S
  <2>1. Range(names) \cup {Metadata} \subseteq Name BY RangeOfSeq, Names
  <2>2. QED BY <2>1 DEF Saves, Call, FileCall, Do, TypeOK, Directory
<1>2. Len(names) \in Nat /\ Range(names) = {names[i] : i \in 1..Len(names)} BY RangeEquality
<1> HIDE DEF S
<1>3. x \in S /\ x.name = Metadata BY <1>1 DEF Call
<1>4. b \in Seq(S) /\ Len(b) = Len(names) /\ \A i \in 1..Len(names) : b[i].name = names[i]
  BY <1>1, <1>2 DEF Call
<1> HIDE DEF x, b
<1>5. /\ s \in Seq(S) /\ Len(s) = 1 + Len(names)
      /\ s[1] = x /\ \A i \in 1..Len(names) : s[i + 1] = b[i]
  BY <1>3, <1>4, OneMore
<1> HIDE DEF s
<1>6. Metadata \in Named(s)
  <2>1. 1 \in 1..Len(s) BY <1>2, <1>5
  <2>2. QED BY <2>1, <1>3, <1>5 DEF Named
<1>7. ASSUME NEW n \in Range(names) PROVE n \in Named(s)
  <2>1. PICK i \in 1..Len(names) : n = names[i] BY <1>2
  <2>2. i + 1 \in 1..Len(s) BY <1>2, <1>5
  <2>3. QED BY <2>1, <2>2, <1>4, <1>5 DEF Named
<1>8. QED BY <1>5, <1>6, <1>7 DEF s, x, b, S

(* The files a rewrite writes, and those it removes.                        *)
LEMMA WritesType ==
    ASSUME NEW c \in Chains, Len(c) <= MaxEvents, NEW names \in Seq(Olds)
    PROVE  LET writes == [k \in 1..Len(Packed(c)) |-> Put(Segment("ndjson", k), Has(2, Packed(c)[k]))]
                         \o Each("remove", names)
           IN  /\ writes \in Seq(Writes)
               /\ c # <<>> => writes # <<>> /\ Head(writes).do = "put"
<1> DEFINE m == Packed(c)
           a == [k \in 1..Len(m) |-> Put(Segment("ndjson", k), Has(2, m[k]))]
           b == Each("remove", names)
<1>1. /\ m \in Seq(Chains \ {<<>>}) /\ Len(m) \in Nat /\ Len(m) <= MaxEvents
      /\ c # <<>> => m # <<>>
  <2>1. Len(c) \in Nat /\ Len(m) \in Nat BY PackedIs, EmptySeq DEF Chains
  <2>2. QED BY <2>1, PackedIs, Constants
<1> HIDE DEF m
<1>2. ASSUME NEW k \in 1..Len(m) PROVE Put(Segment("ndjson", k), Has(2, m[k])) \in Writes
  <2>1. m[k] \in Chains /\ m[k] # <<>> BY <1>1, ElementOfSeq
  <2>2. Has(2, m[k]) \in Full BY <2>1, HasIs DEF Full
  <2>3. k \in 1..MaxEvents BY <1>1, Constants
  <2>4. Segment("ndjson", k) \in Ndjsons BY <2>3, Names
  <2>5. QED BY <2>2, <2>4 DEF Writes, Put, Call
<1>3. a \in Seq(Writes) /\ Len(a) = Len(m) /\ (m # <<>> => a # <<>> /\ a[1].do = "put")
  <2>1. a \in Seq(Writes) /\ Len(a) = Len(m) BY <1>1, <1>2
  <2>2. m # <<>> => Len(m) # 0 /\ 1 \in 1..Len(m) BY <1>1, EmptySeq
  <2>3. m # <<>> => a[1].do = "put" BY <2>2 DEF Put, Call
  <2>4. Len(<<>>) = 0 OBVIOUS
  <2>5. QED BY <2>1, <2>2, <2>3, <2>4
<1>4. b \in Seq(Writes)
  <2> DEFINE D == [do : {"remove"}, name : Olds, content : {Absent}]
  <2>1. Olds \in SUBSET Name BY Names DEF Olds
  <2>2. b \in Seq(D) BY <2>1, EachType DEF Do
  <2>3. D \subseteq Writes BY DEF Writes
  <2> HIDE DEF D, b
  <2>4. QED BY <2>2, <2>3, SeqMonotonic
<1> HIDE DEF a, b
<1>5. a \o b \in Seq(Writes) BY <1>3, <1>4, ConcatProperties
<1>6. ASSUME c # <<>> PROVE a \o b # <<>> /\ Head(a \o b).do = "put"
  <2>1. a # <<>> /\ a[1].do = "put" BY <1>1, <1>3, <1>6
  <2>2. a \o b # <<>> /\ Head(a \o b) = Head(a) BY <1>3, <1>4, <2>1, Nonempty
  <2>3. Head(a) = a[1] OBVIOUS
  <2>4. QED BY <2>1, <2>2, <2>3
<1>7. QED BY <1>5, <1>6 DEF a, b, m

(* Six sequences in a row, in two parentheses.                              *)
Regroups(a, b, c, d, e, f) == a \o b \o c \o d \o e \o f = (a \o b) \o (c \o ((d \o e) \o f))

LEMMA Regrouped ==
    ASSUME NEW S, NEW a, NEW b, NEW c, NEW d, NEW e, NEW f, {a, b, c, d, e, f} \subseteq Seq(S)
    PROVE  Regroups(a, b, c, d, e, f)
<1> DEFINE x == a \o b
           y == x \o c
           v == d \o e
           w == v \o f
<1>1. c \in Seq(S) OBVIOUS
<1>2. d \in Seq(S) OBVIOUS
<1>3. e \in Seq(S) OBVIOUS
<1>4. f \in Seq(S) OBVIOUS
<1>5. x \in Seq(S) BY ConcatProperties
<1>6. v \in Seq(S) BY ConcatProperties
<1> HIDE DEF x, v
<1>7. y \in Seq(S) BY ONLY <1>1, <1>5, ConcatProperties
<1>8. w \in Seq(S) BY ONLY <1>4, <1>6, ConcatProperties
<1> HIDE DEF y, w
<1>9. (y \o d) \o e = y \o (d \o e) BY ONLY <1>2, <1>3, <1>7, ConcatAssociative
<1>10. (y \o v) \o f = y \o (v \o f) BY ONLY <1>4, <1>6, <1>7, ConcatAssociative
<1>11. (x \o c) \o w = x \o (c \o w) BY ONLY <1>1, <1>5, <1>8, ConcatAssociative
<1>12. ((y \o d) \o e) \o f = x \o (c \o w)
  BY ONLY <1>9, <1>10, <1>11, Zenon DEF y, v, w
<1>13. QED BY <1>12 DEF x, y, v, w, Regroups

-----------------------------------------------------------------------------
(* An operation that may rewrite looks at the chain there is.               *)
LEMMA StillEffective ==
    ASSUME MigrationInv, NEW p \in Operator, op[p].at \in Migrating, Readable, Cleared
    PROVE  /\ Effective = Current /\ Current \in Chains /\ Len(Current) <= MaxEvents
           /\ marker.set => marker.chain = Current
<1>1. marker.set => marker.chain = Current BY StillThere
<1>2. marker.set => marker.chain = Effective BY DEF MigrationInv, FilesOK, BackupWhole
<1>3. Effective = Current BY <1>1, <1>2 DEF Effective
<1>4. Current \in Chains BY ChainTypes DEF MigrationInv
<1>5. Len(Current) <= issued /\ issued \in 0..MaxEvents BY <1>3 DEF MigrationInv, FilesOK, TypeOK
<1>6. Len(Current) <= MaxEvents BY <1>4, <1>5, ChainIs, Constants
<1>7. QED BY <1>1, <1>3, <1>4, <1>6

(* The calls of a rewrite, up to the mark and after it.                     *)
LEMMA RewriteIs ==
    ASSUME TypeOK, NEW c \in Chains, Len(c) <= MaxEvents, NEW names \in Seq(Olds)
    PROVE  /\ Rewrite(names, c) \in Seq(FileCall)
           /\ \E s \in Seq(Saves(names)), t \in Seq(Writes) :
                 /\ Rewrite(names, c) = s \o (<<Mark>> \o (t \o Ending))
                 /\ c # <<>> => t # <<>> /\ Head(t).do = "put"
                 /\ Range(names) \cup {Metadata} \subseteq Named(s)
<1> DEFINE C == FileCall
           save(n) == Call("save", n, live[n])
           u == <<save(Metadata)>>
           b == [i \in 1..Len(names) |-> save(names[i])]
           d == [k \in 1..Len(Packed(c)) |-> Put(Segment("ndjson", k), Has(2, Packed(c)[k]))]
           e == Each("remove", names)
           m == <<Mark>>
           s == u \o b
           t == d \o e
<1>1. names \in Seq(Name) BY Names, SeqMonotonic DEF Olds
<1>2. s \in Seq(Saves(names)) /\ Range(names) \cup {Metadata} \subseteq Named(s) BY <1>1, SavesType
<1>3. t \in Seq(Writes) /\ (c # <<>> => t # <<>> /\ Head(t).do = "put") BY WritesType
<1>4. u \in Seq(C) /\ b \in Seq(C)
  <2>1. \A n \in Name : save(n) \in C BY DEF Call, FileCall, Do, TypeOK, Directory
  <2>2. Metadata \in Name BY Names
  <2>3. Len(names) \in Nat /\ \A i \in 1..Len(names) : names[i] \in Name BY <1>1, ElementOfSeq
  <2> HIDE DEF save, C
  <2>4. QED BY <2>1, <2>2, <2>3
<1>5. d \in Seq(C) /\ e \in Seq(C)
  <2>1. d \in Seq(C)
    <3>1. Packed(c) \in Seq(Chains \ {<<>>}) /\ Len(Packed(c)) <= Len(c) /\ Len(c) \in Nat
      BY PackedIs, ChainIs
    <3>2. Len(Packed(c)) \in Nat /\ Len(Packed(c)) <= MaxEvents BY <3>1, Constants
    <3>3. ASSUME NEW k \in 1..Len(Packed(c))
          PROVE  Put(Segment("ndjson", k), Has(2, Packed(c)[k])) \in C
      <4>1. Packed(c)[k] \in Chains BY <3>1, ElementOfSeq
      <4>2. Has(2, Packed(c)[k]) \in File BY <4>1, HasIs
      <4>3. k \in 1..MaxEvents BY <3>2, Constants
      <4>4. Segment("ndjson", k) \in Name BY <4>3, Names
      <4>5. QED BY <4>2, <4>4 DEF Put, Call, FileCall, Do
    <3> HIDE DEF C
    <3>4. QED BY <3>2, <3>3
  <2>2. e \in Seq(C)
    <3>1. e \in Seq(Removals(Name)) /\ e \in Seq(FileCall) BY <1>1, RemovalsAre
    <3>2. QED BY <3>1
  <2>3. QED BY <2>1, <2>2
<1>6. m \in Seq(C) /\ Ending \in Seq(C) BY EndingIs
<1>7. Rewrite(names, c) = u \o b \o m \o d \o e \o Ending BY DEF Rewrite, Mark, Ending
<1> HIDE DEF C, u, b, m, d, e
<1>8. u \o b \o m \o d \o e \o Ending = (u \o b) \o (m \o ((d \o e) \o Ending))
  <2>1. {u, b, m, d, e, Ending} \subseteq Seq(C) BY <1>4, <1>5, <1>6
  <2>2. Regroups(u, b, m, d, e, Ending) BY ONLY <2>1, Regrouped
  <2>3. QED BY ONLY <2>2 DEF Regroups
<1>9. u \o b \in Seq(C) /\ d \o e \in Seq(C) BY <1>4, <1>5, ConcatProperties
<1>10. (d \o e) \o Ending \in Seq(C) BY <1>6, <1>9, ConcatProperties
<1>11. m \o ((d \o e) \o Ending) \in Seq(C) BY <1>6, <1>10, ConcatProperties
<1>12. (u \o b) \o (m \o ((d \o e) \o Ending)) \in Seq(C) BY <1>9, <1>11, ConcatProperties
<1>13. Rewrite(names, c) \in Seq(C) BY <1>7, <1>8, <1>12
<1>14. Rewrite(names, c) = s \o (<<Mark>> \o (t \o Ending)) BY <1>7, <1>8 DEF m
<1>15. QED BY <1>2, <1>3, <1>13, <1>14 DEF C

LEMMA PrepareStep ==
    ASSUME MigrationInv, NEW p \in Operator, Prepare(p)
    PROVE  MigrationInv' /\ Effective' = Effective
<1>1. op[p].at = "prepare" BY DEF Prepare, At
<1>2. CASE ~(Readable /\ Present("ndjson") = {} /\ live[Sidecars] = Absent)
  BY <1>2, Finishes DEF Prepare
<1>3. CASE Readable /\ Present("ndjson") = {} /\ live[Sidecars] = Absent
  <2> DEFINE names == Listed("json") \o Snapshots
             c == Current
             plan == [set |-> TRUE, names |-> names, chain |-> c]
             todo == Rewrite(names, c)
             job == [at |-> "rewrite", todo |-> todo, plan |-> plan]
  <2>1. Cleared /\ Readable /\ TypeOK /\ FilesFilled BY <1>3 DEF Cleared, MigrationInv, FilesOK
  <2>2. c \in Chains /\ Len(c) <= MaxEvents /\ (marker.set => marker.chain = c)
    BY <1>1, <2>1, StillEffective DEF Migrating
  <2>3. op' = [op EXCEPT ![p] = job] /\ UNCHANGED <<files, lease, outcome, history>>
    BY <1>3 DEF Prepare
  <2>4. /\ names \in Seq(Name) /\ Range(names) \subseteq Olds
        /\ \A n \in Olds : live[n] # Absent <=> n \in Range(names)
    BY <2>1, NamesSaved
  <2> HIDE DEF names
  <2>5. names \in Seq(Olds) BY <2>4, SeqOfRange, SeqMonotonic
  <2>6. todo \in Seq(FileCall) BY <2>1, <2>2, <2>5, RewriteIs
  <2>7. PICK s \in Seq(Saves(names)), t \in Seq(Writes) :
           /\ todo = s \o (<<Mark>> \o (t \o Ending))
           /\ c # <<>> => t # <<>> /\ Head(t).do = "put"
           /\ Range(names) \cup {Metadata} \subseteq Named(s)
    BY <2>1, <2>2, <2>5, RewriteIs
  <2> HIDE DEF todo
  <2>8. Copying(todo, plan) BY <2>1, <2>2, <2>4, <2>7 DEF Copying
  <2>9. plan \in Plan BY <2>2, <2>4 DEF Plan
  <2>10. job \in Job BY <2>6, <2>9 DEF Job, Point, Working
  <2>11. job.at = "rewrite" /\ job.todo = todo /\ job.plan = plan OBVIOUS
  <2> HIDE DEF plan, job
  <2>12. JobOK(job.at, job.todo, job.plan) BY <2>8, <2>11 DEF JobOK, Restoring
  <2>13. QED BY <1>1, <2>3, <2>10, <2>11, <2>12, Turns DEF Working, Migrating, Restoring
<1>4. QED BY <1>2, <1>3

-----------------------------------------------------------------------------
(* What one call of an operation does.                                      *)
LEMMA CallDone ==
    ASSUME MigrationInv, NEW p \in Operator, Work(p), NEW c, c = Head(op[p].todo), ~Impossible(c)
    PROVE  /\ op[p].todo # <<>> /\ c \in FileCall
           /\ op[p].at \in {"rewrite", "checkpoint", "clearSnapshots", "restore", "validate", "cleanup", "forget"}
           /\ op' \in [Operator -> Job] /\ \A q \in Operator \ {p} : op'[q] = op[q]
           /\ op'[p].at = op[p].at /\ op'[p].plan = op[p].plan /\ op'[p].todo = Tail(op[p].todo)
           /\ UNCHANGED <<lease, outcome, acked, issued>>
           /\ c.do \in {"save", "mark", "unmark", "discard", "forget"} => live' = live
           /\ c.do = "put" => live' = [live EXCEPT ![c.name] = c.content]
           /\ c.do = "remove" => live' = [live EXCEPT ![c.name] = Absent]
           /\ c.do = "restore" => /\ live' = [live EXCEPT ![c.name] = backup[c.name]]
                                  /\ backup[c.name] # Absent
           /\ c.do = "index" => /\ live' = [live EXCEPT ![Sidecars] = Has(2, Joined(Listed("ndjson"), live))]
                                /\ Present("json") = {}
           /\ c.do \notin {"save", "discard", "forget"} => backup' = backup
           /\ c.do = "save" => backup' = [backup EXCEPT ![c.name] = c.content]
           /\ c.do \in {"discard", "forget"} => backup' = [backup EXCEPT ![c.name] = Absent]
           /\ c.do \notin {"mark", "unmark"} => marker' = marker
           /\ c.do = "mark" => marker' = op[p].plan
           /\ c.do = "unmark" => marker' = NoMarker
           /\ TypeOK'
<1>1. TypeOK /\ Excluded(p) /\ Due(p) BY DEF MigrationInv, OpOK
<1>2. op[p] \in Job /\ op[p].at \in Point /\ op[p].todo \in Seq(FileCall) /\ op[p].plan \in Plan
  BY <1>1, JobIs
<1>3. op[p].todo # <<>> BY DEF Work
<1>4. c \in FileCall /\ c.do \in Do /\ c.name \in Name /\ c.content \in File /\ Tail(op[p].todo) \in Seq(FileCall)
  <2>1. c \in FileCall /\ Tail(op[p].todo) \in Seq(FileCall) BY <1>2, <1>3
  <2>2. QED BY <2>1 DEF FileCall
<1>5. op[p].at \in {"rewrite", "checkpoint", "clearSnapshots", "restore", "validate", "cleanup", "forget"}
  <2>1. op[p].at # "idle" BY <1>1, <1>3, IdleIs DEF Excluded
  <2>2. op[p].at \notin {"lockToMigrate", "lockToRestore", "prepare", "verify", "clear"}
    BY <1>1, <1>3 DEF Due, JobOK
  <2>3. QED BY <1>2, <2>1, <2>2 DEF Point, Working
<1> DEFINE job == [op[p] EXCEPT !.todo = Tail(op[p].todo)]
<1>6. job \in Job /\ job.at = op[p].at /\ job.plan = op[p].plan /\ job.todo = Tail(op[p].todo)
  BY <1>2, <1>4 DEF Job
<1>7. op' = [op EXCEPT ![p] = job] BY <1>1 DEF Work, TypeOK
<1> HIDE DEF job
<1>8. op' \in [Operator -> Job] /\ op'[p] = job /\ \A q \in Operator \ {p} : op'[q] = op[q]
  BY <1>1, <1>6, <1>7 DEF TypeOK
<1>9. UNCHANGED <<lease, outcome, acked, issued>> BY DEF Work, history
<1>10. live' = CASE c.do = "put"     -> [live EXCEPT ![c.name] = c.content]
                 [] c.do = "remove"  -> [live EXCEPT ![c.name] = Absent]
                 [] c.do = "restore" -> [live EXCEPT ![c.name] = backup[c.name]]
                 [] c.do = "index"   -> [live EXCEPT ![Sidecars] = Has(2, Joined(Listed("ndjson"), live))]
                 [] OTHER            -> live
  BY DEF Work
<1>11. backup' = CASE c.do = "save"                 -> [backup EXCEPT ![c.name] = c.content]
                   [] c.do \in {"discard", "forget"} -> [backup EXCEPT ![c.name] = Absent]
                   [] OTHER                          -> backup
  BY DEF Work
<1>12. marker' = CASE c.do = "mark"   -> op[p].plan
                   [] c.do = "unmark" -> NoMarker
                   [] OTHER           -> marker
  BY DEF Work
<1>13. /\ c.do \in {"save", "mark", "unmark", "discard", "forget"} => live' = live
       /\ c.do = "put" => live' = [live EXCEPT ![c.name] = c.content]
       /\ c.do = "remove" => live' = [live EXCEPT ![c.name] = Absent]
       /\ c.do = "restore" => live' = [live EXCEPT ![c.name] = backup[c.name]]
       /\ c.do = "index" => live' = [live EXCEPT ![Sidecars] = Has(2, Joined(Listed("ndjson"), live))]
  BY <1>10
<1>14. /\ c.do \notin {"save", "discard", "forget"} => backup' = backup
       /\ c.do = "save" => backup' = [backup EXCEPT ![c.name] = c.content]
       /\ c.do \in {"discard", "forget"} => backup' = [backup EXCEPT ![c.name] = Absent]
  BY <1>11
<1>15. /\ c.do \notin {"mark", "unmark"} => marker' = marker
       /\ c.do = "mark" => marker' = op[p].plan
       /\ c.do = "unmark" => marker' = NoMarker
  BY <1>12
<1>16. c.do = "index" => Present("json") = {} BY DEF Impossible
<1>17. c.do = "restore" => backup[c.name] # Absent BY DEF Impossible
<1>18. TypeOK'
  <2>1. live \in Directory /\ backup \in Directory /\ marker \in Plan BY <1>1 DEF TypeOK
  <2>2. Has(2, Joined(Listed("ndjson"), live)) \in File BY <2>1, ListedType, JoinedType, HasIs
  <2>3. live' \in Directory BY <1>4, <1>13, <2>1, <2>2, AbsentIs DEF Directory, Do
  <2>4. backup' \in Directory BY <1>4, <1>14, <2>1, AbsentIs DEF Directory, Do
  <2>5. NoMarker \in Plan BY IdleIs DEF Job
  <2>6. marker' \in Plan BY <1>2, <1>15, <2>1, <2>5
  <2>7. QED BY <1>1, <1>8, <1>9, <2>3, <2>4, <2>6 DEF TypeOK
<1>19. QED BY <1>3, <1>4, <1>5, <1>6, <1>8, <1>9, <1>13, <1>14, <1>15, <1>16, <1>17, <1>18

LEMMA MarkDone ==
    ASSUME MigrationInv, NEW p \in Operator, Work(p), NEW c, c = Head(op[p].todo), ~Impossible(c),
           c.do = "mark"
    PROVE  /\ live' = live /\ backup' = backup /\ marker' = op[p].plan
           /\ op'[p].at = op[p].at /\ op'[p].plan = op[p].plan /\ op'[p].todo = Tail(op[p].todo)
           /\ UNCHANGED <<acked, issued>> /\ TypeOK'
BY CallDone

(* Calls that change files of the workspace leave the backup alone.         *)
LEMMA LiveDone ==
    ASSUME MigrationInv, NEW p \in Operator, Work(p), NEW c, c = Head(op[p].todo), ~Impossible(c),
           c.do \in {"put", "remove", "restore", "index"}
    PROVE  /\ backup' = backup /\ marker' = marker
           /\ op'[p].at = op[p].at /\ op'[p].plan = op[p].plan /\ op'[p].todo = Tail(op[p].todo)
           /\ UNCHANGED <<acked, issued>> /\ TypeOK'
BY CallDone

(* So it suffices to look at the files and at the calls that are left.      *)
LEMMA WorkGoesOn ==
    ASSUME MigrationInv, NEW p \in Operator, Work(p), NEW c, c = Head(op[p].todo), ~Impossible(c),
           FilesOK', Due(p)',
           op[p].at = "forget" /\ marker'.set => marker.set,
           marker'.set /\ (\E q \in Operator : op[q].at \in Migrating) => (Untouched \/ Touched)'
    PROVE  MigrationInv'
BY CallDone, GoesOn DEF Working

(* While a rollback is at work nobody migrates.                             *)
LEMMA NobodyMigrates ==
    ASSUME MigrationInv, NEW p \in Operator, op[p].at \in Restoring
    PROVE  ~\E q \in Operator : op[q].at \in Migrating
<1>1. Alone(p) BY DEF MigrationInv, OpOK, Excluded, Solitary
<1>2. \A q \in Operator \ {p} : op[q].at = "idle" BY <1>1, IdleIs DEF Alone
<1>3. QED BY <1>2 DEF Migrating, Restoring

-----------------------------------------------------------------------------
(* What depends on some of the files only.                                  *)
LEMMA SameLive ==
    ASSUME UNCHANGED live
    PROVE  /\ \A kind : Present(kind)' = Present(kind)
           /\ Current' = Current /\ Readable' = Readable /\ Version' = Version
           /\ Upgraded' = Upgraded /\ Cleared' = Cleared
<1>1. \A kind : Present(kind)' = Present(kind) BY DEF Present
<1>2. Version' = Version BY DEF Version
<1>3. \A kind : Listed(kind)' = Listed(kind) BY <1>1 DEF Listed
<1>4. \A names, d : Joined(names, d)' = Joined(names, d) OBVIOUS
<1>5. Current' = Current BY <1>2, <1>3 DEF Current
<1>6. Readable' = Readable BY <1>1, <1>2, <1>5 DEF Readable
<1>7. Upgraded' = Upgraded /\ Cleared' = Cleared BY <1>1, <1>2, <1>5 DEF Upgraded, Cleared
<1>8. QED BY <1>1, <1>2, <1>5, <1>6, <1>7

(* With a marker the chain is the backup's.                                 *)
LEMMA SameBackup ==
    ASSUME TypeOK, marker.set, UNCHANGED marker,
           \A n \in Jsons : backup'[n] = backup[n]
    PROVE  Effective' = Effective
<1> DEFINE names == Numbered("json", Saved(marker.names))
<1>1. Saved(marker.names) \in SUBSET (1..MaxEvents) BY DEF Saved
<1>2. /\ names \in Seq(Name) /\ Len(names) = Cardinality(Saved(marker.names))
      /\ \A k \in 1..Len(names) : k \in 1..MaxEvents /\ names[k] = Segment("json", k)
  BY <1>1, NumberedType
<1>3. names' = names OBVIOUS
<1> HIDE DEF names
<1>4. \A k \in 1..Len(names) : backup[names[k]].chain = backup'[names[k]].chain BY <1>2, Names
<1>5. Joined(names, backup) = Joined(names, backup') BY <1>2, <1>4, JoinedSame
<1>6. QED BY <1>3, <1>5 DEF Effective, names

LEMMA NamedTail ==
    ASSUME NEW S, NEW s \in Seq(S), s # <<>>
    PROVE  /\ Head(s) \in S /\ Tail(s) \in Seq(S)
           /\ Named(s) \subseteq {Head(s).name} \cup Named(Tail(s))
<1>1. /\ Head(s) = s[1] /\ Tail(s) \in Seq(S) /\ Len(Tail(s)) = Len(s) - 1 /\ Len(s) \in Nat
      /\ \A i \in 1..Len(Tail(s)) : Tail(s)[i] = s[i + 1]
      /\ Head(s) \in S
  OBVIOUS
<1>2. ASSUME NEW i \in 1..Len(s), i # 1 PROVE s[i].name \in Named(Tail(s))
  <2>1. i - 1 \in 1..Len(Tail(s)) /\ (i - 1) + 1 = i BY <1>1, <1>2
  <2>2. Tail(s)[i - 1] = s[i] BY <1>1, <2>1
  <2>3. QED BY <2>1, <2>2 DEF Named
<1>3. QED BY <1>1, <1>2 DEF Named

LEMMA FilesKept ==
    ASSUME MigrationInv, Effective' = Effective, UNCHANGED <<acked, issued>>, FilesFilled',
           marker'.set => BackupWhole', ~marker'.set => Readable'
    PROVE  FilesOK'
BY DEF MigrationInv, FilesOK

-----------------------------------------------------------------------------
(* A file of version 1 is copied to the backup: if there is a marker, its   *)
(* chain is in the backup already.                                         *)
LEMMA SaveStep ==
    ASSUME MigrationInv, NEW p \in Operator, Work(p), NEW c, c = Head(op[p].todo), ~Impossible(c),
           op[p].at = "rewrite", NEW names, names = op[p].plan.names, NEW rest,
           NEW s \in Seq(Saves(names)), s # <<>>, op[p].todo = s \o rest, rest \in Seq(FileCall),
           NEW t \in Seq(Writes), rest = <<Mark>> \o (t \o Ending),
           Copying(op[p].todo, op[p].plan),
           op[p].plan.chain # <<>> => t # <<>> /\ Head(t).do = "put",
           \A n \in Range(names) \cup {Metadata} : backup[n] = live[n] \/ n \in Named(s)
    PROVE  MigrationInv' /\ Effective' = Effective
<1>1. TypeOK /\ FilesOK /\ FilesFilled BY DEF MigrationInv, FilesOK
<1>2. s \in Seq(FileCall) BY SeqMonotonic DEF Saves
<1>3. c = Head(s) /\ Tail(op[p].todo) = Tail(s) \o rest
  <2>1. rest \in Seq(FileCall) /\ s # <<>> OBVIOUS
  <2>2. Head(s \o rest) = Head(s) /\ Tail(s \o rest) = Tail(s) \o rest
    BY ONLY <1>2, <2>1, Nonempty
  <2>3. c = Head(s \o rest) /\ op[p].todo = s \o rest OBVIOUS
  <2>4. QED BY ONLY <2>2, <2>3
<1>4. c \in Saves(names) /\ Tail(s) \in Seq(Saves(names))
      /\ Named(s) \subseteq {c.name} \cup Named(Tail(s))
  BY <1>3, NamedTail
<1>5. c.do = "save" /\ c.name \in Range(names) \cup {Metadata} /\ c.content = live[c.name]
  BY <1>4 DEF Saves
<1>6. /\ live' = live /\ marker' = marker /\ backup' = [backup EXCEPT ![c.name] = live[c.name]]
      /\ op'[p].at = "rewrite" /\ op'[p].plan = op[p].plan /\ op'[p].todo = Tail(s) \o rest
      /\ UNCHANGED <<acked, issued>> /\ TypeOK'
  <2>1. /\ live' = live /\ marker' = marker /\ backup' = [backup EXCEPT ![c.name] = c.content]
        /\ op'[p].at = op[p].at /\ op'[p].plan = op[p].plan /\ op'[p].todo = Tail(op[p].todo)
        /\ UNCHANGED <<acked, issued>> /\ TypeOK'
    BY <1>5, CallDone
  <2>2. QED BY <1>3, <1>5, <2>1
<1>7. /\ op[p].plan.set /\ Readable /\ Current = op[p].plan.chain /\ Cleared
      /\ Range(names) \subseteq Olds
      /\ \A n \in Olds : live[n] # Absent <=> n \in Range(names)
      /\ marker.set => marker.chain = op[p].plan.chain
  BY DEF Copying
<1>8. /\ Present("json")' = Present("json") /\ Current' = Current /\ Readable' = Readable
      /\ Cleared' = Cleared /\ Version' = Version
      /\ Present("ndjson")' = Present("ndjson")
  BY <1>6, SameLive
<1>9. live[Metadata] # Absent BY <1>1 DEF FilesFilled, Has, Absent
<1>10. live[c.name] # Absent /\ c.name \in Name /\ live[c.name] \in File
  <2>1. c.name \in Name BY <1>5, <1>7, Names DEF Olds
  <2>2. QED BY <1>1, <1>5, <1>7, <1>9, <2>1 DEF TypeOK, Directory
<1>11. \A n \in Name : backup'[n] = IF n = c.name THEN live[n] ELSE backup[n]
  BY <1>1, <1>6 DEF TypeOK, Directory
<1>12. marker.set => Untouched \/ Touched
  BY DEF MigrationInv, Shows, Migrating
<1>13. ASSUME marker.set, Untouched PROVE backup' = backup
  <2>1. backup[c.name] = live[c.name]
    <3>1. CASE c.name = Metadata BY <3>1, <1>13 DEF Untouched
    <3>2. CASE c.name \in Olds BY <3>2, <1>10, <1>13 DEF Untouched
    <3>3. QED BY <1>5, <1>7, <3>1, <3>2
  <2>2. QED BY <1>1, <1>6, <1>10, <2>1 DEF TypeOK, Directory
<1>14. ASSUME marker.set, Touched
       PROVE  marker.chain = <<>> /\ \A n \in Jsons : backup'[n] = backup[n]
  <2>1. marker.chain = <<>> /\ Present("json") = {} BY <1>7, <1>14 DEF Touched, Cleared
  <2>2. ASSUME c.name \in Jsons PROVE FALSE
    <3>1. PICK k \in 1..MaxEvents : c.name = Segment("json", k) BY <2>2 DEF Jsons
    <3>2. k \in Present("json") BY <1>10, <3>1 DEF Present
    <3>3. QED BY <2>1, <3>2
  <2>3. \A n \in Jsons : n \in Name BY Names
  <2>4. QED BY <1>11, <2>1, <2>2, <2>3
<1>15. Effective' = Effective
  <2>1. CASE marker.set BY <1>1, <1>6, <1>12, <1>13, <1>14, <2>1, SameBackup
  <2>2. CASE ~marker.set BY <1>6, <1>8, <2>2 DEF Effective
  <2>3. QED BY <2>1, <2>2
<1>16. FilesFilled'
  <2>1. \A n \in Jsons \cup Ndjsons : n \in Name /\ n # Metadata BY Names DEF Olds
  <2>2. Metadata \in Name BY Names
  <2>3. QED BY <1>1, <1>6, <1>11, <2>1, <2>2 DEF FilesFilled
<1>17. ASSUME marker.set PROVE BackupWhole'
  <2>1. BackupWhole BY <1>1, <1>17 DEF FilesOK
  <2>2. CASE Untouched BY <1>6, <1>8, <1>13, <1>15, <1>17, <2>1, <2>2 DEF BackupWhole
  <2>3. CASE Touched
    <3>1. marker.chain = <<>> BY <1>14, <1>17, <2>3
    <3>2. \A n \in Name : backup[n] # Absent => backup'[n] # Absent BY <1>10, <1>11
    <3>3. \A n \in Range(marker.names) : n \in Olds /\ n \in Name /\ backup[n] # Absent
      BY <2>1, Names DEF BackupWhole, Olds
    <3>4. backup[Metadata] # Absent /\ Metadata \in Name BY <2>1, Names DEF BackupWhole
    <3>5. QED BY <1>6, <1>8, <1>15, <2>1, <3>1, <3>2, <3>3, <3>4 DEF BackupWhole
  <2>4. QED BY <1>12, <1>17, <2>2, <2>3
<1>18. FilesOK'
  <2>1. ~marker'.set => Readable' BY <1>7, <1>8
  <2>2. marker'.set => BackupWhole' BY <1>6, <1>17
  <2>3. QED BY <1>6, <1>15, <1>16, <2>1, <2>2, FilesKept
<1>19. Due(p)'
  <2>1. Saves(names)' = Saves(names) BY <1>6 DEF Saves
  <2>2. \A n \in Range(names) \cup {Metadata} : backup'[n] = live'[n] \/ n \in Named(Tail(s))
    <3>1. \A n \in Range(names) \cup {Metadata} : n \in Name BY <1>7, Names DEF Olds
    <3>2. QED BY <1>4, <1>6, <1>11, <3>1
  <2>3. op'[p].plan.set /\ op'[p].plan.names = names /\ op'[p].plan.chain = op[p].plan.chain
    BY <1>6, <1>7
  <2>4. \E u \in Seq(Saves(names)), v \in Seq(Writes) :
           /\ op'[p].todo = u \o (<<Mark>> \o (v \o Ending))
           /\ op[p].plan.chain # <<>> => v # <<>> /\ Head(v).do = "put"
           /\ \A n \in Range(names) \cup {Metadata} : backup'[n] = live'[n] \/ n \in Named(u)
    <3>1. op'[p].todo = Tail(s) \o (<<Mark>> \o (t \o Ending)) BY <1>6
    <3>2. WITNESS Tail(s) \in Seq(Saves(names)), t \in Seq(Writes)
    <3>3. QED BY <2>2, <3>1
  <2>5. QED BY <1>6, <1>7, <1>8, <2>1, <2>3, <2>4 DEF Due, JobOK, Copying, Restoring
<1>20. marker'.set => (Untouched \/ Touched)'
  <2>1. CASE marker.set /\ Untouched BY <1>6, <1>13, <2>1 DEF Untouched
  <2>2. CASE marker.set /\ Touched BY <1>6, <1>8, <2>2 DEF Touched
  <2>3. QED BY <1>6, <1>12, <2>1, <2>2
<1>21. QED BY <1>15, <1>18, <1>19, <1>20, WorkGoesOn

(* The chain of the JSON segments that are there, read from their copies.   *)
LEMMA CopiesHold ==
    ASSUME TypeOK, FilesFilled, Readable, Cleared, NEW names, Present("json") = Saved(names),
           \A n \in Range(names) : live[n] = backup[n]
    PROVE  Joined(Numbered("json", Saved(names)), backup) = Current
<1> DEFINE listed == Numbered("json", Present("json"))
<1>1. Current = Joined(listed, live) BY JsonsHold DEF Cleared
<1>2. Present("json") = 1..Cardinality(Present("json"))
  <2>1. CASE Version = 1 BY <2>1, VersionIs DEF Readable
  <2>2. CASE Version = 2
    <3>1. Present("json") = {} BY <2>2, JsonsHold DEF Cleared
    <3>2. QED BY <3>1, FS_EmptySet
  <2>3. QED BY <2>1, <2>2, VersionIs
<1>3. /\ listed \in Seq(Name) /\ Len(listed) = Cardinality(Present("json"))
      /\ \A k \in 1..Len(listed) : listed[k] = Segment("json", k)
  BY PresentIs, NumberedType
<1>4. ASSUME NEW k \in 1..Len(listed) PROVE live[listed[k]].chain = backup[listed[k]].chain
  <2>1. k \in Saved(names) /\ listed[k] = Segment("json", k) BY <1>2, <1>3
  <2>2. listed[k] \in Range(names) BY <2>1 DEF Saved
  <2>3. QED BY <2>2
<1> HIDE DEF listed
<1>5. Joined(listed, live) = Joined(listed, backup) BY <1>3, <1>4, JoinedSame
<1>6. QED BY <1>1, <1>5 DEF listed

(* Segments that are there make a chain that is not empty.                  *)
LEMMA NoSegment ==
    ASSUME TypeOK, FilesFilled, Readable, Cleared, Current = <<>>
    PROVE  Present("json") = {}
<1> DEFINE listed == Numbered("json", Present("json"))
<1>1. Current = Joined(listed, live) /\ (Version = 2 => Present("json") = {}) BY JsonsHold DEF Cleared
<1>2. SUFFICES ASSUME Version = 1 PROVE Present("json") = {} BY <1>1, VersionIs
<1>3. Present("json") = 1..Cardinality(Present("json")) BY <1>2, VersionIs DEF Readable
<1>4. /\ listed \in Seq(Name) /\ Len(listed) = Cardinality(Present("json"))
      /\ Cardinality(Present("json")) \in Nat
      /\ \A k \in 1..Cardinality(Present("json")) : listed[k] = Segment("json", k)
  BY PresentIs, NumberedType
<1>5. ASSUME NEW k \in 1..Len(listed) PROVE live[listed[k]].chain # <<>>
  <2>1. k \in Present("json") /\ listed[k] = Segment("json", k) BY <1>3, <1>4
  <2>2. live[listed[k]] # Absent /\ listed[k] \in Jsons BY <2>1, Names DEF Present
  <2>3. QED BY <2>2 DEF FilesFilled, Full
<1> HIDE DEF listed
<1>6. Len(Joined(listed, live)) >= Len(listed) BY <1>4, <1>5, JoinedType DEF TypeOK
<1>7. Len(<<>>) = 0 OBVIOUS
<1>8. Cardinality(Present("json")) = 0 BY <1>1, <1>4, <1>6, <1>7
<1>9. QED BY <1>3, <1>8

(* The marker: from here on the chain is that of the backup, which is the   *)
(* chain there was.                                                        *)
LEMMA MarkStep ==
    ASSUME MigrationInv, NEW p \in Operator, Work(p), NEW c, c = Head(op[p].todo), ~Impossible(c),
           op[p].at = "rewrite", NEW names, names = op[p].plan.names, NEW rest \in Seq(FileCall),
           op[p].todo = <<Mark>> \o rest, NEW t \in Seq(Writes), rest = t \o Ending,
           Copying(op[p].todo, op[p].plan),
           op[p].plan.chain # <<>> => t # <<>> /\ Head(t).do = "put",
           \A n \in Range(names) \cup {Metadata} : backup[n] = live[n]
    PROVE  MigrationInv' /\ Effective' = Effective
<1>1. TypeOK /\ FilesOK /\ FilesFilled BY DEF MigrationInv, FilesOK
<1>2. c = Mark /\ Tail(op[p].todo) = rest
  <2>1. op[p].todo = <<Mark>> \o rest /\ c = Head(op[p].todo) /\ rest \in Seq(FileCall) OBVIOUS
  <2>2. Mark \in FileCall /\ <<Mark>> \in Seq(FileCall) BY EndingIs
  <2>3. <<Mark>> # <<>> /\ Head(<<Mark>>) = Mark /\ Tail(<<Mark>>) = <<>> OBVIOUS
  <2>4. c = Mark /\ Tail(op[p].todo) = <<>> \o rest BY ONLY <2>1, <2>2, <2>3, Nonempty
  <2>5. <<>> \o rest = rest BY <2>1
  <2>6. QED BY <2>4, <2>5
<1>3. c.do = "mark" BY <1>2 DEF Mark, Call
<1>4. /\ live' = live /\ backup' = backup /\ marker' = op[p].plan
      /\ op'[p].at = "rewrite" /\ op'[p].plan = op[p].plan /\ op'[p].todo = rest
      /\ UNCHANGED <<acked, issued>> /\ TypeOK'
  <2>1. /\ live' = live /\ backup' = backup /\ marker' = op[p].plan
        /\ op'[p].at = op[p].at /\ op'[p].plan = op[p].plan /\ op'[p].todo = Tail(op[p].todo)
        /\ UNCHANGED <<acked, issued>> /\ TypeOK'
    BY <1>3, MarkDone
  <2>2. QED BY <1>2, <2>1
<1>5. /\ op[p].plan.set /\ Readable /\ Current = op[p].plan.chain /\ Cleared
      /\ Range(names) \subseteq Olds
      /\ \A n \in Olds : live[n] # Absent <=> n \in Range(names)
  BY DEF Copying
<1>6. /\ Present("json")' = Present("json") /\ Current' = Current /\ Readable' = Readable
  BY <1>4, SameLive
<1>7. Present("json") = Saved(names)
  <2>1. \A k \in 1..MaxEvents : Segment("json", k) \in Olds BY Names DEF Olds
  <2>2. QED BY <1>5, <2>1 DEF Present, Saved
<1>8. Effective = Current BY <1>5, StillEffective DEF Migrating
<1>9. Effective' = Effective
  <2>1. Joined(Numbered("json", Saved(names)), backup) = Current BY <1>1, <1>5, <1>7, CopiesHold
  <2>2. Effective' = Joined(Numbered("json", Saved(names)), backup) BY <1>4, <1>5 DEF Effective
  <2>3. QED BY <1>8, <2>1, <2>2
<1>10. live[Metadata] # Absent /\ backup[Metadata] = live[Metadata]
  BY <1>1 DEF FilesFilled, Has, Absent
<1>11. BackupWhole'
  <2>1. \A n \in Range(names) : n \in Olds /\ backup[n] # Absent BY <1>5
  <2>2. Version = 2 => Current = <<>> BY <1>1, <1>5, JsonsHold DEF Cleared
  <2>3. backup[Metadata].version = 2 => Current = <<>> BY <1>10, <2>2 DEF Version
  <2>4. marker'.chain = Effective' BY <1>4, <1>5, <1>8, <1>9
  <2>5. QED BY <1>4, <1>5, <1>6, <1>7, <1>10, <2>1, <2>3, <2>4 DEF BackupWhole
<1>12. Untouched' BY <1>4, <1>5, <1>10 DEF Untouched
<1>13. FilesFilled' BY <1>1, <1>4 DEF FilesFilled
<1>14. marker'.set /\ marker'.chain = Current BY <1>4, <1>5
<1>15. FilesOK' BY <1>4, <1>9, <1>11, <1>13, <1>14, FilesKept
<1>16. Touched' \/ (t # <<>> /\ Head(t).do = "put")
  <2>1. CASE Current # <<>> BY <1>5, <2>1
  <2>2. CASE Current = <<>>
    <3>1. Present("json") = {} BY <1>1, <1>5, <2>2, NoSegment
    <3>2. QED BY <1>6, <1>14, <2>2, <3>1 DEF Touched
  <2>3. QED BY <2>1, <2>2
<1>17. Due(p)'
  <2>1. \E v \in Seq(Writes) :
           /\ op'[p].todo = v \o Ending
           /\ Touched' \/ (Untouched' /\ v # <<>> /\ Head(v).do = "put")
    BY <1>4, <1>12, <1>16
  <2>2. QED BY <1>4, <1>14, <2>1 DEF Due, JobOK, Replacing, Restoring
<1>18. QED BY <1>9, <1>12, <1>15, <1>17, WorkGoesOn

-----------------------------------------------------------------------------
(* Beside a marker, calls that change the workspace only.                   *)
LEMMA LiveGoesOn ==
    ASSUME MigrationInv, NEW p \in Operator, Work(p), NEW c, c = Head(op[p].todo), ~Impossible(c),
           c.do \in {"put", "remove", "restore", "index"}, marker.set,
           FilesFilled', Present("json")' \subseteq Saved(marker.names), Due(p)',
           op[p].at \in Restoring \/ Touched'
    PROVE  MigrationInv' /\ Effective' = Effective
<1>1. TypeOK /\ FilesOK BY DEF MigrationInv
<1>2. backup' = backup /\ marker' = marker /\ UNCHANGED <<acked, issued>> BY LiveDone
<1>3. Effective' = Effective BY <1>1, <1>2, SameBackup
<1>4. BackupWhole BY <1>1 DEF FilesOK
<1>5. BackupWhole' BY <1>2, <1>3, <1>4 DEF BackupWhole
<1>6. FilesOK' BY <1>2, <1>3, <1>5, FilesKept
<1>7. (\E q \in Operator : op[q].at \in Migrating) => (Untouched \/ Touched)'
  BY NobodyMigrates
<1>8. QED BY <1>2, <1>3, <1>6, <1>7, WorkGoesOn

LEMMA NameOf ==
    /\ Metadata \in Name /\ Sidecars \in Name /\ Metadata # Sidecars
    /\ Metadata \notin Jsons /\ Metadata \notin Ndjsons
    /\ Sidecars \notin Jsons /\ Sidecars \notin Ndjsons
BY Names DEF Olds

LEMMA FilledBut ==
    ASSUME TypeOK, FilesFilled, NEW n \in Name, NEW f \in File,
           live' = [live EXCEPT ![n] = f], backup' = backup,
           n \in Jsons \cup Ndjsons => f \in Full \cup {Absent},
           n = Metadata => f \in {Has(1, <<>>), Has(2, <<>>)}
    PROVE  FilesFilled'
<1>1. \A m \in Name : live'[m] = IF m = n THEN f ELSE live[m] BY DEF TypeOK, Directory
<1>2. Jsons \cup Ndjsons \cup {Metadata} \subseteq Name BY Names
<1>3. QED BY <1>1, <1>2 DEF FilesFilled

(* What is there after one file changed.                                    *)
LEMMA PresentBut ==
    ASSUME TypeOK, NEW n \in Name, NEW f \in File, live' = [live EXCEPT ![n] = f]
    PROVE  /\ \A m \in Name : live'[m] = IF m = n THEN f ELSE live[m]
           /\ n \notin Jsons \/ f = Absent => Present("json")' \subseteq Present("json")
           /\ n \notin Ndjsons => Present("ndjson")' = Present("ndjson")
           /\ n \in Ndjsons /\ f # Absent => Present("ndjson")' # {}
<1>1. \A m \in Name : live'[m] = IF m = n THEN f ELSE live[m] BY DEF TypeOK, Directory
<1>2. \A k \in 1..MaxEvents : /\ Segment("json", k) \in Jsons /\ Segment("json", k) \in Name
                              /\ Segment("ndjson", k) \in Ndjsons /\ Segment("ndjson", k) \in Name
  BY Names
<1>3. n \notin Jsons \/ f = Absent => Present("json")' \subseteq Present("json")
  BY <1>1, <1>2 DEF Present
<1>4. n \notin Ndjsons => Present("ndjson")' = Present("ndjson")
  BY <1>1, <1>2 DEF Present
<1>5. n \in Ndjsons /\ f # Absent => Present("ndjson")' # {}
  <2>1. SUFFICES ASSUME n \in Ndjsons, f # Absent PROVE Present("ndjson")' # {} OBVIOUS
  <2>2. PICK k \in 1..MaxEvents : n = Segment("ndjson", k) BY <2>1 DEF Ndjsons
  <2>3. k \in Present("ndjson")' BY <1>1, <2>1, <2>2 DEF Present
  <2>4. QED BY <2>3
<1>6. QED BY <1>1, <1>3, <1>4, <1>5

(* A new segment is written, or an old file removed.                        *)
LEMMA WriteStep ==
    ASSUME MigrationInv, NEW p \in Operator, Work(p), NEW c, c = Head(op[p].todo), ~Impossible(c),
           op[p].at = "rewrite", marker.set, marker = op[p].plan,
           NEW t \in Seq(Writes), t # <<>>, op[p].todo = t \o Ending,
           Touched \/ Head(t).do = "put"
    PROVE  MigrationInv' /\ Effective' = Effective
<1>1. TypeOK /\ FilesOK /\ FilesFilled /\ BackupWhole BY DEF MigrationInv, FilesOK
<1>2. c = Head(t) /\ Tail(op[p].todo) = Tail(t) \o Ending
  <2>1. t \in Seq(FileCall) BY WritesAre, SeqMonotonic
  <2>2. Ending \in Seq(FileCall) BY EndingIs
  <2>3. QED BY <2>1, <2>2, Nonempty
<1>3. c \in Writes /\ Tail(t) \in Seq(Writes) BY <1>2, NamedTail
<1>4. c.do \in {"put", "remove"} /\ c.name \in Name /\ c.name # Metadata /\ c.name # Sidecars
  BY <1>3, Names DEF Writes, Olds
<1>5. /\ backup' = backup /\ marker' = marker
      /\ op'[p].at = op[p].at /\ op'[p].plan = op[p].plan /\ op'[p].todo = Tail(op[p].todo)
  BY <1>4, LiveDone
<1>6. /\ c.do = "put" => /\ live' = [live EXCEPT ![c.name] = c.content]
                         /\ c.name \in Ndjsons /\ c.content \in Full
      /\ c.do = "remove" => live' = [live EXCEPT ![c.name] = Absent] /\ c.name \in Olds
  BY <1>3, CallDone DEF Writes
<1>7. FilesFilled' /\ Present("json")' \subseteq Present("json") /\ Touched'
  <2>1. CASE c.do = "put"
    <3>1. c.content \in File /\ c.content # Absent BY <1>6, <2>1 DEF Full, Absent, Has
    <3>2. c.name \notin Jsons BY <1>6, <2>1, Names
    <3>3. QED BY <1>1, <1>4, <1>5, <1>6, <2>1, <3>1, <3>2, FilledBut, PresentBut DEF Touched
  <2>2. CASE c.do = "remove"
    <3>1. FilesFilled' BY <1>1, <1>4, <1>5, <1>6, <2>2, AbsentIs, FilledBut
    <3>2. c.name \notin Ndjsons BY <1>6, <2>2, Names DEF Olds
    <3>3. /\ Present("json")' \subseteq Present("json") /\ Present("ndjson")' = Present("ndjson")
          /\ live'[Sidecars] = live[Sidecars]
      BY <1>1, <1>4, <1>6, <2>2, <3>2, AbsentIs, PresentBut, NameOf
    <3>4. Touched BY <1>2, <2>2
    <3>5. QED BY <1>5, <3>1, <3>3, <3>4 DEF Touched
  <2>3. QED BY <1>4, <2>1, <2>2
<1>8. Present("json")' \subseteq Saved(marker.names) BY <1>1, <1>7 DEF BackupWhole
<1>9. Due(p)'
  <2>1. op'[p].todo = Tail(t) \o Ending BY <1>2, <1>5
  <2>2. QED BY <1>3, <1>5, <1>7, <2>1 DEF Due, JobOK, Replacing, Restoring
<1>10. QED BY <1>4, <1>7, <1>8, <1>9, LiveGoesOn

(* The metadata is that of version 2.                                       *)
LEMMA MetadataStep ==
    ASSUME MigrationInv, NEW p \in Operator, Work(p), NEW c, c = Head(op[p].todo), ~Impossible(c),
           op[p].at = "rewrite", marker.set, marker = op[p].plan,
           op[p].todo = Ending, Touched
    PROVE  MigrationInv' /\ Effective' = Effective
<1>1. TypeOK /\ FilesOK /\ FilesFilled /\ BackupWhole BY DEF MigrationInv, FilesOK
<1>2. c = Put(Metadata, Has(2, <<>>)) BY EndingIs
<1>3. c.do = "put" /\ c.name = Metadata /\ c.content = Has(2, <<>>) BY <1>2 DEF Put, Call
<1>4. /\ backup' = backup /\ marker' = marker
      /\ op'[p].at = op[p].at /\ op'[p].plan = op[p].plan /\ op'[p].todo = Tail(Ending)
  BY <1>3, LiveDone
<1>5. live' = [live EXCEPT ![Metadata] = Has(2, <<>>)] BY <1>3, CallDone
<1>6. Has(2, <<>>) \in File
  <2>1. <<>> \in Chains BY EmptySeq DEF Chains
  <2>2. QED BY <2>1, HasIs
<1>7. FilesFilled'
  BY <1>1, <1>4, <1>5, <1>6, NameOf, FilledBut
<1>8. /\ live'[Metadata] = Has(2, <<>>) /\ live'[Sidecars] = live[Sidecars]
      /\ Present("json")' \subseteq Present("json") /\ Present("ndjson")' = Present("ndjson")
  <2>1. \A m \in Name : live'[m] = IF m = Metadata THEN Has(2, <<>>) ELSE live[m]
    BY <1>1, <1>5, NameOf DEF TypeOK, Directory
  <2>2. /\ Present("json")' \subseteq Present("json") /\ Present("ndjson")' = Present("ndjson")
    BY ONLY <1>1, <1>5, <1>6, NameOf, PresentBut
  <2>3. QED BY <2>1, <2>2, NameOf
<1>9. Touched' BY <1>4, <1>8 DEF Touched
<1>10. Version' = 2 BY <1>8 DEF Version, Has
<1>11. Present("json")' \subseteq Saved(marker.names) BY <1>1, <1>8 DEF BackupWhole
<1>12. Due(p)' BY <1>4, <1>9, <1>10 DEF Due, JobOK, Replacing, Restoring
<1>13. QED BY <1>3, <1>7, <1>9, <1>11, <1>12, LiveGoesOn

(* The sidecars cover what the segments hold.                               *)
LEMMA IndexStep ==
    ASSUME MigrationInv, NEW p \in Operator, Work(p), NEW c, c = Head(op[p].todo), ~Impossible(c),
           op[p].at = "rewrite", marker.set, marker = op[p].plan,
           op[p].todo = Tail(Ending), Version = 2
    PROVE  MigrationInv' /\ Effective' = Effective
<1>1. TypeOK /\ FilesOK /\ FilesFilled /\ BackupWhole BY DEF MigrationInv, FilesOK
<1>2. c = Call("index", Sidecars, Absent) BY EndingIs
<1>3. c.do = "index" BY ONLY <1>2 DEF Call
<1>4. /\ backup' = backup /\ marker' = marker
      /\ op'[p].at = op[p].at /\ op'[p].plan = op[p].plan /\ op'[p].todo = <<>>
  BY <1>3, LiveDone, EndingIs
<1> DEFINE f == Has(2, Joined(Listed("ndjson"), live))
<1>5. live' = [live EXCEPT ![Sidecars] = f] BY <1>3, CallDone
<1>6. f \in File /\ f # Absent
  <2>1. Joined(Listed("ndjson"), live) \in Chains BY <1>1, ListedType, JoinedType DEF TypeOK
  <2>2. QED BY <2>1, HasIs DEF Has, Absent
<1>7. f = Has(2, Current) BY <1>1, VersionIs DEF Current
<1> HIDE DEF f
<1>8. FilesFilled' BY <1>1, <1>4, <1>5, <1>6, NameOf, FilledBut
<1>9. /\ live'[Sidecars] = f /\ live'[Metadata] = live[Metadata]
      /\ Present("json")' \subseteq Present("json") /\ Present("ndjson")' = Present("ndjson")
      /\ \A m \in Name : m # Sidecars => live'[m] = live[m]
  <2>1. \A m \in Name : live'[m] = IF m = Sidecars THEN f ELSE live[m]
    BY <1>1, <1>5, NameOf DEF TypeOK, Directory
  <2>2. /\ Present("json")' \subseteq Present("json") /\ Present("ndjson")' = Present("ndjson")
    BY ONLY <1>1, <1>5, <1>6, NameOf, PresentBut
  <2>3. QED BY <2>1, <2>2, NameOf
<1>10. Touched' BY <1>6, <1>9 DEF Touched
<1>11. Version' = 2 BY <1>9 DEF Version
<1>12. Current' = Current
  <2>1. Current = Joined(Listed("ndjson"), live) BY <1>1, VersionIs DEF Current
  <2>2. Current' = Joined(Listed("ndjson")', live') BY <1>11 DEF Current, Kind
  <2>3. Listed("ndjson")' = Listed("ndjson") BY <1>9 DEF Listed
  <2>4. /\ Listed("ndjson") \in Seq(Name) /\ Len(Listed("ndjson")) = Cardinality(Present("ndjson"))
        /\ \A k \in 1..Len(Listed("ndjson")) :
              k \in 1..MaxEvents /\ Listed("ndjson")[k] = Segment("ndjson", k)
    BY PresentIs, NumberedType DEF Listed
  <2>5. \A k \in 1..Len(Listed("ndjson")) :
           live[Listed("ndjson")[k]].chain = live'[Listed("ndjson")[k]].chain
    BY <1>9, <2>4, Names
  <2>6. Joined(Listed("ndjson"), live) = Joined(Listed("ndjson"), live') BY <2>4, <2>5, JoinedSame
  <2>7. QED BY <2>1, <2>2, <2>3, <2>6
<1>13. Upgraded' BY <1>7, <1>9, <1>11, <1>12 DEF Upgraded
<1>14. Present("json")' \subseteq Saved(marker.names) BY <1>1, <1>9 DEF BackupWhole
<1>15. Due(p)' BY <1>4, <1>13 DEF Due, JobOK, Replacing, Restoring
<1>16. QED BY <1>3, <1>8, <1>10, <1>14, <1>15, LiveGoesOn

-----------------------------------------------------------------------------
LEMMA RewriteCallStep ==
    ASSUME MigrationInv, NEW p \in Operator, Work(p), NEW c, c = Head(op[p].todo), ~Impossible(c),
           op[p].at = "rewrite"
    PROVE  MigrationInv' /\ Effective' = Effective
<1>1. Copying(op[p].todo, op[p].plan) \/ Replacing(op[p].todo, op[p].plan)
  BY DEF MigrationInv, OpOK, Due, JobOK
<1>2. CASE Copying(op[p].todo, op[p].plan)
  <2> DEFINE names == op[p].plan.names
  <2>1. PICK s \in Seq(Saves(names)), t \in Seq(Writes) :
           /\ op[p].todo = s \o (<<Mark>> \o (t \o Ending))
           /\ op[p].plan.chain # <<>> => t # <<>> /\ Head(t).do = "put"
           /\ \A n \in Range(names) \cup {Metadata} : backup[n] = live[n] \/ n \in Named(s)
    BY <1>2 DEF Copying
  <2>2. t \o Ending \in Seq(FileCall)
    <3>1. t \in Seq(FileCall) BY WritesAre, SeqMonotonic
    <3>2. QED BY <3>1, EndingIs, ConcatProperties
  <2>3. <<Mark>> \o (t \o Ending) \in Seq(FileCall) BY <2>2, EndingIs, ConcatProperties
  <2>4. CASE s # <<>> BY <1>2, <2>1, <2>3, <2>4, SaveStep
  <2>5. CASE s = <<>>
    <3>1. Named(<<>>) = {} BY DEF Named
    <3>2. <<>> \o (<<Mark>> \o (t \o Ending)) = <<Mark>> \o (t \o Ending) BY <2>3
    <3>3. op[p].todo = <<Mark>> \o (t \o Ending) BY <2>1, <2>5, <3>2
    <3>4. \A n \in Range(names) \cup {Metadata} : backup[n] = live[n] BY <2>1, <2>5, <3>1
    <3>5. QED BY <1>2, <2>1, <2>2, <3>3, <3>4, MarkStep
  <2>6. QED BY <2>4, <2>5
<1>3. CASE Replacing(op[p].todo, op[p].plan)
  <2>1. marker.set /\ marker = op[p].plan BY <1>3 DEF Replacing
  <2>2. op[p].todo # <<>> BY DEF Work
  <2>3. CASE \E t \in Seq(Writes) : /\ op[p].todo = t \o Ending
                                    /\ Touched \/ (Untouched /\ t # <<>> /\ Head(t).do = "put")
    <3>1. PICK t \in Seq(Writes) : /\ op[p].todo = t \o Ending
                                   /\ Touched \/ (t # <<>> /\ Head(t).do = "put")
      BY <2>3
    <3>2. CASE t # <<>> BY <2>1, <3>1, <3>2, WriteStep
    <3>3. CASE t = <<>>
      <4>1. <<>> \o Ending = Ending BY EndingIs
      <4>2. op[p].todo = Ending /\ Touched BY <3>1, <3>3, <4>1
      <4>3. QED BY <2>1, <4>2, MetadataStep
    <3>4. QED BY <3>2, <3>3
  <2>4. CASE op[p].todo = Tail(Ending) /\ Version = 2 BY <2>1, <2>4, IndexStep
  <2>5. QED BY <1>3, <2>2, <2>3, <2>4 DEF Replacing
<1>4. QED BY <1>1, <1>2, <1>3

(* A checkpoint changes nothing that the chain depends on.                  *)
LEMMA OutsideChain ==
    ASSUME TypeOK, NEW n \in {Part, Manifest}, NEW f \in File, live' = [live EXCEPT ![n] = f]
    PROVE  /\ \A kind \in {"json", "ndjson"} : Present(kind)' = Present(kind)
           /\ Version' = Version /\ Current' = Current /\ Upgraded' = Upgraded /\ Cleared' = Cleared
<1>1. n \in Name /\ n \notin Jsons \cup Ndjsons /\ n # Sidecars /\ n # Metadata
  BY Names DEF Olds
<1>2. \A m \in Name : m # n => live'[m] = live[m] BY DEF TypeOK, Directory
<1>3. ASSUME NEW k \in 1..MaxEvents, NEW kind \in {"json", "ndjson"}
      PROVE  Segment(kind, k) \in Name /\ live'[Segment(kind, k)] = live[Segment(kind, k)]
  <2>1. Segment(kind, k) \in Jsons \cup Ndjsons /\ Segment(kind, k) \in Name BY Names
  <2>2. QED BY <1>1, <1>2, <2>1
<1>4. \A kind \in {"json", "ndjson"} : Present(kind)' = Present(kind) BY <1>3 DEF Present
<1>5. live'[Metadata] = live[Metadata] /\ live'[Sidecars] = live[Sidecars] BY <1>1, <1>2, NameOf
<1>6. Version' = Version BY <1>5 DEF Version
<1>7. Current' = Current
  <2>1. PICK kind \in {"json", "ndjson"} : kind = Kind(Version) BY KindIs
  <2>2. Listed(kind)' = Listed(kind)
    <3>1. Present(kind)' = Present(kind) BY <1>4, <2>1
    <3>2. QED BY <3>1 DEF Listed
  <2>3. /\ Listed(kind) \in Seq(Name) /\ Len(Listed(kind)) = Cardinality(Present(kind))
        /\ \A k \in 1..Len(Listed(kind)) :
              k \in 1..MaxEvents /\ Listed(kind)[k] = Segment(kind, k)
    BY <2>1, PresentIs, NumberedType DEF Listed
  <2>4. \A k \in 1..Len(Listed(kind)) : live[Listed(kind)[k]].chain = live'[Listed(kind)[k]].chain
    BY <1>3, <2>1, <2>3
  <2>5. Joined(Listed(kind), live) = Joined(Listed(kind), live') BY <2>3, <2>4, JoinedSame
  <2>6. Kind(Version)' = kind BY <1>6, <2>1
  <2>7. QED BY <2>1, <2>2, <2>5, <2>6 DEF Current
<1>8. Upgraded' = Upgraded BY <1>5, <1>6, <1>7 DEF Upgraded
<1>9. Cleared' = Cleared BY <1>4, <1>5 DEF Cleared
<1>10. QED BY <1>4, <1>6, <1>7, <1>8, <1>9

(* The first checkpoint.                                                    *)
LEMMA CheckpointCallStep ==
    ASSUME MigrationInv, NEW p \in Operator, Work(p), NEW c, c = Head(op[p].todo), ~Impossible(c),
           op[p].at = "checkpoint"
    PROVE  MigrationInv' /\ Effective' = Effective
<1>1. TypeOK /\ FilesOK /\ FilesFilled BY DEF MigrationInv, FilesOK
<1>2. Checkpointing(op[p].todo, op[p].plan) /\ op[p].todo # <<>>
  BY DEF MigrationInv, OpOK, Due, JobOK, Work
<1> DEFINE Puts == [do : {"put"}, name : {Part, Manifest}, content : File]
<1>3. marker.set /\ marker = op[p].plan /\ marker.chain = Current /\ Upgraded /\ op[p].todo \in Seq(Puts)
  BY <1>2 DEF Checkpointing
<1>4. c \in Puts /\ Tail(op[p].todo) \in Seq(Puts) BY <1>2, <1>3, NamedTail
<1>5. c.do = "put" /\ c.name \in {Part, Manifest} /\ c.content \in File BY <1>4
<1>6. /\ backup' = backup /\ marker' = marker
      /\ op'[p].at = op[p].at /\ op'[p].plan = op[p].plan /\ op'[p].todo = Tail(op[p].todo)
  BY <1>5, LiveDone
<1>7. live' = [live EXCEPT ![c.name] = c.content] BY <1>5, CallDone
<1>8. Present("json")' = Present("json") /\ Current' = Current /\ Upgraded' /\ Upgraded
  BY <1>1, <1>3, <1>5, <1>7, OutsideChain
<1>9. FilesFilled'
  <2>1. c.name \in Name /\ c.name \notin Jsons \cup Ndjsons /\ c.name # Metadata
    BY <1>5, Names DEF Olds
  <2>2. QED BY <1>1, <1>5, <1>6, <1>7, <2>1, FilledBut
<1>10. Touched' BY <1>8 DEF Upgraded, Touched, Has, Absent
<1>11. Present("json")' \subseteq Saved(marker.names)
  BY <1>1, <1>3, <1>8 DEF FilesOK, BackupWhole
<1>12. Due(p)'
  <2>1. op'[p].todo \in Seq(Puts) BY <1>4, <1>6
  <2>2. QED BY <1>3, <1>6, <1>8, <2>1 DEF Due, JobOK, Checkpointing, Restoring
<1>13. QED BY <1>3, <1>5, <1>9, <1>10, <1>11, <1>12, LiveGoesOn

(* The marker goes, then the backup it stood for.                           *)
LEMMA ReleaseCallStep ==
    ASSUME MigrationInv, NEW p \in Operator, Work(p), NEW c, c = Head(op[p].todo), ~Impossible(c),
           op[p].at \in {"cleanup", "forget"}
    PROVE  MigrationInv' /\ Effective' = Effective
<1>1. TypeOK /\ FilesOK /\ FilesFilled BY DEF MigrationInv, FilesOK
<1>2. Releasing(op[p].todo) /\ op[p].todo # <<>> /\ (op[p].at = "cleanup" => Upgraded)
  BY DEF MigrationInv, OpOK, Due, JobOK, Work
<1> DEFINE D == [do : {"unmark", "discard", "forget"}, name : Name, content : File]
<1>3. op[p].todo \in Seq(D) /\ (marker.set => c.do = "unmark" /\ Readable /\ Current = marker.chain)
  BY <1>2 DEF Releasing
<1>4. c \in D /\ Tail(op[p].todo) \in Seq(D) BY <1>2, <1>3, NamedTail
<1>5. c.do \in {"unmark", "discard", "forget"} /\ c.name \in Name BY <1>4
<1>6. /\ live' = live
      /\ c.do # "unmark" => marker' = marker /\ backup' = [backup EXCEPT ![c.name] = Absent]
      /\ c.do = "unmark" => marker' = NoMarker /\ backup' = backup
      /\ op'[p].at = op[p].at /\ op'[p].plan = op[p].plan /\ op'[p].todo = Tail(op[p].todo)
      /\ UNCHANGED <<acked, issued>>
  BY <1>5, CallDone
<1>7. ~marker'.set BY <1>3, <1>5, <1>6 DEF NoMarker
<1>8. Current' = Current /\ Readable' = Readable /\ Upgraded' = Upgraded BY <1>6, SameLive
<1>9. Readable /\ Effective = Current
  <2>1. CASE marker.set BY <1>1, <1>3, <2>1 DEF FilesOK, BackupWhole
  <2>2. CASE ~marker.set BY <1>1, <2>2 DEF FilesOK, Effective
  <2>3. QED BY <2>1, <2>2
<1>10. Effective' = Effective BY <1>7, <1>8, <1>9 DEF Effective
<1>11. FilesFilled'
  <2>1. \A n \in Name : backup'[n] = backup[n] \/ backup'[n] = Absent
    BY <1>1, <1>5, <1>6 DEF TypeOK, Directory
  <2>2. Jsons \cup Ndjsons \cup {Metadata} \subseteq Name BY Names
  <2>3. QED BY <1>1, <1>6, <2>1, <2>2 DEF FilesFilled
<1>12. FilesOK' BY <1>6, <1>7, <1>8, <1>9, <1>10, <1>11, FilesKept
<1>13. Due(p)'
  <2>1. op'[p].todo \in Seq(D) BY <1>4, <1>6
  <2>2. QED BY <1>2, <1>6, <1>7, <1>8, <2>1 DEF Due, JobOK, Releasing, Restoring
<1>14. QED BY <1>7, <1>10, <1>12, <1>13, WorkGoesOn

(* A rollback empties events/ and drops the checkpoint.                     *)
LEMMA RemoveCallStep ==
    ASSUME MigrationInv, NEW p \in Operator, Work(p), NEW c, c = Head(op[p].todo), ~Impossible(c),
           op[p].at \in {"clearSnapshots", "restore"}
    PROVE  MigrationInv' /\ Effective' = Effective
<1>1. TypeOK /\ FilesOK /\ FilesFilled BY DEF MigrationInv, FilesOK
<1> DEFINE S == IF op[p].at = "restore" THEN {Part, Manifest} ELSE Ndjsons \cup {Sidecars}
<1>2. /\ marker.set /\ marker = op[p].plan /\ op[p].todo # <<>>
      /\ op[p].at = "clearSnapshots" => Clearing(op[p].todo)
      /\ op[p].at = "restore" => Cleared /\ op[p].todo \in Seq(Removals({Part, Manifest}))
  BY DEF MigrationInv, OpOK, Due, JobOK, Work, Restoring
<1>3. op[p].todo \in Seq(Removals(S)) BY <1>2 DEF Clearing
<1>4. c \in Removals(S) /\ Tail(op[p].todo) \in Seq(Removals(S))
      /\ Named(op[p].todo) \subseteq {c.name} \cup Named(Tail(op[p].todo))
  BY <1>2, <1>3, NamedTail
<1>5. c.do = "remove" /\ c.name \in S BY <1>4 DEF Removals
<1>6. c.name \in Name /\ c.name \notin Jsons /\ c.name # Metadata
  BY <1>5, Names DEF Olds
<1>7. /\ backup' = backup /\ marker' = marker
      /\ op'[p].at = op[p].at /\ op'[p].plan = op[p].plan /\ op'[p].todo = Tail(op[p].todo)
  BY <1>5, LiveDone
<1>8. live' = [live EXCEPT ![c.name] = Absent] BY <1>5, CallDone
<1>9. FilesFilled' BY <1>1, <1>6, <1>7, <1>8, AbsentIs, FilledBut
<1>10. Present("json")' \subseteq Present("json") BY <1>1, <1>6, <1>8, AbsentIs, PresentBut
<1>11. Present("json")' \subseteq Saved(marker.names)
  BY <1>1, <1>2, <1>10 DEF FilesOK, BackupWhole
<1>12. Due(p)'
  <2>1. CASE op[p].at = "clearSnapshots"
    <3> DEFINE N == Ndjsons \cup {Sidecars}
    <3>1. \A n \in N : live[n] = Absent \/ n \in Named(op[p].todo) BY <1>2, <2>1 DEF Clearing
    <3>2. \A m \in Name : live'[m] = IF m = c.name THEN Absent ELSE live[m]
      BY <1>1, <1>6, <1>8 DEF TypeOK, Directory
    <3>3. N \subseteq Name BY Names
    <3> HIDE DEF N
    <3>4. \A n \in N : live'[n] = Absent \/ n \in Named(Tail(op[p].todo))
      BY <1>4, <3>1, <3>2, <3>3
    <3>5. Absent' = Absent BY DEF Absent, Has
    <3>6. \A n \in N : live'[n] = Absent \/ n \in Named(op'[p].todo) BY <1>7, <3>4
    <3>7. op'[p].todo \in Seq(Removals(N)) BY <1>4, <1>7, <2>1 DEF N
    <3>8. Clearing(op[p].todo)' BY <3>6, <3>7 DEF Clearing, N
    <3>9. QED BY <1>2, <1>7, <2>1, <3>8 DEF Due, JobOK, Restoring
  <2>2. CASE op[p].at = "restore"
    <3>1. c.name \in {Part, Manifest} BY <1>5, <2>2
    <3>2. Cleared' = Cleared BY <1>1, <1>8, <3>1, AbsentIs, OutsideChain
    <3>3. Cleared' BY <1>2, <2>2, <3>2
    <3>4. op'[p].todo \in Seq(Removals({Part, Manifest})) BY <1>4, <1>7, <2>2
    <3>5. QED BY <1>2, <1>7, <2>2, <3>3, <3>4 DEF Due, JobOK, Restoring
  <2>3. QED BY <2>1, <2>2
<1>13. QED BY <1>2, <1>5, <1>9, <1>11, <1>12, LiveGoesOn DEF Restoring

(* A file of the backup is put back.                                        *)
LEMMA RestoreCallStep ==
    ASSUME MigrationInv, NEW p \in Operator, Work(p), NEW c, c = Head(op[p].todo), ~Impossible(c),
           op[p].at = "validate"
    PROVE  MigrationInv' /\ Effective' = Effective
<1>1. TypeOK /\ FilesOK /\ FilesFilled BY DEF MigrationInv, FilesOK
<1>2. /\ marker.set /\ marker = op[p].plan /\ op[p].todo # <<>> /\ Cleared
      /\ Restored(op[p].todo, op[p].plan.names)
  BY DEF MigrationInv, OpOK, Due, JobOK, Work, Restoring
<1> DEFINE S == Range(marker.names) \cup {Metadata}
           D == [do : {"restore"}, name : S, content : File]
<1>3. op[p].todo \in Seq(D) /\ \A n \in S : live[n] = backup[n] \/ n \in Named(op[p].todo)
  BY <1>2 DEF Restored
<1>4. c \in D /\ Tail(op[p].todo) \in Seq(D)
      /\ Named(op[p].todo) \subseteq {c.name} \cup Named(Tail(op[p].todo))
  BY <1>2, <1>3, NamedTail
<1>5. c.do = "restore" /\ c.name \in S BY <1>4
<1>6. BackupWhole BY <1>1, <1>2 DEF FilesOK
<1>7. c.name \in Olds \cup {Metadata} /\ S \subseteq Name /\ c.name \in Name
      /\ c.name \notin Ndjsons /\ c.name # Sidecars
  BY <1>5, <1>6, Names DEF BackupWhole, Olds
<1>8. /\ backup' = backup /\ marker' = marker
      /\ op'[p].at = op[p].at /\ op'[p].plan = op[p].plan /\ op'[p].todo = Tail(op[p].todo)
  BY <1>5, LiveDone
<1>9. live' = [live EXCEPT ![c.name] = backup[c.name]] /\ backup[c.name] # Absent
  BY <1>5, CallDone
<1>10. \A m \in Name : live'[m] = IF m = c.name THEN backup[m] ELSE live[m]
  BY <1>1, <1>7, <1>9 DEF TypeOK, Directory
<1>11. backup[c.name] \in File BY <1>1, <1>7 DEF TypeOK, Directory
<1>12. FilesFilled'
  <2>1. c.name \in Jsons \cup Ndjsons => backup[c.name] \in Full \cup {Absent} BY <1>1 DEF FilesFilled
  <2>2. c.name = Metadata => backup[c.name] \in {Has(1, <<>>), Has(2, <<>>)}
    BY <1>1, <1>9 DEF FilesFilled
  <2>3. QED BY <1>1, <1>7, <1>8, <1>9, <1>11, <2>1, <2>2, FilledBut
<1>13. Present("json")' \subseteq Saved(marker.names)
  <2>1. SUFFICES ASSUME NEW k \in Present("json")' PROVE k \in Saved(marker.names) OBVIOUS
  <2>2. k \in 1..MaxEvents /\ live'[Segment("json", k)] # Absent /\ Segment("json", k) \in Name
    BY <2>1, Names DEF Present
  <2>3. CASE Segment("json", k) = c.name
    <3>1. Segment("json", k) # Metadata BY <2>2, Names, NameOf
    <3>2. Segment("json", k) \in Range(marker.names) BY <1>5, <2>3, <3>1
    <3>3. QED BY <2>2, <3>2 DEF Saved
  <2>4. CASE Segment("json", k) # c.name
    <3>1. k \in Present("json") BY <1>10, <2>2, <2>4 DEF Present
    <3>2. QED BY <1>6, <3>1 DEF BackupWhole
  <2>5. QED BY <2>3, <2>4
<1>14. Cleared'
  <2>1. Present("ndjson")' = Present("ndjson") BY <1>1, <1>7, <1>9, <1>11, PresentBut
  <2>2. live'[Sidecars] = live[Sidecars] BY <1>7, <1>10, NameOf
  <2>3. QED BY <1>2, <2>1, <2>2 DEF Cleared
<1>15. Due(p)'
  <2>1. op'[p].todo \in Seq(D) BY <1>4, <1>8
  <2>2. \A n \in S : live'[n] = backup'[n] \/ n \in Named(op'[p].todo)
    <3>1. \A n \in S : live'[n] = backup[n] \/ n \in Named(Tail(op[p].todo))
      BY <1>3, <1>4, <1>7, <1>10
    <3>2. QED BY <1>8, <3>1
  <2>3. S = Range(op'[p].plan.names) \cup {Metadata} BY <1>2, <1>8
  <2>4. marker'.set /\ marker' = op'[p].plan /\ op'[p].at = "validate" BY <1>2, <1>8
  <2> HIDE DEF S
  <2>5. QED BY <1>14, <2>1, <2>2, <2>3, <2>4 DEF Due, JobOK, Restored, Restoring
<1>16. QED BY <1>2, <1>5, <1>12, <1>13, <1>15, LiveGoesOn DEF Restoring

LEMMA WorkStep ==
    ASSUME MigrationInv, NEW p \in Operator, Work(p)
    PROVE  MigrationInv' /\ Effective' = Effective
<1> DEFINE c == Head(op[p].todo)
<1>1. CASE Impossible(c)
  <2>1. Finish(p, "failed") /\ UNCHANGED <<files, history>> BY <1>1 DEF Work
  <2>2. QED BY <2>1, Finishes
<1>2. CASE ~Impossible(c)
  <2>1. op[p].at \in {"rewrite", "checkpoint", "clearSnapshots", "restore", "validate", "cleanup", "forget"}
    BY <1>2, CallDone
  <2> HIDE DEF c
  <2>2. c = Head(op[p].todo) BY DEF c
  <2>3. QED
    BY <1>2, <2>1, <2>2, RewriteCallStep, CheckpointCallStep, ReleaseCallStep, RemoveCallStep,
       RestoreCallStep
<1>3. QED BY <1>1, <1>2
-----------------------------------------------------------------------------
(* A command: the segment its event goes into, and what it writes.          *)
Appends(kind, last, into, event, chain, due) ==
    /\ TypeOK /\ FilesFilled /\ Readable
    /\ kind \in {"json", "ndjson"} /\ last \in Nat /\ into \in Nat /\ due \in BOOLEAN
    /\ event \in Events /\ chain \in Chains
    /\ kind = Kind(Version) /\ Present(kind) = 1..last
    /\ into = last \/ into = last + 1
    /\ into \in 1..MaxEvents
    /\ Version = 1 => /\ into = last => Len(live[Segment(kind, last)].chain) < Limit
                      /\ into # last /\ last > 0 => ~(Len(live[Segment(kind, last)].chain) < Limit)
    /\ chain = Append(Current, event)
    /\ \A n \in Name : live'[n] =
          IF n = Segment(kind, into) THEN Has(Version, Append(live[n].chain, event))
          ELSE IF n = Sidecars THEN (IF Version = 2 THEN Has(2, chain) ELSE live[n])
          ELSE IF n \in {Part, Manifest} THEN (IF due THEN Has(Version, chain) ELSE live[n])
          ELSE live[n]
    /\ DOMAIN live' = Name /\ live' = [n \in Name |-> live'[n]]
    /\ acked' = acked \cup {event} /\ issued' = issued + 1
    /\ UNCHANGED <<backup, marker, lease, op, outcome>>

LEMMA SegmentsAre ==
    ASSUME TypeOK, FilesFilled, Readable
    PROVE  /\ Cardinality(Present(Kind(Version))) \in Nat
           /\ Present(Kind(Version)) = 1..Cardinality(Present(Kind(Version)))
           /\ Cardinality(Present(Kind(Version))) <= Len(Current)
<1>1. PICK kind \in {"json", "ndjson"} : kind = Kind(Version) BY KindIs
<1> DEFINE c == Cardinality(Present(kind))
           listed == Listed(kind)
<1>2. /\ listed \in Seq(Name) /\ Len(listed) = c /\ c \in Nat
      /\ \A k \in 1..c : k \in 1..MaxEvents /\ listed[k] = Segment(kind, k)
  BY PresentIs, NumberedType DEF Listed
<1>3. Present(kind) = 1..c BY <1>1 DEF Readable
<1>4. ASSUME NEW k \in 1..Len(listed) PROVE live[listed[k]].chain # <<>>
  <2>1. k \in Present(kind) /\ listed[k] = Segment(kind, k) /\ k \in 1..MaxEvents BY <1>2, <1>3
  <2>2. live[listed[k]] # Absent /\ listed[k] \in Jsons \cup Ndjsons BY <2>1, Names DEF Present
  <2>3. QED BY <2>2 DEF FilesFilled, Full
<1> HIDE DEF listed, c
<1>5. Len(Joined(listed, live)) >= Len(listed) BY <1>2, <1>4, JoinedType DEF TypeOK
<1>6. Current = Joined(listed, live) BY <1>1 DEF Current, listed
<1>7. Len(Current) \in Nat BY ChainTypes, ChainIs
<1>8. QED BY <1>1, <1>2, <1>3, <1>5, <1>6, <1>7 DEF c

LEMMA AppendIs ==
    ASSUME MigrationInv, AppendEvent, AppendsBetween = FALSE
    PROVE  /\ ~marker.set /\ lease = NoOperator /\ Readable /\ Effective = Current
           /\ issued + 1 \in 0..MaxEvents /\ Len(Current) <= issued
           /\ \E kind, last, into, due :
                 Appends(kind, last, into, Event(issued + 1, Current),
                         Append(Current, Event(issued + 1, Current)), due)
<1>1. TypeOK /\ FilesOK /\ FilesFilled BY DEF MigrationInv, FilesOK
<1>2. ~marker.set /\ lease = NoOperator /\ Readable /\ issued < MaxEvents /\ issued' = issued + 1
  BY DEF AppendEvent
<1>3. Effective = Current BY <1>2 DEF Effective
<1>4. issued + 1 \in 0..MaxEvents /\ Len(Current) <= issued /\ issued \in Nat
  BY <1>1, <1>2, <1>3, Constants DEF TypeOK, FilesOK
<1> DEFINE event == Event(issued + 1, Current)
           chain == Append(Current, event)
           last == Cardinality(Present(Kind(Version)))
           room == IF Version = 1 THEN Limit ELSE Wide
           into == IF last > 0 /\ Len(live[Segment(Kind(Version), last)].chain) < room
                   THEN last ELSE last + 1
           due == Len(chain) % Interval = 0
<1>5. /\ last \in Nat /\ Present(Kind(Version)) = 1..last /\ last <= Len(Current)
  BY <1>1, <1>2, SegmentsAre
<1>6. Len(Current) \in Nat BY <1>1, ChainTypes, ChainIs
<1>7. /\ live' = [n \in Name |->
                  CASE n = Segment(Kind(Version), into) -> Has(Version, Append(live[n].chain, event))
                    [] n = Sidecars /\ Version = 2        -> Has(2, chain)
                    [] n \in {Part, Manifest} /\ due      -> Has(Version, chain)
                    [] OTHER                              -> live[n]]
      /\ acked' = acked \cup {event}
      /\ UNCHANGED <<backup, marker, lease, op, outcome>>
  BY <1>2 DEF AppendEvent
<1> HIDE DEF event, chain, last, due
<1>8. into = last \/ into = last + 1 OBVIOUS
<1>9. into \in 1..MaxEvents /\ into \in Nat
  <2>1. into = last => last > 0 BY <1>5
  <2>2. QED BY <1>4, <1>5, <1>6, <1>8, <2>1, Constants
<1>10. Version = 1 =>
          /\ into = last => Len(live[Segment(Kind(Version), last)].chain) < Limit
          /\ into # last /\ last > 0 => ~(Len(live[Segment(Kind(Version), last)].chain) < Limit)
  BY <1>5
<1> HIDE DEF into
<1>11. ASSUME NEW n \in Name
       PROVE  live'[n] =
          IF n = Segment(Kind(Version), into) THEN Has(Version, Append(live[n].chain, event))
          ELSE IF n = Sidecars THEN (IF Version = 2 THEN Has(2, chain) ELSE live[n])
          ELSE IF n \in {Part, Manifest} THEN (IF due THEN Has(Version, chain) ELSE live[n])
          ELSE live[n]
  <2>1. Segment(Kind(Version), into) \in Jsons \cup Ndjsons BY <1>9, KindIs, Names
  <2>2. /\ Segment(Kind(Version), into) # Sidecars
        /\ Segment(Kind(Version), into) \notin {Part, Manifest}
        /\ Sidecars \notin {Part, Manifest}
    BY <2>1, Names DEF Olds
  <2>3. QED BY <1>7, <2>2
<1>12. DOMAIN live' = Name /\ live' = [n \in Name |-> live'[n]] BY <1>7
<1>13. due \in BOOLEAN BY DEF due
<1>14. event \in Events /\ chain \in Chains
  <2>1. Current \in Chains /\ event \in Events BY <1>1, <1>4, ChainTypes, EventIs DEF event
  <2>2. QED BY <2>1, AppendProperties DEF chain, Chains
<1>15. Kind(Version) \in {"json", "ndjson"} BY KindIs
<1>16. Appends(Kind(Version), last, into, event, chain, due)
  BY <1>1, <1>2, <1>5, <1>7, <1>8, <1>9, <1>10, <1>11, <1>12, <1>13, <1>14, <1>15 DEF Appends, chain
<1>17. QED BY <1>2, <1>3, <1>4, <1>16 DEF event, chain

LEMMA AppendFiles ==
    ASSUME NEW kind, NEW last, NEW into, NEW event, NEW chain, NEW due,
           Appends(kind, last, into, event, chain, due)
    PROVE  /\ live' \in Directory /\ FilesFilled' /\ Version' = Version /\ Kind(Version)' = kind
           /\ \A k \in 1..MaxEvents :
                 live'[Segment(kind, k)] = IF k = into THEN Has(Version, Append(live[Segment(kind, k)].chain, event))
                                           ELSE live[Segment(kind, k)]
           /\ Present(kind)' = 1..into
           /\ Present(Kind(3 - Version))' = {}
           /\ live'[Sidecars] = IF Version = 2 THEN Has(2, chain) ELSE live[Sidecars]
           /\ \A n \in {Part, Manifest} : live'[n] = IF due THEN Has(Version, chain) ELSE live[n]
<1>0. /\ TypeOK /\ FilesFilled /\ Readable
      /\ kind \in {"json", "ndjson"} /\ last \in Nat /\ into \in Nat /\ due \in BOOLEAN
      /\ event \in Events /\ chain \in Chains
  BY DEF Appends
<1>1. /\ kind = Kind(Version) /\ Present(kind) = 1..last /\ into \in 1..MaxEvents
      /\ into = last \/ into = last + 1
      /\ live' = [n \in Name |-> live'[n]] /\ backup' = backup
  BY DEF Appends
<1>2. ASSUME NEW n \in Name
      PROVE  live'[n] =
          IF n = Segment(kind, into) THEN Has(Version, Append(live[n].chain, event))
          ELSE IF n = Sidecars THEN (IF Version = 2 THEN Has(2, chain) ELSE live[n])
          ELSE IF n \in {Part, Manifest} THEN (IF due THEN Has(Version, chain) ELSE live[n])
          ELSE live[n]
  BY DEF Appends
<1>3. Version \in {1, 2} /\ (Version = 1 => Kind(3 - Version) = "ndjson") /\ (Version = 2 => Kind(3 - Version) = "json")
      /\ (Version = 1 => kind = "json") /\ (Version = 2 => kind = "ndjson")
  BY <1>0, <1>1, VersionIs
<1>4. ASSUME NEW n \in Name
      PROVE  /\ Has(Version, Append(live[n].chain, event)) \in Full
             /\ live[n] \in File
  <2>1. live[n] \in File /\ live[n].chain \in Seq(Events)
    BY <1>0, FileIs DEF TypeOK, Directory, Chains
  <2>2. Append(live[n].chain, event) \in Seq(Events) /\ Append(live[n].chain, event) # <<>>
    BY <1>0, <2>1, AppendProperties
  <2>3. Append(live[n].chain, event) \in Chains /\ Version \in 0..2 /\ Version # 0
    BY <1>0, <1>3, <2>2 DEF Chains
  <2>4. QED BY <1>0, <2>1, <2>2, <2>3, HasIs DEF Full
<1>5. Has(Version, chain) \in File /\ Has(2, chain) \in File BY <1>0, <1>3, HasIs
<1>6. live' \in Directory
  <2>1. \A n \in Name : live'[n] \in File BY <1>0, <1>2, <1>4, <1>5 DEF Full
  <2>2. QED BY <1>0, <1>1, <2>1 DEF Directory
<1>7. Segment(kind, into) \in Jsons \cup Ndjsons /\ Segment(kind, into) \in Name
  BY <1>0, <1>1, Names
<1>8. /\ Segment(kind, into) # Sidecars /\ Segment(kind, into) # Metadata
      /\ Segment(kind, into) \notin {Part, Manifest}
      /\ Sidecars \notin {Part, Manifest} /\ Metadata \notin {Part, Manifest} /\ Metadata # Sidecars
      /\ {Part, Manifest, Metadata, Sidecars} \subseteq Name
  BY <1>0, <1>7, Names DEF Olds
<1>9. live'[Metadata] = live[Metadata] /\ Version' = Version BY <1>0, <1>2, <1>8 DEF Version
<1>10. Kind(Version)' = kind BY <1>0, <1>1, <1>9
<1>11. ASSUME NEW n \in Jsons \cup Ndjsons
       PROVE  live'[n] = IF n = Segment(kind, into) THEN Has(Version, Append(live[n].chain, event)) ELSE live[n]
  <2>1. n \in Name /\ n # Sidecars /\ n \notin {Part, Manifest} BY <1>0, Names DEF Olds
  <2>2. QED BY <1>0, <1>2, <2>1
<1>12. FilesFilled'
  <2>1. \A n \in Jsons \cup Ndjsons : live'[n] \in Full \cup {Absent}
    <3>1. Jsons \cup Ndjsons \subseteq Name BY <1>0, Names
    <3>2. QED BY <1>0, <1>4, <1>11, <3>1 DEF FilesFilled
  <2>2. QED BY <1>0, <1>1, <1>9, <2>1 DEF FilesFilled
<1>13. ASSUME NEW k \in 1..MaxEvents
       PROVE  live'[Segment(kind, k)] = IF k = into THEN Has(Version, Append(live[Segment(kind, k)].chain, event))
                                        ELSE live[Segment(kind, k)]
  <2>1. Segment(kind, k) \in Jsons \cup Ndjsons BY <1>0, Names
  <2>2. Segment(kind, k) = Segment(kind, into) <=> k = into BY <1>0, Names
  <2>3. QED BY <1>0, <1>11, <2>1, <2>2
<1>14. Present(kind)' = 1..into
  <2>1. live'[Segment(kind, into)] # Absent
    BY <1>0, <1>1, <1>4, <1>7, <1>13, AbsentIs DEF Full
  <2>2. ASSUME NEW k \in 1..MaxEvents
        PROVE  live'[Segment(kind, k)] # Absent <=> k = into \/ k \in 1..last
    <3>1. live[Segment(kind, k)] # Absent <=> k \in 1..last BY <1>0, <1>1 DEF Present
    <3>2. QED BY <1>0, <1>13, <2>1, <3>1
  <2>3. \A k : k \in 1..into <=> k \in 1..MaxEvents /\ (k = into \/ k \in 1..last)
    BY <1>0, <1>1, Constants
  <2>4. QED BY <1>0, <2>2, <2>3 DEF Present
<1>15. Present(Kind(3 - Version))' = {}
  <2>1. PICK other \in {"json", "ndjson"} : other = Kind(3 - Version) BY <1>0, KindIs
  <2>2. Present(other) = {} BY <1>0, <2>1 DEF Readable
  <2>3. other # kind BY <1>0, <1>3, <2>1
  <2>4. ASSUME NEW k \in 1..MaxEvents PROVE live'[Segment(other, k)] = Absent
    <3>1. Segment(other, k) \in Jsons \cup Ndjsons BY <1>0, Names
    <3>2. Segment(other, k) # Segment(kind, into) BY <1>0, <2>3 DEF Segment
    <3>3. live[Segment(other, k)] = Absent BY <1>0, <2>2 DEF Present
    <3>4. QED BY <1>0, <1>11, <3>1, <3>2, <3>3
  <2>5. Absent' = Absent BY DEF Absent, Has
  <2>6. Present(other)' = {} BY <1>0, <2>4, <2>5 DEF Present
  <2>7. Kind(3 - Version)' = other BY <1>0, <1>9, <2>1
  <2>8. QED BY <1>0, <2>6, <2>7
<1>16. live'[Sidecars] = IF Version = 2 THEN Has(2, chain) ELSE live[Sidecars] BY <1>0, <1>2, <1>8
<1>17. \A n \in {Part, Manifest} : live'[n] = IF due THEN Has(Version, chain) ELSE live[n]
  BY <1>0, <1>2, <1>8
<1>18. QED BY <1>0, <1>6, <1>9, <1>10, <1>12, <1>13, <1>14, <1>15, <1>16, <1>17

LEMMA AppendChain ==
    ASSUME NEW kind, NEW last, NEW into, NEW event, NEW chain, NEW due,
           Appends(kind, last, into, event, chain, due)
    PROVE  Current' = chain
<1>0. /\ TypeOK /\ FilesFilled /\ Readable
      /\ kind \in {"json", "ndjson"} /\ last \in Nat /\ into \in Nat /\ due \in BOOLEAN
      /\ event \in Events /\ chain \in Chains
  BY DEF Appends
<1>1. /\ kind = Kind(Version) /\ Present(kind) = 1..last /\ into \in 1..MaxEvents
      /\ into = last \/ into = last + 1
      /\ chain = Append(Current, event)
  BY DEF Appends
<1>2. /\ live' \in Directory /\ Kind(Version)' = kind /\ Present(kind)' = 1..into
      /\ \A k \in 1..MaxEvents :
            live'[Segment(kind, k)] = IF k = into THEN Has(Version, Append(live[Segment(kind, k)].chain, event))
                                      ELSE live[Segment(kind, k)]
  BY <1>0, AppendFiles
<1> DEFINE front == Numbered(kind, 1 .. into - 1)
           n == Segment(kind, into)
<1>3. into - 1 \in Nat /\ (into - 1) + 1 = into /\ into <= MaxEvents BY <1>0, <1>1, Constants
<1>4. Numbered(kind, 1..into) = Append(front, n) BY <1>0, <1>3, NumberedNext
<1>5. /\ front \in Seq(Name) /\ Len(front) = into - 1
      /\ \A k \in 1 .. into - 1 : k \in 1..MaxEvents /\ front[k] = Segment(kind, k)
  <2>1. 1 .. into - 1 \in SUBSET (1..MaxEvents) BY <1>0, <1>1, <1>3, Constants
  <2>2. Cardinality(1 .. into - 1) = into - 1 BY <1>0, <1>3, CardinalityTo
  <2>3. QED BY <1>0, <2>1, <2>2, NumberedType
<1>6. n \in Name BY <1>0, <1>1, Names
<1>7. live \in Directory BY <1>0 DEF TypeOK
<1>8. Current = Joined(front, live) \o live[n].chain
  <2>1. Current = Joined(Numbered(kind, 1..last), live) BY <1>0, <1>1 DEF Current, Listed
  <2>2. CASE into = last
    <3>1. Numbered(kind, 1..last) = Append(front, n) BY <1>0, <1>4, <2>2
    <3> HIDE DEF front, n
    <3>2. QED BY <1>0, <1>5, <1>6, <1>7, <2>1, <3>1, JoinedAppend
  <2>3. CASE into = last + 1
    <3>1. Numbered(kind, 1..last) = front BY <1>0, <2>3
    <3>2. into \notin 1..last BY <1>0, <2>3
    <3>3. live[n] = Absent BY <1>0, <1>1, <3>2 DEF Present
    <3>4. Joined(front, live) \in Seq(Events) BY <1>0, <1>5, <1>7, JoinedType DEF Chains
    <3> HIDE DEF front, n
    <3>5. Joined(front, live) \o <<>> = Joined(front, live) BY <1>0, <3>4
    <3>6. QED BY <1>0, <2>1, <3>1, <3>3, <3>5, AbsentIs
  <2>4. QED BY <1>0, <1>1, <2>2, <2>3
<1>9. \A i \in 1..Len(front) : live'[front[i]].chain = live[front[i]].chain
  <2>1. \A i \in 1..Len(front) : i # into /\ i \in 1..MaxEvents /\ front[i] = Segment(kind, i)
    BY <1>0, <1>3, <1>5
  <2>2. QED BY <1>0, <1>2, <2>1
<1>10. live'[n].chain = Append(live[n].chain, event)
  <2>1. live'[n] = Has(Version, Append(live[n].chain, event)) BY <1>0, <1>1, <1>2
  <2>2. QED BY ONLY <2>1 DEF Has
<1> HIDE DEF front, n
<1>11. Joined(Append(front, n), live') = Append(Joined(front, live) \o live[n].chain, event)
  BY <1>0, <1>2, <1>5, <1>6, <1>7, <1>9, <1>10, JoinedGrows
<1>12. Current' = Joined(Numbered(kind, 1..into), live')
  <2>1. Listed(kind)' = Numbered(kind, 1..into) BY <1>0, <1>2 DEF Listed
  <2>2. QED BY <1>0, <1>2, <2>1 DEF Current
<1>13. QED BY <1>0, <1>1, <1>4, <1>8, <1>11, <1>12

LEMMA WholePrefix == ASSUME NEW c \in Chains PROVE IsPrefix(c, c)
BY ChainIs DEF IsPrefix

LEMMA AppendReadable ==
    ASSUME NEW kind, NEW last, NEW into, NEW n \in Nat, NEW chain, NEW due,
           Appends(kind, last, into, Event(n, Current), chain, due)
    PROVE  Readable'
<1>0. /\ TypeOK /\ FilesFilled /\ Readable
      /\ kind \in {"json", "ndjson"} /\ last \in Nat /\ into \in Nat /\ due \in BOOLEAN
      /\ Event(n, Current) \in Events /\ chain \in Chains
  BY DEF Appends
<1>1. /\ kind = Kind(Version) /\ Present(kind) = 1..last /\ into \in 1..MaxEvents
      /\ into = last \/ into = last + 1
      /\ chain = Append(Current, Event(n, Current))
      /\ Version = 1 => /\ into = last => Len(live[Segment(kind, last)].chain) < Limit
                        /\ into # last /\ last > 0 => ~(Len(live[Segment(kind, last)].chain) < Limit)
  BY DEF Appends
<1>2. /\ live' \in Directory /\ FilesFilled' /\ Version' = Version /\ Kind(Version)' = kind
      /\ \A k \in 1..MaxEvents :
            live'[Segment(kind, k)] = IF k = into
                THEN Has(Version, Append(live[Segment(kind, k)].chain, Event(n, Current)))
                ELSE live[Segment(kind, k)]
      /\ Present(kind)' = 1..into
      /\ Present(Kind(3 - Version))' = {}
      /\ live'[Sidecars] = IF Version = 2 THEN Has(2, chain) ELSE live[Sidecars]
      /\ \A m \in {Part, Manifest} : live'[m] = IF due THEN Has(Version, chain) ELSE live[m]
  BY AppendFiles
<1>3. Current' = chain BY AppendChain
<1>4. Cardinality(1..last) = last /\ Cardinality(1..into) = into BY <1>0, CardinalityTo
<1>5. Version \in {1, 2} BY <1>0, VersionIs
<1>6. Version = 1 => live'[Sidecars] = Absent BY <1>0, <1>2 DEF Readable
<1>7. Current \in Chains /\ Linked(Current) BY <1>0, ChainTypes DEF Readable
<1>8. Linked(chain) BY <1>1, <1>7, LinkedNext
<1>9. ASSUME Version = 1, NEW k \in 1..into
      PROVE  /\ Len(live'[Segment(kind, k)].chain) <= Limit
             /\ k < into => Len(live'[Segment(kind, k)].chain) = Limit
  <2> DEFINE f == live[Segment(kind, k)]
  <2>1. k \in 1..MaxEvents /\ k \in Nat BY <1>1, Constants
  <2>2. Segment(kind, k) \in Name BY <1>0, <2>1, Names
  <2>3. f \in File /\ f.chain \in Seq(Events) /\ Len(f.chain) \in Nat
    BY <1>0, <2>2, FileIs, ChainIs DEF TypeOK, Directory, Chains
  <2>4. live'[Segment(kind, k)] = IF k = into THEN Has(Version, Append(f.chain, Event(n, Current))) ELSE f
    BY <1>2, <2>1
  <2>5. Limit \in Nat \ {0} BY Constants
  <2>6. k \in 1..last => Len(f.chain) <= Limit /\ (k < last => Len(f.chain) = Limit)
    BY <1>0, <1>1, <1>4, <1>9 DEF Readable
  <2>7. CASE k = into
    <3>1. live'[Segment(kind, k)].chain = Append(f.chain, Event(n, Current)) BY <2>4, <2>7 DEF Has
    <3>2. Len(live'[Segment(kind, k)].chain) = Len(f.chain) + 1
      BY <1>0, <2>3, <3>1, AppendProperties
    <3>3. Len(f.chain) + 1 <= Limit
      <4>1. CASE into = last
        <5>1. Len(f.chain) < Limit BY <1>1, <1>9, <2>7, <4>1
        <5>2. QED BY <5>1, <2>3, <2>5
      <4>2. CASE into = last + 1
        <5>1. k \notin 1..last BY <2>7, <4>2, <1>0
        <5>2. f = Absent BY <1>1, <2>1, <5>1 DEF Present
        <5>3. Len(f.chain) = 0 BY <5>2, AbsentIs
        <5>4. QED BY <5>3, <2>5
      <4>3. QED BY <1>1, <4>1, <4>2
    <3>4. QED BY <2>3, <2>5, <2>7, <3>2, <3>3
  <2>8. CASE k # into
    <3>1. live'[Segment(kind, k)] = f /\ k < into /\ k \in 1..last BY <1>0, <1>1, <2>1, <2>4, <2>8
    <3>2. Len(f.chain) = Limit
      <4>1. CASE k < last BY <2>6, <3>1, <4>1
      <4>2. CASE k = last
        <5>1. ~(Len(f.chain) < Limit) BY <1>0, <1>1, <1>9, <2>8, <3>1, <4>2
        <5>2. QED BY <2>3, <2>5, <2>6, <3>1, <5>1
      <4>3. QED BY <1>0, <3>1, <4>1, <4>2
    <3>3. QED BY <2>5, <3>1, <3>2
  <2>9. QED BY <2>7, <2>8
<1>10. \/ live'[Part] = Absent /\ live'[Manifest] = Absent
       \/ /\ live'[Manifest].version = Version /\ live'[Manifest].chain # <<>>
          /\ live'[Part] = live'[Manifest]
          /\ IsPrefix(live'[Manifest].chain, chain)
  <2>1. CASE due
    <3>1. live'[Part] = Has(Version, chain) /\ live'[Manifest] = Has(Version, chain) BY <1>2, <2>1
    <3>2. Has(Version, chain).version = Version /\ Has(Version, chain).chain = chain
      BY <1>0, <1>5, HasIs
    <3>3. chain # <<>> BY <1>0, <1>1, <1>7, AppendProperties DEF Chains
    <3>4. QED BY <1>0, <3>1, <3>2, <3>3, WholePrefix
  <2>2. CASE ~due
    <3>1. live'[Part] = live[Part] /\ live'[Manifest] = live[Manifest] BY <1>2, <2>2
    <3>2. live[Manifest].chain \in Chains
      BY <1>0, Names, FileIs DEF TypeOK, Directory
    <3>3. IsPrefix(live[Manifest].chain, Current) => IsPrefix(live[Manifest].chain, chain)
      BY <1>0, <1>1, <1>7, <3>2, PrefixNext
    <3>4. QED BY <1>0, <3>1, <3>3 DEF Readable
  <2>3. QED BY <1>0, <2>1, <2>2
<1>11. Present(kind)' = 1..Cardinality(Present(kind)') BY <1>2, <1>4
<1>12. Version' = 1 => \A k \in Present(kind)' :
          /\ Len(live'[Segment(kind, k)].chain) <= Limit
          /\ k < Cardinality(Present(kind)') => Len(live'[Segment(kind, k)].chain) = Limit
  BY <1>2, <1>4, <1>9
<1>13. Absent' = Absent BY DEF Absent, Has
<1>14. Linked(Current)' BY <1>3, <1>8 DEF Linked
<1>15. Present(Kind(3 - Version))' = {} BY <1>2
<1>16. /\ Version' = 1 => live'[Sidecars] = Absent'
       /\ \/ live'[Part] = Absent' /\ live'[Manifest] = Absent'
          \/ /\ live'[Manifest].version = Version' /\ live'[Manifest].chain # <<>>
             /\ live'[Part] = live'[Manifest]
             /\ IsPrefix(live'[Manifest].chain, Current')
  BY <1>2, <1>3, <1>6, <1>10, <1>13
<1>17. QED BY <1>2, <1>11, <1>12, <1>14, <1>15, <1>16 DEF Readable

LEMMA AppendStep ==
    ASSUME MigrationInv, AppendEvent, AppendsBetween = FALSE
    PROVE  /\ MigrationInv'
           /\ \E event \in Events : /\ event.seq = Len(Effective) + 1
                                    /\ Effective' = Append(Effective, event)
                                    /\ acked' = acked \cup {event}
<1>1. /\ ~marker.set /\ lease = NoOperator /\ Readable /\ Effective = Current
      /\ issued + 1 \in 0..MaxEvents /\ Len(Current) <= issued
  BY AppendIs
<1>2. TypeOK /\ FilesOK /\ FilesFilled BY DEF MigrationInv, FilesOK
<1>3. PICK event \in Events : event = Event(issued + 1, Current) /\ event.seq = Len(Current) + 1
  BY <1>1, <1>2, ChainTypes, EventIs
<1>4. PICK chain \in Chains : chain = Append(Current, event)
  BY <1>2, ChainTypes, AppendProperties DEF Chains
<1>5. PICK kind, last, into, due : Appends(kind, last, into, event, chain, due)
  BY <1>3, <1>4, AppendIs
<1>6. /\ live' \in Directory /\ FilesFilled' /\ Version' = Version /\ Current' = chain
      /\ Version = 2 => live'[Sidecars] = Has(2, chain)
      /\ acked' = acked \cup {event} /\ issued' = issued + 1
      /\ UNCHANGED <<backup, marker, lease, op, outcome>>
  <2>1. live' \in Directory /\ FilesFilled' /\ Version' = Version BY ONLY <1>5, AppendFiles
  <2>2. Version = 2 => live'[Sidecars] = Has(2, chain) BY ONLY <1>5, AppendFiles
  <2>3. Current' = chain BY ONLY <1>5, AppendChain
  <2>4. /\ acked' = acked \cup {event} /\ issued' = issued + 1
        /\ UNCHANGED <<backup, marker, lease, op, outcome>>
    BY ONLY <1>5 DEF Appends
  <2>5. QED BY <2>1, <2>2, <2>3, <2>4
<1>7. Readable' BY <1>1, <1>3, <1>5, AppendReadable
<1>8. Effective' = chain BY <1>1, <1>6, <1>7 DEF Effective
<1>9. /\ Len(chain) = Len(Current) + 1 /\ Len(Current) \in Nat
      /\ \A i \in 1..Len(Current) : chain[i] = Current[i]
      /\ chain[Len(Current) + 1] = event
  BY <1>2, <1>4, ChainTypes, AppendProperties DEF Chains
<1>10. TypeOK' BY <1>1, <1>2, <1>6 DEF TypeOK
<1>11. FilesOK'
  <2>1. Len(Effective') <= issued'
    <3>1. issued \in Nat BY <1>2, Constants DEF TypeOK
    <3>2. QED BY <3>1, <1>1, <1>6, <1>8, <1>9
  <2>2. ASSUME NEW e \in acked' PROVE \E i \in 1..Len(chain) : chain[i] = e
    <3>1. CASE e = event BY <1>9, <3>1
    <3>2. CASE e \in acked
      <4>1. PICK i \in 1..Len(Current) : Current[i] = e BY <1>1, <1>2, <3>2 DEF FilesOK
      <4>2. i \in 1..Len(chain) /\ chain[i] = e BY <1>9, <4>1
      <4>3. QED BY <4>2
    <3>3. QED BY <1>6, <3>1, <3>2
  <2>3. QED BY <1>1, <1>6, <1>7, <1>8, <2>1, <2>2 DEF FilesOK
<1>12. Upgraded => Upgraded' BY <1>6 DEF Upgraded
<1>13. ASSUME NEW p \in Operator PROVE OpOK(p)'
  <2>1. Excluded(p) /\ Due(p) BY DEF MigrationInv, OpOK
  <2>2. op'[p] = op[p] BY <1>6
  <2>3. Idle' = Idle BY DEF Idle, NoMarker
  <2>4. Alone(p)' = Alone(p) BY <1>6, <2>3 DEF Alone
  <2>5. Excluded(p)' BY <1>6, <2>1, <2>3, <2>4 DEF Excluded, Solitary
  <2>6. op[p].at \notin Working /\ op[p].at # "lockToRestore"
    <3>1. op[p].at \notin Working BY <1>1, <2>1, Constants DEF Excluded
    <3>2. op[p].at # "lockToRestore" BY <1>1, <2>1 DEF Due, JobOK
    <3>3. QED BY <3>1, <3>2
  <2>7. Due(p)' BY <1>1, <1>6, <1>12, <2>1, <2>2, <2>6 DEF Due, JobOK, Releasing, Working, Restoring
  <2>8. QED BY <2>5, <2>7 DEF OpOK
<1>14. Shows' BY <1>1, <1>6 DEF Shows
<1>15. Ended' BY <1>6, <1>12 DEF MigrationInv, Ended
<1>16. MigrationInv' BY <1>10, <1>11, <1>13, <1>14, <1>15 DEF MigrationInv
<1>17. QED BY <1>1, <1>3, <1>4, <1>6, <1>8, <1>16

LEMMA SameFilesStep ==
    ASSUME MigrationInv, UNCHANGED <<files, lease, op, outcome, history>>
    PROVE  MigrationInv' /\ Effective' = Effective
<1>1. UNCHANGED files /\ UNCHANGED <<live, backup, marker, lease, op, outcome, acked, issued>>
  BY DEF files, history
<1>2. Effective' = Effective /\ Upgraded' = Upgraded BY <1>1, SameFiles
<1>3. TypeOK' BY <1>1 DEF MigrationInv, TypeOK
<1>4. FilesOK' BY <1>1, <1>2, SameFiles DEF MigrationInv, FilesOK
<1>5. ASSUME NEW p \in Operator PROVE OpOK(p)'
  <2>1. Excluded(p) /\ Due(p) BY DEF MigrationInv, OpOK
  <2>2. Idle' = Idle BY DEF Idle, NoMarker
  <2>3. Alone(p)' = Alone(p) BY <1>1, <2>2 DEF Alone
  <2>4. Excluded(p)' BY <1>1, <2>1, <2>2, <2>3 DEF Excluded, Solitary
  <2>5. Due(p)' BY <1>1, <2>1, SameDue DEF Due
  <2>6. QED BY <2>4, <2>5 DEF OpOK
<1>6. Shows' BY <1>1, SameFiles DEF MigrationInv, Shows
<1>7. Ended' BY <1>1, <1>2 DEF MigrationInv, Ended
<1>8. QED BY <1>2, <1>3, <1>4, <1>5, <1>6, <1>7 DEF MigrationInv

-----------------------------------------------------------------------------
(* Every step keeps the invariant, and the chain but for one event more.    *)
LEMMA EveryStep ==
    ASSUME MigrationInv, [Next]_vars, Overlapping = FALSE, AppendsBetween = FALSE
    PROVE  /\ MigrationInv'
           /\ \/ Effective' = Effective /\ acked' = acked
              \/ \E event \in Events : /\ event.seq = Len(Effective) + 1
                                       /\ Effective' = Append(Effective, event)
                                       /\ acked' = acked \cup {event}
<1>1. CASE UNCHANGED vars
  <2>1. UNCHANGED <<files, lease, op, outcome, history>> /\ acked' = acked
    BY <1>1 DEF vars, files, history
  <2>2. QED BY <2>1, SameFilesStep
<1>2. ASSUME NEW p \in Operator, Step(p) \/ BeginMigrate(p) \/ BeginRollback(p) \/ Stop(p)
      PROVE  MigrationInv' /\ Effective' = Effective
  <2>1. CASE Step(p)
    BY <2>1, LockStep, WorkStep, PrepareStep, CheckStep, RecheckStep, VerifyStep, MigratedStep,
       ClearStep, ClearSnapshotsStep, RestoreStep, ValidateStep, RolledBackStep DEF Step
  <2>2. CASE BeginMigrate(p) BY <2>2, BeginMigrateStep
  <2>3. CASE BeginRollback(p) BY <2>3, BeginRollbackStep
  <2>4. CASE Stop(p) BY <2>4, StopStep
  <2>5. QED BY <1>2, <2>1, <2>2, <2>3, <2>4
<1>3. ASSUME NEW p \in Operator, Step(p) \/ BeginMigrate(p) \/ BeginRollback(p) \/ Stop(p)
      PROVE  acked' = acked
  BY <1>3 DEF Step, BeginMigrate, BeginRollback, Stop, Lock, Work, Prepare, Check, Recheck, Verify,
       Migrated, Clear, ClearSnapshots, Restore, Validate, RolledBack, history
<1>4. CASE AppendEvent BY <1>4, AppendStep
<1>5. CASE RebuildViews
  <2>1. UNCHANGED <<files, lease, op, outcome, history>> /\ acked' = acked
    BY <1>5 DEF RebuildViews, history
  <2>2. QED BY <2>1, SameFilesStep
<1>6. QED BY <1>1, <1>2, <1>3, <1>4, <1>5 DEF Next

(* Wherever a migration, a rollback or a command is, and however it was      *)
(* interrupted: who is at work has the lease, the calls an operation has     *)
(* left lead where it says, and the backup a marker stands for is whole      *)
(* until the files show the same chain.                                     *)
THEOREM MigrationInvariant ==
    ASSUME Overlapping = FALSE, AppendsBetween = FALSE PROVE Spec => []MigrationInv
<1>1. Init => MigrationInv BY Initially
<1>2. MigrationInv /\ [Next]_vars => MigrationInv' BY EveryStep
<1>3. QED BY <1>1, <1>2, PTL DEF Spec

(* A migration that reports WORKSPACE_STORAGE_MIGRATION_VERIFIED left a     *)
(* workspace of version 2 that can be read, whose sidecars cover its chain *)
(* and whose backup is gone; one that was rolled back can be read.          *)
THEOREM OutcomeSound ==
    ASSUME Overlapping = FALSE, AppendsBetween = FALSE PROVE Spec => []OutcomeIsTrue
<1>1. MigrationInv => OutcomeIsTrue
  BY DEF MigrationInv, FilesOK, Ended, OutcomeIsTrue, Upgraded
<1>2. QED BY <1>1, MigrationInvariant, PTL

(* Every event a command reported is in the chain, as soon as no operation  *)
(* runs and none left a backup.                                            *)
THEOREM HistoryKept ==
    ASSUME Overlapping = FALSE, AppendsBetween = FALSE PROVE Spec => []ReportedIsKept
<1>1. MigrationInv => ReportedIsKept BY DEF MigrationInv, FilesOK, Effective, ReportedIsKept
<1>2. QED BY <1>1, MigrationInvariant, PTL

(* A step extends the chain or leaves it.                                   *)
LEMMA ChainStep ==
    ASSUME MigrationInv, [Next]_vars, Overlapping = FALSE, AppendsBetween = FALSE
    PROVE  [Chain!Next]_<<Effective, acked>>
<1>1. CASE Effective' = Effective /\ acked' = acked BY <1>1
<1>2. CASE \E event \in Events : /\ event.seq = Len(Effective) + 1
                                 /\ Effective' = Append(Effective, event)
                                 /\ acked' = acked \cup {event}
  <2>1. PICK event \in Events : /\ event.seq = Len(Effective) + 1
                                /\ Effective' = Append(Effective, event)
                                /\ acked' = acked \cup {event}
    BY <1>2
  <2> DEFINE c == Effective
             d == Append(c, event)
  <2>2. c \in Seq(Events) BY ChainTypes DEF MigrationInv, Chains
  <2> HIDE DEF c
  <2>3. /\ d \in Seq(Events) /\ Len(d) = Len(c) + 1 /\ Len(c) \in Nat
        /\ \A i \in 1..Len(c) : d[i] = c[i]
        /\ d[Len(c) + 1] = event
    BY <2>2, AppendProperties
  <2> HIDE DEF d
  <2>4. SubSeq(d, 1, Len(c)) = c
    <3>1. \A i \in 1..Len(c) : d[i] \in Events BY <2>3, ElementOfSeq
    <3>2. /\ SubSeq(d, 1, Len(c)) \in Seq(Events) /\ Len(SubSeq(d, 1, Len(c))) = Len(c)
          /\ \A i \in 1..Len(c) : SubSeq(d, 1, Len(c))[i] = d[i]
      BY <2>3, <3>1, SubSeqProperties
    <3>3. QED BY <2>2, <2>3, <3>2, SeqEqual
  <2>5. Len(d) >= Len(c) /\ \A i \in Len(c) + 1 .. Len(d) : d[i].seq = i
    BY <2>1, <2>3 DEF c
  <2>6. Effective' = d /\ Effective = c BY <2>1 DEF d, c
  <2>7. Chain!Extended BY <2>4, <2>5, <2>6 DEF Chain!Extended
  <2>8. Len(c) + 1 \in 1..Len(d) BY <2>3
  <2>9. Chain!Reported BY <2>1, <2>3, <2>6, <2>8 DEF Chain!Reported
  <2>10. QED BY <2>7, <2>9 DEF Chain!Next
<1>3. QED BY <1>1, <1>2, EveryStep

(* Migrations and rollbacks do not touch the history: the chain a workspace *)
(* stands for is an append-only chain of events, as EventChain promises,    *)
(* through every interruption and retry.                                   *)
THEOREM MigrationKeepsChain ==
    ASSUME Overlapping = FALSE, AppendsBetween = FALSE PROVE Spec => ImplementsEventChain
<1>1. Init => Chain!Init BY Initially DEF Init, Chain!Init
<1>2. MigrationInv /\ [Next]_vars => [Chain!Next]_<<Effective, acked>> BY ChainStep
<1>3. QED BY <1>1, <1>2, MigrationInvariant, PTL DEF Spec, ImplementsEventChain, Chain!Spec
=============================================================================
