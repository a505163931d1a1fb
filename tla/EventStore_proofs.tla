------------------------- MODULE EventStore_proofs -------------------------
(***************************************************************************)
(* Proofs about EventStore for any limit, interval, batch, chain and       *)
(* number of views, of faults and of rebuilds.                              *)
(*                                                                         *)
(* Files of a chain ascend without gaps (Steady): that is a fact about a    *)
(* recursive placement, shown by the least counterexample (Least).  From it *)
(* rewriting one segment file extends the log by what the chain being       *)
(* written has in that file (Rewriting), and with what is left of each job *)
(* the invariant StoreInv is inductive.                                     *)
(***************************************************************************)
EXTENDS EventStore, WellFoundedInduction, SequenceTheorems, TLAPS

(* Induction over numbers, as a fact about sets. *)
LEMMA Least ==
    ASSUME NEW T \in SUBSET Nat, T # {}
    PROVE  \E x \in T : \A y \in T : x <= y
<1> DEFINE R == OpToRel(<, Nat)
<1>1. \E x \in T : \A y \in T : ~(<<y, x>> \in R)
  <2>1. T \subseteq Nat OBVIOUS
  <2>2. QED BY ONLY <2>1, T # {}, NatLessThanWellFounded, WFMin
<1>2. \A y, x \in Nat : y < x => <<y, x>> \in R BY DEF OpToRel
<1> HIDE DEF R
<1>3. PICK x \in T : \A y \in T : ~(<<y, x>> \in R) BY <1>1
<1>4. ASSUME NEW y \in T PROVE x <= y
  <2>1. x \in Nat /\ y \in Nat OBVIOUS
  <2>2. ~(<<y, x>> \in R) BY <1>3
  <2>3. ~(y < x) BY ONLY <2>1, <2>2, <1>2
  <2>4. QED BY ONLY <2>1, <2>3
<1>5. QED BY <1>4

(* What holds of 0, and of n + 1 when of n, holds up to any bound: stated   *)
(* of the set of numbers it holds of.                                       *)
LEMMA Induction ==
    ASSUME NEW n \in Nat, NEW H, 0 \in H, \A i \in 0 .. n - 1 : i \in H => i + 1 \in H
    PROVE  0 .. n \subseteq H
<1> DEFINE T == {i \in 0 .. n : i \notin H}
<1>1. SUFFICES ASSUME T # {} PROVE FALSE OBVIOUS
<1>2. T \in SUBSET Nat OBVIOUS
<1>3. PICK x \in T : \A y \in T : x <= y
  <2> HIDE DEF T
  <2>1. QED BY <1>1, <1>2, Least
<1>4. x \in 0 .. n /\ x \notin H OBVIOUS
<1>5. x # 0 BY <1>4
<1>6. x - 1 \in 0 .. n - 1 BY <1>4, <1>5
<1>7. x - 1 \in H
  <2>1. x - 1 \notin T BY <1>3, <1>4
  <2>2. QED BY <2>1, <1>6, <1>4
<1>8. QED BY <1>6, <1>7, <1>4

-----------------------------------------------------------------------------
Phase == {"idle", "segments", "checkpoint", "views", "sweep", "replay", "rebuildViews", "digest"}
Kind == {"segment", "index", "part", "manifest", "view"}
Outcome == {"none", "appended", "recovered", "unwritten", "failed", "crashed"}

Events == Seq(Event)
Manifest == [version : Nat, state : Events, segments : Events, clean : BOOLEAN]
Write == [kind : Kind, file : Nat, state : Events, segments : Events]
Writes == Seq(Write)
Temporary == [dir : Directory, by : Writer \cup {"orphan"}]
Job == [at : Phase, todo : Writes, open : BOOLEAN, chain : Events, base : Nat,
        seed : Manifest, listed : SUBSET Temporary, clean : BOOLEAN]

TypeOK ==
    /\ version \in {1, 2}
    /\ log \in Events
    /\ index \in Nat
    /\ tmp \in SUBSET Temporary
    /\ parts \in SUBSET Events
    /\ manifest \in Manifest
    /\ views \in [1..Views -> Nat]
    /\ job \in [Writer -> Job]
    /\ outcome \in Outcome
    /\ acked \in SUBSET Event
    /\ faults \in Nat
    /\ rebuilds \in Nat

-----------------------------------------------------------------------------
(* t begins with s. *)
Begins(s, t) == Len(s) <= Len(t) /\ \A i \in 1..Len(s) : s[i] = t[i]

(* The files of a chain ascend from the first without gaps. *)
Steady(c) == \A i \in 1..Len(c) :
    IF i = 1 THEN c[i].file = 1 ELSE c[i].file \in {c[i - 1].file, c[i - 1].file + 1}

LEMMA LenIs == ASSUME NEW c \in Events PROVE Len(c) \in Nat
BY DEF Events

LEMMA BeginsTransitively ==
    ASSUME NEW r \in Events, NEW s \in Events, NEW t \in Events, Begins(r, s), Begins(s, t)
    PROVE  Begins(r, t)
BY DEF Begins, Events

LEMMA BeginsAll ==
    ASSUME NEW s \in Events, NEW t \in Events, Begins(s, t), Len(t) <= Len(s)
    PROVE  s = t
<1>1. Len(s) = Len(t) BY DEF Begins, Events
<1>2. QED BY <1>1, SeqEqual DEF Begins, Events

LEMMA BeginsSub ==
    ASSUME NEW s \in Events, NEW t \in Events, Begins(s, t)
    PROVE  SubSeq(t, 1, Len(s)) = s
<1>1. Len(s) \in Nat /\ Len(t) \in Nat BY DEF Events
<1>2. \A i \in 1 .. Len(s) : t[i] \in Event
  BY <1>1, ElementOfSeq DEF Events, Begins
<1>3. SubSeq(t, 1, Len(s)) \in Events /\ Len(SubSeq(t, 1, Len(s))) = Len(s)
      /\ \A i \in 1 .. Len(s) : SubSeq(t, 1, Len(s))[i] = t[i]
  BY <1>1, <1>2, SubSeqProperties DEF Events
<1>4. QED BY <1>3, SeqEqual DEF Events, Begins

LEMMA SteadyPrefix ==
    ASSUME NEW s \in Events, NEW t \in Events, Begins(s, t), Steady(t)
    PROVE  Steady(s)
<1>1. ASSUME NEW i \in 1..Len(s)
      PROVE  IF i = 1 THEN s[i].file = 1 ELSE s[i].file \in {s[i - 1].file, s[i - 1].file + 1}
  <2>1. i \in 1..Len(t) /\ s[i] = t[i] BY DEF Begins, Events
  <2>2. i # 1 => i - 1 \in 1..Len(s) /\ s[i - 1] = t[i - 1] BY DEF Begins, Events
  <2>3. QED BY <2>1, <2>2 DEF Steady
<1>2. QED BY <1>1 DEF Steady

LEMMA FileType == ASSUME NEW c \in Events, NEW i \in 1..Len(c)
                  PROVE  c[i] \in Event /\ c[i].file \in Nat /\ c[i].seq \in Nat
<1>1. c[i] \in Event BY ElementOfSeq DEF Events
<1>2. QED BY <1>1 DEF Event

(* The files of a steady chain ascend, and none is skipped. *)
LEMMA SteadyAscends ==
    ASSUME NEW c \in Events, Steady(c)
    PROVE  \A i \in 1..Len(c) :
               /\ c[i].file \in 1..i
               /\ \A h \in 1..i : c[h].file <= c[i].file
               /\ \A k \in 1 .. c[i].file : \E h \in 1..i : c[h].file = k
<1> DEFINE Good(i) == /\ c[i].file \in 1..i
                      /\ \A h \in 1..i : c[h].file <= c[i].file
                      /\ \A k \in 1 .. c[i].file : \E h \in 1..i : c[h].file = k
           H == {i \in Nat : i = 0 \/ Good(i)}
<1>1. Len(c) \in Nat BY DEF Events
<1>2. 0 \in H OBVIOUS
<1>3. ASSUME NEW i \in 0 .. Len(c) - 1, i \in H PROVE i + 1 \in H
  <2>1. i + 1 \in 1..Len(c) /\ i + 1 \in Nat BY <1>1
  <2>2. c[i + 1].file \in Nat /\ \A h \in 1..i : c[h].file \in Nat BY <2>1, FileType, <1>1
  <2>3. CASE i = 0
    <3>1. c[1].file = 1 BY <2>1, <2>3 DEF Steady
    <3>2. QED BY <3>1, <2>3
  <2>4. CASE i # 0
    <3>1. Good(i) /\ i \in 1..Len(c) BY <1>3, <2>4, <1>1
    <3>2. c[i + 1].file \in {c[i].file, c[i].file + 1} BY <2>1, <2>4 DEF Steady
    <3>3. c[i + 1].file \in 1 .. i + 1 BY <3>1, <3>2, <2>2
    <3>4. ASSUME NEW h \in 1 .. i + 1 PROVE c[h].file <= c[i + 1].file
      BY <3>1, <3>2, <2>2
    <3>5. ASSUME NEW k \in 1 .. c[i + 1].file PROVE \E h \in 1 .. i + 1 : c[h].file = k
      <4>1. CASE k = c[i + 1].file BY <4>1, <2>1
      <4>2. CASE k # c[i + 1].file
        <5>1. k \in 1 .. c[i].file BY <4>2, <3>2, <2>2, <3>1
        <5>2. QED BY <5>1, <3>1
      <4>3. QED BY <4>1, <4>2
    <3>6. QED BY <3>3, <3>4, <3>5, <2>1
  <2>5. QED BY <2>3, <2>4
<1>4. 0 .. Len(c) \subseteq H
  <2> HIDE DEF H
  <2>1. QED BY <1>1, <1>2, <1>3, Induction
<1>5. ASSUME NEW i \in 1..Len(c) PROVE Good(i)
  <2>1. i \in 0 .. Len(c) /\ i # 0 BY <1>1
  <2>2. i \in H BY ONLY <2>1, <1>4
  <2>3. QED BY <2>1, <2>2
<1>6. QED BY <1>5

LEMMA Cut ==
    ASSUME NEW c \in Events, Steady(c), NEW k \in Int
    PROVE  /\ UpTo(c, k) \in 0..Len(c)
           /\ \A i \in 1..Len(c) : c[i].file <= k <=> i <= UpTo(c, k)
<1> DEFINE Between(n) == (n > 0 => c[n].file <= k) /\ (n < Len(c) => c[n + 1].file > k)
           T == {n \in 0..Len(c) : \A i \in 1..Len(c) : c[i].file <= k => i <= n}
<1>1. Len(c) \in Nat BY DEF Events
<1>2. T \in SUBSET Nat /\ Len(c) \in T BY <1>1
<1>3. PICK n \in T : \A y \in T : n <= y
  <2> HIDE DEF T
  <2>1. QED BY <1>2, Least
<1>4. n \in 0..Len(c) /\ \A i \in 1..Len(c) : c[i].file <= k => i <= n OBVIOUS
<1>5. ASSUME NEW i \in 1..Len(c), i <= n PROVE c[i].file <= k
  <2>1. n \in 1..Len(c) /\ n - 1 \in 0..Len(c) BY <1>4, <1>5, <1>1
  <2>2. n - 1 \notin T
    <3> HIDE DEF T
    <3>1. n - 1 \in T => n <= n - 1 BY <1>3
    <3>2. QED BY <3>1, <2>1, <1>1
  <2>3. PICK h \in 1..Len(c) : c[h].file <= k /\ ~(h <= n - 1) BY <2>1, <2>2
  <2>4. h = n BY <2>3, <1>4, <1>1
  <2>5. i \in 1..n BY <1>5, <2>1
  <2>6. c[i].file <= c[n].file BY <2>1, <2>5, SteadyAscends
  <2>7. c[i].file \in Nat /\ c[n].file \in Nat BY <2>1, FileType
  <2>8. QED BY <2>3, <2>4, <2>6, <2>7
<1>6. \E m \in 0..Len(c) : Between(m)
  <2>1. n > 0 => c[n].file <= k BY <1>4, <1>5, <1>1
  <2>2. n < Len(c) => c[n + 1].file > k
    <3>1. SUFFICES ASSUME n < Len(c) PROVE c[n + 1].file > k OBVIOUS
    <3>2. n + 1 \in 1..Len(c) BY <3>1, <1>4, <1>1
    <3>3. ~(c[n + 1].file <= k) BY <3>2, <1>4
    <3>4. c[n + 1].file \in Nat BY <3>2, FileType
    <3>5. QED BY <3>3, <3>4
  <2>3. QED BY <2>1, <2>2, <1>4
<1> HIDE DEF T, Between
<1>7. UpTo(c, k) \in 0..Len(c) /\ Between(UpTo(c, k))
  <2>1. UpTo(c, k) = CHOOSE m \in 0..Len(c) : Between(m) BY DEF UpTo, Between
  <2>2. QED BY <2>1, <1>6
<1>8. ASSUME NEW m \in 0..Len(c), Between(m), NEW i \in 1..Len(c)
      PROVE  c[i].file <= k <=> i <= m
  <2>1. c[i].file \in Nat BY FileType
  <2>2. ASSUME i <= m PROVE c[i].file <= k
    <3>1. m > 0 /\ m \in 1..Len(c) /\ i \in 1..m BY <2>2, <1>1
    <3>2. c[i].file <= c[m].file /\ c[m].file \in Nat BY <3>1, SteadyAscends, FileType
    <3>3. c[m].file <= k BY <3>1, <1>8 DEF Between
    <3>4. QED BY <2>1, <3>2, <3>3
  <2>3. ASSUME ~(i <= m) PROVE ~(c[i].file <= k)
    <3>1. m < Len(c) /\ m + 1 \in 1..Len(c) /\ i \in 1..Len(c) /\ m + 1 \in 1..i BY <2>3, <1>1
    <3>2. c[m + 1].file <= c[i].file /\ c[m + 1].file \in Nat BY <3>1, SteadyAscends, FileType
    <3>3. c[m + 1].file > k BY <3>1, <1>8 DEF Between
    <3>4. QED BY <2>1, <3>2, <3>3
  <2>4. QED BY <2>2, <2>3
<1>9. QED BY <1>7, <1>8

LEMMA CutsAscend ==
    ASSUME NEW c \in Events, Steady(c), NEW k \in Int
    PROVE  UpTo(c, k - 1) <= UpTo(c, k)
<1>1. PICK j \in Int : j = k - 1 OBVIOUS
<1>2. PICK a \in 0..Len(c) : a = UpTo(c, j) /\ \A i \in 1..Len(c) : c[i].file <= j <=> i <= a
  BY Cut
<1>3. PICK b \in 0..Len(c) : b = UpTo(c, k) /\ \A i \in 1..Len(c) : c[i].file <= k <=> i <= b
  BY Cut
<1>4. Len(c) \in Nat BY LenIs
<1>5. ASSUME a = 0 PROVE a <= b BY <1>4, <1>5
<1>6. ASSUME a # 0 PROVE a <= b
  <2>1. a \in 1..Len(c) /\ a <= a BY <1>4, <1>6
  <2>2. c[a].file <= j /\ c[a].file \in Nat BY <1>2, <2>1, FileType
  <2>3. c[a].file <= k BY <2>2, <1>1
  <2>4. QED BY <1>3, <2>1, <2>3
<1>7. a <= b BY <1>5, <1>6
<1>8. QED BY <1>1, <1>2, <1>3, <1>7

LEMMA InFileIs ==
    ASSUME NEW c \in Events, Steady(c), NEW k \in Int
    PROVE  /\ InFile(c, k) \in Events
           /\ Len(InFile(c, k)) = UpTo(c, k) - UpTo(c, k - 1)
           /\ \A i \in 1 .. UpTo(c, k) - UpTo(c, k - 1) : InFile(c, k)[i] = c[UpTo(c, k - 1) + i]
<1>1. UpTo(c, k - 1) \in 0..Len(c) /\ UpTo(c, k) \in 0..Len(c) /\ Len(c) \in Nat
  BY Cut DEF Events
<1>2. UpTo(c, k - 1) <= UpTo(c, k) BY CutsAscend
<1>3. PICK m, n : m = UpTo(c, k - 1) + 1 /\ n = UpTo(c, k) OBVIOUS
<1>4. m \in Int /\ n \in Int /\ \A i \in m .. n : c[i] \in Event
  BY <1>1, <1>3, FileType
<1>5. /\ SubSeq(c, m, n) \in Seq(Event)
      /\ Len(SubSeq(c, m, n)) = IF m <= n THEN n - m + 1 ELSE 0
      /\ \A i \in 1 .. n - m + 1 : SubSeq(c, m, n)[i] = c[m + i - 1]
  BY ONLY <1>4, SubSeqProperties
<1>6. QED BY <1>1, <1>2, <1>3, <1>5 DEF InFile, Events

LEMMA CutOfPrefix ==
    ASSUME NEW s \in Events, NEW c \in Events, Begins(s, c), Steady(c), NEW k \in Int
    PROVE  UpTo(s, k) = IF UpTo(c, k) <= Len(s) THEN UpTo(c, k) ELSE Len(s)
<1>1. Steady(s) BY SteadyPrefix
<1>2. /\ UpTo(s, k) \in 0..Len(s) /\ UpTo(c, k) \in 0..Len(c)
      /\ Len(s) \in Nat /\ Len(c) \in Nat /\ Len(s) <= Len(c)
  BY <1>1, Cut, LenIs DEF Begins
<1>3. ASSUME NEW i \in 1..Len(s) PROVE i <= UpTo(s, k) <=> i <= UpTo(c, k)
  <2>1. i \in 1..Len(c) /\ s[i] = c[i] BY <1>2 DEF Begins
  <2>2. QED BY <2>1, <1>1, Cut
<1>4. CASE UpTo(c, k) <= Len(s)
  <2>1. UpTo(c, k) <= UpTo(s, k)
    <3>1. CASE UpTo(c, k) = 0 BY <3>1, <1>2
    <3>2. CASE UpTo(c, k) # 0
      <4>1. UpTo(c, k) \in 1..Len(s) BY <3>2, <1>2, <1>4
      <4>2. QED BY <4>1, <1>3, <1>2
    <3>3. QED BY <3>1, <3>2
  <2>2. UpTo(s, k) <= UpTo(c, k)
    <3>1. CASE UpTo(s, k) = 0 BY <3>1, <1>2
    <3>2. CASE UpTo(s, k) # 0
      <4>1. UpTo(s, k) \in 1..Len(s) BY <3>2, <1>2
      <4>2. QED BY <4>1, <1>3, <1>2
    <3>3. QED BY <3>1, <3>2
  <2>3. QED BY <2>1, <2>2, <1>2, <1>4
<1>5. CASE ~(UpTo(c, k) <= Len(s))
  <2>1. CASE Len(s) = 0 BY <2>1, <1>2, <1>5
  <2>2. CASE Len(s) # 0
    <3>1. Len(s) \in 1..Len(s) BY <2>2, <1>2
    <3>2. Len(s) <= UpTo(s, k) BY <3>1, <1>3, <1>2, <1>5
    <3>3. QED BY <3>2, <1>2, <1>5
  <2>3. QED BY <2>1, <2>2
<1>6. QED BY <1>4, <1>5

(* A log that has all of a chain before file k and nothing of it behind,    *)
(* with file k replaced by what the chain has in it.                        *)
Rewritten(c, k) ==
    SubSeq(log, 1, UpTo(log, k - 1)) \o InFile(c, k) \o SubSeq(log, UpTo(log, k) + 1, Len(log))

LEMMA Rewriting ==
    ASSUME log \in Events, NEW c \in Events, Begins(log, c), Steady(c), NEW k \in Int,
           \A i \in 1..Len(c) : /\ c[i].file < k => i <= Len(log)
                                /\ c[i].file > k => i > Len(log)
    PROVE  /\ Rewritten(c, k) \in Events
           /\ Len(Rewritten(c, k)) = UpTo(c, k)
           /\ Begins(log, Rewritten(c, k))
           /\ Begins(Rewritten(c, k), c)
<1> DEFINE a == UpTo(c, k - 1)
           b == UpTo(c, k)
<1>1. a \in 0..Len(c) /\ b \in 0..Len(c) /\ Len(c) \in Nat /\ Len(log) \in 0..Len(c) /\ a <= b
  <2>1. k - 1 \in Int OBVIOUS
  <2>2. a \in 0..Len(c) BY <2>1, Cut
  <2>3. b \in 0..Len(c) BY Cut
  <2>4. a <= b BY CutsAscend
  <2>5. Len(c) \in Nat /\ Len(log) \in 0..Len(c) BY LenIs DEF Begins
  <2>6. QED BY <2>2, <2>3, <2>4, <2>5
<1>2. a <= Len(log)
  <2>1. CASE a = 0 BY <2>1, <1>1
  <2>2. CASE a # 0
    <3>1. a \in 1..Len(c) BY <2>2, <1>1
    <3>2. c[a].file <= k - 1
      <4>1. PICK m \in Int : m = k - 1 OBVIOUS
      <4>2. \A i \in 1..Len(c) : c[i].file <= m <=> i <= UpTo(c, m) BY Cut
      <4>3. QED BY <3>1, <4>1, <4>2, <1>1
    <3>3. c[a].file < k BY <3>2, <3>1, FileType
    <3>4. QED BY <3>1, <3>3
  <2>3. QED BY <2>1, <2>2
<1>3. Len(log) <= b
  <2>1. SUFFICES ASSUME b < Len(log) PROVE FALSE BY <1>1
  <2>2. b + 1 \in 1..Len(c) /\ ~(b + 1 <= b) BY <2>1, <1>1
  <2>3. ~(c[b + 1].file <= k) BY <2>2, Cut
  <2>4. c[b + 1].file > k BY <2>3, <2>2, FileType
  <2>5. b + 1 > Len(log) BY <2>2, <2>4
  <2>6. QED BY <2>1, <2>5, <1>1
<1>4. UpTo(log, k - 1) = a
  <2>1. UpTo(log, k - 1) = IF a <= Len(log) THEN a ELSE Len(log) BY CutOfPrefix
  <2>2. QED BY <2>1, <1>2
<1>5. UpTo(log, k) = Len(log)
  <2>1. UpTo(log, k) = IF b <= Len(log) THEN b ELSE Len(log) BY CutOfPrefix
  <2>2. QED BY <2>1, <1>3, <1>1
<1> HIDE DEF a, b
<1>6. SubSeq(log, Len(log) + 1, Len(log)) = <<>> BY SubSeqEmpty, <1>1
<1>7. \A i \in 1 .. a : log[i] \in Event BY <1>1, <1>2, FileType
<1>8. /\ SubSeq(log, 1, a) \in Events
      /\ Len(SubSeq(log, 1, a)) = a
      /\ \A i \in 1 .. a : SubSeq(log, 1, a)[i] = log[i]
  <2>1. 1 \in Int /\ a \in Int /\ a - 1 + 1 = a BY <1>1
  <2>2. QED BY <2>1, <1>1, <1>7, SubSeqProperties DEF Events
<1>9. /\ InFile(c, k) \in Events
      /\ Len(InFile(c, k)) = b - a
      /\ \A i \in 1 .. b - a : InFile(c, k)[i] = c[a + i]
  BY InFileIs DEF a, b
<1>10. Rewritten(c, k) = SubSeq(log, 1, a) \o InFile(c, k)
  <2>1. Rewritten(c, k) = SubSeq(log, 1, a) \o InFile(c, k) \o <<>> BY <1>4, <1>5, <1>6 DEF Rewritten
  <2>2. SubSeq(log, 1, a) \o InFile(c, k) \in Events BY <1>8, <1>9, ConcatProperties DEF Events
  <2>3. QED BY <2>1, <2>2, ConcatEmptySeq DEF Events
<1> DEFINE r == Rewritten(c, k)
<1>11. /\ r \in Events
       /\ Len(r) = b
       /\ \A i \in 1 .. b : r[i] = IF i <= a THEN log[i] ELSE InFile(c, k)[i - a]
  <2>1. a + (b - a) = b BY <1>1
  <2>2. /\ r \in Events /\ Len(r) = a + (b - a)
        /\ \A i \in 1 .. a + (b - a) : r[i] = IF i <= a THEN SubSeq(log, 1, a)[i] ELSE InFile(c, k)[i - a]
    BY <1>8, <1>9, <1>10, ConcatProperties DEF Events
  <2>3. ASSUME NEW i \in 1 .. b PROVE r[i] = IF i <= a THEN log[i] ELSE InFile(c, k)[i - a]
    <3>1. i <= a => i \in 1 .. a BY <1>1
    <3>2. QED BY <3>1, <2>1, <2>2, <1>8
  <2>4. QED BY <2>1, <2>2, <2>3
<1> HIDE DEF r
<1>12. ASSUME NEW i \in 1 .. b PROVE r[i] = c[i]
  <2>1. CASE i <= a BY <2>1, <1>1, <1>2, <1>11 DEF Begins
  <2>2. CASE ~(i <= a)
    <3>1. i - a \in 1 .. b - a /\ a + (i - a) = i BY <2>2, <1>1
    <3>2. QED BY <3>1, <2>2, <1>9, <1>11
  <2>3. QED BY <2>1, <2>2
<1>13. Begins(r, c) BY <1>12, <1>11, <1>1 DEF Begins
<1>14. Begins(log, r)
  <2>1. \A i \in 1..Len(log) : log[i] = r[i] BY <1>12, <1>3, <1>1 DEF Begins
  <2>2. QED BY <2>1, <1>3, <1>11 DEF Begins
<1>15. QED BY <1>11, <1>13, <1>14 DEF r, b

-----------------------------------------------------------------------------
(* Roll is what its recursion says: the placement it chooses exists.        *)
LEMMA RollIs ==
    ASSUME NEW c, NEW batch, Len(batch) \in Nat
    PROVE  \E place :
               /\ Roll(c, batch) = [i \in 1..Len(batch) |-> place[i].file]
               /\ place[0] = Current(c)
               /\ \A i \in 1..Len(batch) : place[i] = Filled(place[i - 1], batch[i].size)
<1> DEFINE n == Len(batch)
           F(g, m) == g = [i \in 0..m |-> IF i = 0 THEN Current(c) ELSE Filled(g[i - 1], batch[i].size)]
           H == {m \in Nat : \E g : F(g, m)}
           place == CHOOSE g : F(g, n)
<1>1. 0 \in H
  <2>1. F([i \in 0..0 |-> Current(c)], 0) OBVIOUS
  <2>2. QED BY <2>1
<1>2. ASSUME NEW m \in 0 .. n - 1, m \in H PROVE m + 1 \in H
  <2>1. PICK g : F(g, m) BY <1>2
  <2> DEFINE h == [i \in 0 .. m + 1 |-> IF i <= m THEN g[i] ELSE Filled(g[m], batch[m + 1].size)]
  <2>2. m \in Nat /\ m + 1 \in Nat OBVIOUS
  <2>3. ASSUME NEW i \in 0 .. m + 1
        PROVE  h[i] = IF i = 0 THEN Current(c) ELSE Filled(h[i - 1], batch[i].size)
    <3>1. CASE i = 0
      <4>1. h[0] = g[0] /\ g[0] = Current(c) BY <2>1, <2>2
      <4>2. QED BY <3>1, <4>1
    <3>2. CASE i \in 1..m
      <4>1. h[i] = g[i] /\ h[i - 1] = g[i - 1] BY <3>2, <2>2
      <4>2. g[i] = Filled(g[i - 1], batch[i].size) BY <3>2, <2>1, <2>2
      <4>3. QED BY <3>2, <4>1, <4>2
    <3>3. CASE i = m + 1
      <4>1. h[i] = Filled(g[m], batch[m + 1].size) /\ h[i - 1] = g[m] BY <3>3, <2>2
      <4>2. QED BY <3>3, <4>1, <2>2
    <3>4. QED BY <3>1, <3>2, <3>3, <2>2
  <2>4. F(h, m + 1)
    <3> DEFINE e == [i \in 0 .. m + 1 |-> IF i = 0 THEN Current(c) ELSE Filled(h[i - 1], batch[i].size)]
    <3>1. \A i \in 0 .. m + 1 : h[i] = e[i] BY <2>3
    <3>2. h = e BY ONLY <3>1
    <3>3. QED BY <3>2
  <2>5. QED BY <2>2, <2>4
<1>3. n \in H
  <2> HIDE DEF H
  <2>1. n \in Nat /\ n \in 0 .. n OBVIOUS
  <2> HIDE DEF n
  <2>2. 0 .. n \subseteq H BY <1>1, <1>2, <2>1, Induction
  <2>3. QED BY <2>1, <2>2
<1>4. F(place, n)
  <2>1. \E g : F(g, n) BY <1>3
  <2> HIDE DEF F
  <2>2. QED BY <2>1
<1>5. Roll(c, batch) = [i \in 1..n |-> place[i].file] BY DEF Roll
<1> HIDE DEF place
<1>6. place[0] = Current(c) BY <1>4
<1>7. ASSUME NEW i \in 1..n PROVE place[i] = Filled(place[i - 1], batch[i].size) BY <1>4
<1>8. QED BY <1>5, <1>6, <1>7

(* The events of a batch go to the current segment or to the one after it.  *)
LEMMA RollAscends ==
    ASSUME NEW c \in Events, Steady(c), NEW batch, Len(batch) \in Nat
    PROVE  \A i \in 1..Len(batch) :
               /\ Roll(c, batch)[i] \in Nat
               /\ i = 1 /\ c = <<>> => Roll(c, batch)[i] = 1
               /\ i = 1 /\ c # <<>> => Roll(c, batch)[i] \in {LastFile(c), LastFile(c) + 1}
               /\ i # 1 => Roll(c, batch)[i] \in {Roll(c, batch)[i - 1], Roll(c, batch)[i - 1] + 1}
<1> DEFINE n == Len(batch)
<1>1. PICK place :
               /\ Roll(c, batch) = [i \in 1..n |-> place[i].file]
               /\ place[0] = Current(c)
               /\ \A i \in 1..n : place[i] = Filled(place[i - 1], batch[i].size)
  BY RollIs
<1> DEFINE first == IF c = <<>> THEN 1 ELSE LastFile(c)
           Good(b) == /\ b.file \in Nat
                      /\ b.next = b.file \/ (c = <<>> /\ b.next = 0 /\ b.file = 1)
           H == {i \in 0..n : Good(place[i])}
<1>2. LastFile(c) \in Nat /\ (c = <<>> => LastFile(c) = 0)
  <2>1. c # <<>> => Len(c) \in 1..Len(c) BY EmptySeq DEF Events
  <2>2. QED BY <2>1, FileType DEF LastFile
<1>3. Good(place[0]) /\ place[0].file = first
  BY <1>1, <1>2 DEF Current
<1>4. ASSUME NEW b, NEW size, Good(b)
      PROVE  /\ Good(Filled(b, size))
             /\ Filled(b, size).file \in {b.file, b.file + 1}
  BY <1>4 DEF Filled
<1>5. ASSUME NEW i \in 0 .. n - 1, i \in H PROVE i + 1 \in H
  <2>1. i + 1 \in 1..n /\ i + 1 \in 0..n /\ (i + 1) - 1 = i OBVIOUS
  <2>2. place[i + 1] = Filled(place[i], batch[i + 1].size) BY <1>1, <2>1
  <2>3. Good(place[i]) BY <1>5
  <2> HIDE DEF Good
  <2>4. Good(place[i + 1]) BY <2>2, <2>3, <1>4
  <2>5. QED BY <2>1, <2>4
<1>6. 0 \in H BY <1>3
<1>7. 0..n \subseteq H
  <2> HIDE DEF H
  <2>1. QED BY <1>5, <1>6, Induction
<1>8. ASSUME NEW i \in 1..n
      PROVE  place[i].file \in Nat /\ place[i].file \in {place[i - 1].file, place[i - 1].file + 1}
  <2>1. i - 1 \in 0..n OBVIOUS
  <2>2. Good(place[i - 1]) BY <2>1, <1>7
  <2>3. place[i] = Filled(place[i - 1], batch[i].size) BY <1>1
  <2>4. Good(place[i]) /\ place[i].file \in {place[i - 1].file, place[i - 1].file + 1}
    BY <2>2, <2>3, <1>4
  <2>5. QED BY <2>4
<1>9. ASSUME c = <<>>, NEW i \in 1..n, i = 1 PROVE place[i].file = 1
  <2>1. place[1] = Filled(Current(c), batch[1].size) BY <1>1, <1>9
  <2>2. Current(c).next = 0 /\ Current(c).file = 1 BY <1>9, <1>2 DEF Current
  <2>3. QED BY <2>1, <2>2, <1>9 DEF Filled
<1>10. ASSUME NEW i \in 1..n
       PROVE  /\ Roll(c, batch)[i] = place[i].file
              /\ i # 1 => Roll(c, batch)[i - 1] = place[i - 1].file
  <2>1. i # 1 => i - 1 \in 1..n OBVIOUS
  <2>2. QED BY <1>1, <2>1
<1>11. QED BY <1>3, <1>8, <1>9, <1>10

-----------------------------------------------------------------------------
(* Quotients by the limit, of successive numbers. *)
LEMMA Quotient ==
    ASSUME NEW a \in Nat, NEW n \in Nat \ {0}
    PROVE  /\ a \div n \in Nat
           /\ 0 \div n = 0
           /\ (a + 1) \div n \in {a \div n, a \div n + 1}
           /\ \A k \in Nat : a \div n + 1 <= k <=> a + 1 <= n * k
<1>1. a \div n \in Nat OBVIOUS
<1>2. 0 \div n = 0 OBVIOUS
<1>3. (a + 1) \div n \in {a \div n, a \div n + 1} OBVIOUS
<1>4. ASSUME NEW k \in Nat PROVE a \div n + 1 <= k <=> a + 1 <= n * k OBVIOUS
<1>5. QED BY <1>1, <1>2, <1>3, <1>4

-----------------------------------------------------------------------------
Chained(c) ==
    /\ Steady(c)
    /\ \A i \in 1..Len(c) : c[i].seq = i
    /\ version = 1 => \A i \in 1..Len(c) : c[i].file = (i - 1) \div Limit + 1

LEMMA ChainedPrefix ==
    ASSUME NEW s \in Events, NEW t \in Events, Begins(s, t), Chained(t)
    PROVE  Chained(s)
<1>1. Steady(s) BY SteadyPrefix DEF Chained
<1>2. \A i \in 1..Len(s) : i \in 1..Len(t) /\ s[i] = t[i] BY LenIs DEF Begins
<1>3. QED BY <1>1, <1>2 DEF Chained

LEMMA BatchType ==
    ASSUME version \in {1, 2}, NEW batch \in Batch
    PROVE  /\ Len(batch) \in Nat \ {0}
           /\ \A i \in 1..Len(batch) : batch[i].size \in Sizes /\ batch[i].plain \in Settings
<1>1. PICK n \in 1..MaxBatch, sizes \in SUBSET Sizes : batch \in [1..n -> [size : sizes, plain : Settings]]
  <2> DEFINE sizes == IF version = 2 THEN Sizes ELSE {CHOOSE s \in Sizes : TRUE}
  <2>1. sizes \in SUBSET Sizes BY StoreAssumption
  <2> HIDE DEF sizes
  <2>2. batch \in UNION {[1..n -> [size : sizes, plain : Settings]] : n \in 1..MaxBatch}
    BY DEF Batch, sizes
  <2>3. QED BY <2>1, <2>2
<1>2. MaxBatch \in Nat /\ n \in Nat BY StoreAssumption
<1>3. PICK S : S = [size : sizes, plain : Settings] OBVIOUS
<1>4. Len(batch) = n /\ \A i \in 1..n : batch[i] \in S
  <2>1. batch \in [1..n -> S] BY <1>1, <1>3
  <2>2. batch \in Seq(S) /\ Len(batch) = n BY ONLY <2>1, <1>2
  <2>3. QED BY <2>1, <2>2
<1>5. QED BY <1>1, <1>2, <1>3, <1>4

(* Where the events of a batch go continues the files of the chain.         *)
LEMMA PlaceAscends ==
    ASSUME Settings = {FALSE}, version \in {1, 2}, NEW c \in Events, Chained(c), NEW batch \in Batch
    PROVE  \A i \in 1..Len(batch) :
               /\ Place(c, batch)[i] \in Nat
               /\ version = 1 => Place(c, batch)[i] = (Len(c) + i - 1) \div Limit + 1
               /\ i = 1 /\ c = <<>> => Place(c, batch)[i] = 1
               /\ i = 1 /\ c # <<>> => Place(c, batch)[i] \in {LastFile(c), LastFile(c) + 1}
               /\ i # 1 => Place(c, batch)[i] \in {Place(c, batch)[i - 1], Place(c, batch)[i - 1] + 1}
<1>1. Len(batch) \in Nat \ {0} /\ Len(c) \in Nat BY BatchType, LenIs
<1>2. CASE version = 1
  <2>1. Limit \in Nat \ {0} BY StoreAssumption
  <2>2. ASSUME NEW i \in 1..Len(batch)
        PROVE  Place(c, batch)[i] = (Len(c) + i - 1) \div Limit + 1
    BY <1>2 DEF Place
  <2>3. ASSUME NEW i \in 1..Len(batch) PROVE (Len(c) + i - 1) \div Limit + 1 \in Nat
    <3>1. PICK a \in Nat : a = Len(c) + i - 1 BY <1>1
    <3>2. QED BY <3>1, <2>1, Quotient
  <2>4. ASSUME NEW i \in 1..Len(batch), i # 1
        PROVE  Place(c, batch)[i] \in {Place(c, batch)[i - 1], Place(c, batch)[i - 1] + 1}
    <3>1. PICK a \in Nat : a = Len(c) + (i - 1) - 1
      <4>1. Len(c) + (i - 1) - 1 \in Nat BY <1>1, <2>4
      <4>2. QED BY <4>1
    <3>2. a + 1 = Len(c) + i - 1 /\ i - 1 \in 1..Len(batch) BY <3>1, <1>1, <2>4
    <3>3. (a + 1) \div Limit \in {a \div Limit, a \div Limit + 1} /\ a \div Limit \in Nat BY <2>1, Quotient
    <3>4. Place(c, batch)[i - 1] = a \div Limit + 1 /\ Place(c, batch)[i] = (a + 1) \div Limit + 1
      BY <3>1, <3>2, <2>2
    <3>5. QED BY <3>3, <3>4
  <2>5. ASSUME c # <<>> PROVE Place(c, batch)[1] \in {LastFile(c), LastFile(c) + 1}
    <3>1. Len(c) \in 1..Len(c) BY <1>1, <2>5, EmptySeq DEF Events
    <3>2. PICK a \in Nat : a = Len(c) - 1 BY <3>1
    <3>3. LastFile(c) = a \div Limit + 1 BY <1>2, <3>1, <3>2, <2>5 DEF LastFile, Chained
    <3>4. a + 1 = Len(c) + 1 - 1 /\ 1 \in 1..Len(batch) BY <3>2, <1>1
    <3>5. Place(c, batch)[1] = (a + 1) \div Limit + 1 BY <3>4, <2>2
    <3>6. (a + 1) \div Limit \in {a \div Limit, a \div Limit + 1} /\ a \div Limit \in Nat BY <2>1, Quotient
    <3>7. QED BY <3>3, <3>5, <3>6
  <2>6. ASSUME c = <<>> PROVE Place(c, batch)[1] = 1
    <3>1. Len(c) = 0 /\ 1 \in 1..Len(batch) BY <2>6, <1>1
    <3>2. Place(c, batch)[1] = 0 \div Limit + 1 BY <3>1, <2>2
    <3>3. QED BY <3>2, <2>1, Quotient
  <2>7. QED BY <2>2, <2>3, <2>4, <2>5, <2>6
<1>3. CASE version = 2
  <2>1. Len(batch) \in 1..Len(batch) BY <1>1
  <2>2. ~Plain(batch)
    <3>1. batch[Len(batch)].plain = FALSE BY <2>1, BatchType
    <3>2. QED BY <3>1 DEF Plain
  <2>3. Place(c, batch) = Roll(c, batch) BY <1>3, <2>2 DEF Place
  <2>4. Steady(c) BY DEF Chained
  <2>5. QED BY <1>1, <1>3, <2>3, <2>4, RollAscends
<1>4. QED BY <1>2, <1>3

(* What an append prepares is a chain that continues the log. *)
LEMMA ExtendedIs ==
    ASSUME Settings = {FALSE}, version \in {1, 2}, NEW c \in Events, Chained(c), NEW batch \in Batch
    PROVE  /\ Extended(c, batch) \in Events
           /\ Begins(c, Extended(c, batch))
           /\ Len(Extended(c, batch)) > Len(c)
           /\ Chained(Extended(c, batch))
<1> DEFINE n == Len(batch)
           m == Len(c)
           new == [i \in 1..n |-> [seq |-> m + i, size |-> batch[i].size, plain |-> batch[i].plain,
                                   file |-> Place(c, batch)[i]]]
           x == Extended(c, batch)
<1>1. n \in Nat \ {0} /\ m \in Nat BY BatchType, LenIs
<1>2. ASSUME NEW i \in 1..n PROVE new[i] \in Event
  <2>1. batch[i].size \in Sizes /\ batch[i].plain \in Settings /\ Place(c, batch)[i] \in Nat
    BY BatchType, PlaceAscends
  <2>2. m + i \in Nat BY <1>1
  <2>3. QED BY <2>1, <2>2 DEF Event
<1>3. new \in Seq(Event) /\ Len(new) = n
  <2>1. new \in [1..n -> Event] BY <1>2
  <2> HIDE DEF new
  <2>2. QED BY <2>1, <1>1
<1>4. /\ x \in Events /\ Len(x) = m + n
      /\ \A i \in 1 .. m + n : x[i] = IF i <= m THEN c[i] ELSE new[i - m]
  <2>1. x = c \o new BY DEF Extended
  <2> HIDE DEF x, new
  <2>2. c \in Seq(Event) BY DEF Events
  <2>3. /\ c \o new \in Seq(Event)
        /\ Len(c \o new) = Len(c) + Len(new)
        /\ \A i \in 1 .. Len(c) + Len(new) : (c \o new)[i] = IF i <= Len(c) THEN c[i] ELSE new[i - Len(c)]
    BY ONLY <2>2, <1>3, ConcatProperties
  <2>4. QED BY <2>1, <2>3, <1>3 DEF Events
<1> HIDE DEF x
<1>5. ASSUME NEW i \in 1..m PROVE x[i] = c[i]
  <2>1. i \in 1 .. m + n /\ i <= m BY <1>1
  <2>2. QED BY <2>1, <1>4
<1>6. ASSUME NEW i \in 1..n
      PROVE  x[m + i].seq = m + i /\ x[m + i].file = Place(c, batch)[i]
  <2>1. m + i \in 1 .. m + n /\ ~(m + i <= m) /\ (m + i) - m = i BY <1>1
  <2>2. x[m + i] = new[i] BY <2>1, <1>4
  <2>3. QED BY <2>2
<1> HIDE DEF new
<1>7. Begins(c, x) BY <1>1, <1>4, <1>5 DEF Begins
<1>8. ASSUME NEW h \in 1..Len(x), h > m PROVE \E i \in 1..n : h = m + i
  <2>1. h - m \in 1..n /\ h = m + (h - m) BY <1>1, <1>4, <1>8
  <2>2. QED BY <2>1
<1>9. Steady(x)
  <2>1. SUFFICES ASSUME NEW h \in 1..Len(x)
        PROVE IF h = 1 THEN x[h].file = 1 ELSE x[h].file \in {x[h - 1].file, x[h - 1].file + 1}
    BY DEF Steady
  <2>2. CASE h <= m
    <3>1. h \in 1..m /\ x[h] = c[h] BY <2>2, <1>1, <1>5
    <3>2. h # 1 => h - 1 \in 1..m /\ x[h - 1] = c[h - 1] BY <3>1, <1>1, <1>5
    <3>3. QED BY <3>1, <3>2 DEF Chained, Steady
  <2>3. CASE h > m
    <3>1. PICK i \in 1..n : h = m + i BY <2>3, <1>8
    <3>2. x[h].file = Place(c, batch)[i] BY <3>1, <1>6
    <3>3. CASE i # 1
      <4>1. i - 1 \in 1..n /\ h - 1 = m + (i - 1) /\ h # 1 BY <3>1, <3>3, <1>1
      <4>2. x[h - 1].file = Place(c, batch)[i - 1] BY <4>1, <1>6
      <4>3. QED BY <3>2, <3>3, <4>1, <4>2, PlaceAscends
    <3>4. CASE i = 1 /\ c = <<>>
      <4>1. m = 0 /\ h = 1 BY <3>1, <3>4
      <4>2. QED BY <3>2, <3>4, <4>1, PlaceAscends
    <3>5. CASE i = 1 /\ c # <<>>
      <4>1. m \in 1..m /\ h # 1 /\ h - 1 = m BY <3>1, <3>5, <1>1, EmptySeq DEF Events
      <4>2. x[h - 1] = c[m] /\ LastFile(c) = c[m].file BY <4>1, <1>5, <3>5 DEF LastFile
      <4>3. QED BY <3>2, <3>5, <4>1, <4>2, PlaceAscends
    <3>6. QED BY <3>3, <3>4, <3>5
  <2>4. QED BY <2>2, <2>3, <1>1, <1>4
<1>10. ASSUME NEW h \in 1..Len(x)
       PROVE  x[h].seq = h /\ (version = 1 => x[h].file = (h - 1) \div Limit + 1)
  <2>1. CASE h <= m
    <3>1. h \in 1..m /\ x[h] = c[h] BY <2>1, <1>1, <1>5
    <3>2. QED BY <3>1 DEF Chained
  <2>2. CASE h > m
    <3>1. PICK i \in 1..n : h = m + i BY <2>2, <1>8
    <3>2. QED BY <3>1, <1>6, PlaceAscends
  <2>3. QED BY <2>1, <2>2, <1>1, <1>4
<1>11. Chained(x) BY ONLY <1>9, <1>10 DEF Chained
<1>12. Len(x) > m BY <1>1, <1>4
<1>13. x \in Events BY <1>4
<1>14. QED BY <1>7, <1>11, <1>12, <1>13 DEF x

-----------------------------------------------------------------------------
(* What is left of an append: the writes are the last of those of its chain,*)
(* and the log has the chain up to the segment to be written next, or up to *)
(* some event in it.                                                       *)
SegmentsLeft(todo) == IF version = 2 THEN Len(todo) \div 2 ELSE Len(todo)
NextFile(c, todo) == LastFile(c) - SegmentsLeft(todo) + 1

Sidecars == FileWrite("index", 0, <<>>, <<>>)
Segment(c, k) == FileWrite("segment", k, InFile(c, k), <<>>)

(* The write with d writes after it. *)
SegmentWrite(c, d) ==
    IF version = 2 /\ d % 2 = 0 THEN Sidecars
    ELSE Segment(c, LastFile(c) - (IF version = 2 THEN d \div 2 ELSE d))

(* The log has what a chain has in files before k, and nothing behind it.   *)
Reaches(c, k) ==
    /\ Begins(log, c)
    /\ \A i \in 1..Len(c) : (c[i].file < k => i <= Len(log)) /\ (c[i].file > k => i > Len(log))

Appending(c, todo) ==
    /\ Chained(c)
    /\ Len(c) \in 1..MaxEvents
    /\ NextFile(c, todo) >= 1
    /\ Reaches(c, NextFile(c, todo))
    /\ \A i \in 1..Len(todo) : todo[i] = SegmentWrite(c, Len(todo) - i)
    /\ version = 2 /\ todo = <<>> => index = Len(log)

(* What is left of a checkpoint: its part is there before its manifest is   *)
(* written, which lists segments that hold what the part does and more.    *)
Checkpointing(c, todo) ==
    /\ Begins(c, log)
    /\ Len(todo) <= 2
    /\ Len(todo) = 2 => todo[1] = FileWrite("part", Len(c), c, <<>>)
    /\ todo # <<>> =>
           LET m == todo[Len(todo)]
           IN  /\ m = FileWrite("manifest", Len(c), c, m.segments)
               /\ Begins(m.segments, log) /\ Begins(c, m.segments)
    /\ Len(todo) = 1 => c \in parts

(* What is left of the views. *)
Showing(c, todo) ==
    /\ c = log
    /\ Len(todo) <= Views
    /\ \A i \in 1..Len(todo) : todo[i] = FileWrite("view", Views - Len(todo) + i, log, <<>>)
    /\ \A i \in 1 .. Views - Len(todo) : views[i] = Len(log)

CommandPhase(at, todo, c) ==
    /\ at \in Phase \ {"digest"}
    /\ at \in {"idle", "sweep", "replay"} => todo = <<>>
    /\ at = "segments" => Appending(c, todo)
    /\ at = "checkpoint" => c = log /\ Checkpointing(c, todo)
    /\ at \in {"views", "rebuildViews"} => Showing(c, todo)
    /\ at \in {"checkpoint", "views"} /\ version = 2 => index = Len(log)

RebuildPhase(at, todo, c) ==
    /\ at \in {"idle", "replay", "digest", "checkpoint"}
    /\ at \in {"idle", "replay", "digest"} => todo = <<>>
    /\ at = "digest" => Begins(c, log)
    /\ at = "checkpoint" => Checkpointing(c, todo)

CommandOK ==
    LET j == job["command"] IN
    CommandPhase(j.at, j.todo, j.chain) /\ (j.at # "idle" => outcome = "none")

RebuildOK == LET j == job["rebuild"] IN RebuildPhase(j.at, j.todo, j.chain)

(* The manifest names a part that is there, and lists segments that were.   *)
ManifestOK ==
    manifest # NoManifest =>
        /\ manifest.state \in parts
        /\ Len(manifest.state) = manifest.version
        /\ Begins(manifest.state, manifest.segments)
        /\ Begins(manifest.segments, log)

(* A temporary file is that of the write its writer has opened; while events*)
(* are appended, there are no others in events/.                           *)
TemporariesOK ==
    /\ \A w \in Writer : job[w].open => job[w].todo # <<>>
    /\ \A t \in tmp : t.by \in Writer =>
           job[t.by].open /\ t.dir = DirectoryOf(Head(job[t.by].todo))
    /\ job["command"].at \in {"segments", "checkpoint", "views"} =>
           \A t \in tmp : t.dir = "events" => t.by = "command"

(* Without overlap in version 1, digests name segments only. *)
CleanOK ==
    1 \notin Overlapped =>
        /\ version = 1 => \E w \in Writer : job[w].at = "idle"
        /\ version = 1 /\ job["rebuild"].at = "digest" => \A t \in tmp : t.dir # "events"
        /\ \A w \in Writer : job[w].at = "checkpoint" => job[w].clean
        /\ manifest # NoManifest => manifest.clean

DerivedOK ==
    /\ outcome \in {"appended", "recovered"} => \A i \in 1..Views : views[i] = Len(log)
    /\ outcome \in {"appended", "unwritten"} /\ version = 2 => index = Len(log)

StoreInv ==
    TypeOK /\ Chained(log) /\ CommandOK /\ RebuildOK /\ ManifestOK /\ TemporariesOK /\ CleanOK /\ DerivedOK

-----------------------------------------------------------------------------
LEMMA WriteType ==
    ASSUME NEW kind \in Kind, NEW file \in Nat, NEW state \in Events, NEW segments \in Events
    PROVE  FileWrite(kind, file, state, segments) \in Write
BY DEF FileWrite, Write

LEMMA NoEvents == <<>> \in Events /\ Len(<<>>) = 0
BY EmptySeq DEF Events

LEMMA NoJobType ==
    /\ NoManifest \in Manifest
    /\ NoJob \in Job
    /\ NoJob.at = "idle" /\ NoJob.todo = <<>> /\ NoJob.open = FALSE /\ NoJob.chain = <<>>
    /\ NoJob.base = 0 /\ NoJob.seed = NoManifest /\ NoJob.listed = {} /\ NoJob.clean = TRUE
<1>1. NoManifest \in Manifest BY NoEvents DEF NoManifest, Manifest
<1>2. <<>> \in Writes BY EmptySeq DEF Writes
<1>3. NoJob \in Job BY <1>1, <1>2, NoEvents DEF NoJob, Job, Phase
<1>4. QED BY <1>1, <1>3 DEF NoJob

(* Put changes the job of one writer. *)
LEMMA PutIs ==
    ASSUME job \in [Writer -> Job], NEW w \in Writer, NEW j \in Job, Put(w, j)
    PROVE  /\ job' \in [Writer -> Job]
           /\ job'[w] = j
           /\ \A v \in Writer : v # w => job'[v] = job[v]
BY DEF Put

(* A job whose first write is done. *)
LEMMA AdvancedIs ==
    ASSUME NEW j \in Job, j.todo # <<>>
    PROVE  LET r == [j EXCEPT !.todo = Tail(@), !.open = FALSE]
           IN  /\ r \in Job
               /\ r.at = j.at /\ r.todo = Tail(j.todo) /\ r.open = FALSE /\ r.chain = j.chain
               /\ r.base = j.base /\ r.seed = j.seed /\ r.listed = j.listed /\ r.clean = j.clean
<1>1. Tail(j.todo) \in Writes BY HeadTailProperties DEF Job, Writes
<1>2. QED BY <1>1 DEF Job

LEMMA TailIs ==
    ASSUME NEW todo \in Writes, todo # <<>>
    PROVE  /\ Tail(todo) \in Writes
           /\ Len(todo) \in Nat \ {0}
           /\ Head(todo) = todo[1]
           /\ Len(Tail(todo)) = Len(todo) - 1
           /\ \A i \in 1 .. Len(todo) - 1 : Tail(todo)[i] = todo[i + 1]
           /\ Tail(todo) = <<>> <=> Len(todo) = 1
<1>1. /\ Tail(todo) \in Writes
      /\ Len(Tail(todo)) = Len(todo) - 1
      /\ \A i \in 1 .. Len(todo) - 1 : Tail(todo)[i] = todo[i + 1]
  BY HeadTailProperties DEF Writes
<1>2. Len(todo) \in Nat \ {0} BY EmptySeq DEF Writes
<1>3. Tail(todo) = <<>> <=> Len(Tail(todo)) = 0 BY <1>1, EmptySeq DEF Writes
<1>4. QED BY <1>1, <1>2, <1>3

(* The writes of an append. *)
LEMMA SegmentWritesAre ==
    ASSUME Settings = {FALSE}, version \in {1, 2}, NEW c \in Events, Chained(c),
           NEW from \in Nat, from < Len(c)
    PROVE  LET first == c[from + 1].file
               todo  == SegmentWrites(c, from)
           IN  /\ first \in 1 .. LastFile(c)
               /\ todo \in Writes
               /\ SegmentsLeft(todo) = LastFile(c) - first + 1
               /\ todo # <<>>
               /\ \A i \in 1..Len(todo) : todo[i] = SegmentWrite(c, Len(todo) - i)
<1> DEFINE first == c[from + 1].file
           last == LastFile(c)
           t == last - first + 1
           todo == SegmentWrites(c, from)
<1>1. Len(c) \in Nat /\ from + 1 \in 1..Len(c) /\ Len(c) \in 1..Len(c) BY LenIs
<1>2. last = c[Len(c)].file /\ c # <<>> BY <1>1, NoEvents DEF LastFile
<1>3. first \in 1 .. last
  <2>1. first \in 1 .. from + 1 BY <1>1, SteadyAscends DEF Chained
  <2>2. first <= last BY <1>1, <1>2, SteadyAscends DEF Chained
  <2>3. last \in Nat BY <1>1, <1>2, FileType
  <2>4. QED BY <2>1, <2>2, <2>3
<1>4. last \in Nat /\ t \in Nat \ {0} BY <1>1, <1>2, <1>3, FileType
<1>5. ~Plain(c)
  <2>1. c[Len(c)] \in Event BY <1>1, FileType
  <2>2. QED BY <2>1 DEF Plain, Event
<1>6. ASSUME NEW k \in Nat PROVE Segment(c, k) \in Write
  <2>1. InFile(c, k) \in Events BY InFileIs DEF Chained
  <2>2. QED BY <2>1, WriteType, NoEvents DEF Segment, Kind
<1>7. Sidecars \in Write BY WriteType, NoEvents DEF Sidecars, Kind
<1> HIDE DEF first, last, t
<1>8. CASE version = 2
  <2> DEFINE f == [j \in 1 .. 2 * t |-> IF j % 2 = 1 THEN Segment(c, first + j \div 2) ELSE Sidecars]
  <2>1. todo = f BY <1>5, <1>8 DEF SegmentWrites, Segment, Sidecars, first, last, t
  <2>2. \A j \in 1 .. 2 * t : f[j] \in Write
    <3>1. \A j \in 1 .. 2 * t : first + j \div 2 \in Nat BY <1>3, <1>4
    <3>2. QED BY <3>1, <1>6, <1>7
  <2>3. 2 * t \in Nat BY <1>4
  <2>4. f \in [1 .. 2 * t -> Write] BY <2>2
  <2>5. ASSUME NEW i \in 1 .. 2 * t PROVE f[i] = SegmentWrite(c, 2 * t - i)
    <3>1. i \in Nat /\ 2 * t - i \in Nat BY <1>4
    <3>2. CASE i % 2 = 1
      <4>1. (2 * t - i) % 2 = 1 BY <3>1, <3>2, <1>4
      <4>2. last - (2 * t - i) \div 2 = first + i \div 2 BY <3>1, <3>2, <1>3, <1>4 DEF t
      <4>3. QED BY <3>2, <4>1, <4>2, <1>8 DEF SegmentWrite, last
    <3>3. CASE i % 2 # 1
      <4>1. (2 * t - i) % 2 = 0 BY <3>1, <3>3, <1>4
      <4>2. QED BY <3>3, <4>1, <1>8 DEF SegmentWrite
    <3>4. QED BY <3>2, <3>3
  <2> HIDE DEF f
  <2>6. f \in Seq(Write) /\ Len(f) = 2 * t BY <2>3, <2>4
  <2>7. f # <<>> BY <2>6, <1>4
  <2>8. SegmentsLeft(f) = t BY <2>6, <1>8, <1>4 DEF SegmentsLeft
  <2>9. QED BY <1>3, <2>1, <2>5, <2>6, <2>7, <2>8 DEF Writes, first, last, t
<1>9. CASE version = 1
  <2> DEFINE f == [j \in 1 .. t |-> Segment(c, first + j - 1)]
  <2>1. todo = f BY <1>9 DEF SegmentWrites, Segment, first, last, t
  <2>2. \A j \in 1 .. t : f[j] \in Write
    <3>1. \A j \in 1 .. t : first + j - 1 \in Nat BY <1>3, <1>4
    <3>2. QED BY <3>1, <1>6
  <2>3. f \in [1 .. t -> Write] BY <2>2
  <2>4. ASSUME NEW i \in 1 .. t PROVE f[i] = SegmentWrite(c, t - i)
    <3>1. last - (t - i) = first + i - 1 BY <1>3, <1>4 DEF t
    <3>2. QED BY <3>1, <1>9 DEF SegmentWrite, last
  <2> HIDE DEF f
  <2>5. f \in Seq(Write) /\ Len(f) = t BY <2>3, <1>4
  <2>6. f # <<>> BY <2>5, <1>4
  <2>7. SegmentsLeft(f) = t BY <2>5, <1>9 DEF SegmentsLeft
  <2>8. QED BY <1>3, <2>1, <2>4, <2>5, <2>6, <2>7 DEF Writes, first, last, t
<1>10. QED BY <1>8, <1>9

-----------------------------------------------------------------------------
(* The next write of an append. *)
LEMMA NextWrite ==
    ASSUME version \in {1, 2}, NEW c \in Events, NEW todo \in Writes, todo # <<>>, Appending(c, todo)
    PROVE  LET k == NextFile(c, todo) IN
           \/ /\ version = 2 /\ Head(todo) = Sidecars
              /\ NextFile(c, Tail(todo)) = k
           \/ /\ Head(todo) = Segment(c, k)
              /\ NextFile(c, Tail(todo)) = k + 1
              /\ version = 2 => Tail(todo) # <<>>
              /\ k \in 1 .. LastFile(c) /\ k # TimeIndex
<1> DEFINE r == Len(todo)
           last == LastFile(c)
<1>1. /\ r \in Nat \ {0} /\ Head(todo) = todo[1] /\ Len(Tail(todo)) = r - 1
      /\ Tail(todo) = <<>> <=> r = 1
  BY TailIs
<1>2. Head(todo) = SegmentWrite(c, r - 1) BY <1>1 DEF Appending
<1>3. last \in Nat /\ last <= MaxEvents /\ MaxEvents \in Nat
  <2>1. Len(c) \in 1..Len(c) /\ MaxEvents \in Nat /\ Len(c) <= MaxEvents
    BY StoreAssumption, LenIs DEF Appending
  <2>2. c[Len(c)].file \in 1..Len(c) BY <2>1, SteadyAscends DEF Appending, Chained
  <2>3. c # <<>> BY <2>1, NoEvents
  <2>4. QED BY <2>1, <2>2, <2>3 DEF LastFile
<1> HIDE DEF last
<1>4. NextFile(c, todo) = last - SegmentsLeft(todo) + 1
      /\ NextFile(c, Tail(todo)) = last - SegmentsLeft(Tail(todo)) + 1
  BY DEF NextFile, last
<1>5. NextFile(c, todo) >= 1 BY DEF Appending
<1>6. CASE version = 2
  <2>1. SegmentsLeft(todo) = r \div 2 /\ SegmentsLeft(Tail(todo)) = (r - 1) \div 2
    BY <1>1, <1>6 DEF SegmentsLeft
  <2>2. CASE (r - 1) % 2 = 0
    <3>1. (r - 1) \div 2 = r \div 2 BY <2>2, <1>1
    <3>2. QED BY <3>1, <2>1, <2>2, <1>2, <1>4, <1>6 DEF SegmentWrite
  <2>3. CASE (r - 1) % 2 # 0
    <3>1. (r - 1) \div 2 = r \div 2 - 1 /\ r # 1 /\ r \div 2 \in Nat \ {0} BY <2>3, <1>1
    <3>2. Head(todo) = Segment(c, last - (r - 1) \div 2) BY <1>2, <1>6, <2>3 DEF SegmentWrite, last
    <3>3. NextFile(c, todo) = last - (r - 1) \div 2 BY <3>1, <2>1, <1>3, <1>4
    <3>4. NextFile(c, Tail(todo)) = NextFile(c, todo) + 1 BY <3>1, <2>1, <1>3, <1>4
    <3>5. NextFile(c, todo) \in 1 .. last BY <3>1, <3>3, <1>3, <1>5
    <3>6. NextFile(c, todo) # TimeIndex BY <3>5, <1>3 DEF TimeIndex
    <3>7. QED BY <3>1, <3>2, <3>3, <3>4, <3>5, <3>6, <1>1 DEF last
  <2>4. QED BY <2>2, <2>3
<1>7. CASE version = 1
  <2>1. SegmentsLeft(todo) = r /\ SegmentsLeft(Tail(todo)) = r - 1 BY <1>1, <1>7 DEF SegmentsLeft
  <2>2. Head(todo) = Segment(c, last - (r - 1)) BY <1>2, <1>7 DEF SegmentWrite, last
  <2>3. NextFile(c, todo) = last - (r - 1) BY <2>1, <1>1, <1>3, <1>4
  <2>4. NextFile(c, Tail(todo)) = NextFile(c, todo) + 1 BY <2>1, <1>1, <1>3, <1>4
  <2>5. NextFile(c, todo) \in 1 .. last BY <2>3, <1>1, <1>3, <1>5
  <2>6. NextFile(c, todo) # TimeIndex BY <2>5, <1>3 DEF TimeIndex
  <2>7. QED BY <2>2, <2>3, <2>4, <2>5, <2>6, <1>7 DEF last
<1>8. QED BY <1>6, <1>7

(* Nothing of an append is left: the log is its chain. *)
LEMMA AppendedIsChain ==
    ASSUME version \in {1, 2}, log \in Events, NEW c \in Events, NEW todo \in Writes, todo = <<>>,
           Appending(c, todo)
    PROVE  log = c
<1>1. Len(todo) = 0 BY NoEvents
<1>2. SegmentsLeft(todo) = 0 BY <1>1 DEF SegmentsLeft
<1>3. Len(c) \in 1..Len(c) BY LenIs, StoreAssumption DEF Appending
<1>4. c # <<>> BY <1>3, NoEvents
<1>5. c[Len(c)].file = LastFile(c) /\ LastFile(c) \in Nat BY <1>3, <1>4, FileType DEF LastFile
<1>6. NextFile(c, todo) = LastFile(c) + 1 BY <1>2, <1>5 DEF NextFile
<1>7. Len(c) <= Len(log) BY <1>3, <1>5, <1>6 DEF Appending, Reaches
<1>8. QED BY <1>7, BeginsAll DEF Appending, Reaches

(* A segment file is replaced. *)
LEMMA SegmentStep ==
    ASSUME version \in {1, 2}, log \in Events, NEW c \in Events, NEW todo \in Writes, todo # <<>>,
           Appending(c, todo), NEW k, k = NextFile(c, todo), k \in 1 .. LastFile(c),
           NextFile(c, Tail(todo)) = k + 1, version = 2 => Tail(todo) # <<>>,
           log' = Rewritten(c, k), version' = version, index' = index
    PROVE  /\ log' \in Events
           /\ Begins(log, log')
           /\ Chained(log)'
           /\ Appending(c, Tail(todo))'
<1>1. k \in Int /\ Steady(c) /\ Begins(log, c)
  <2>1. Len(c) \in 1..Len(c) BY LenIs, StoreAssumption DEF Appending
  <2>2. c # <<>> BY <2>1, NoEvents
  <2>3. LastFile(c) \in Nat BY <2>1, <2>2, FileType DEF LastFile
  <2>4. QED BY <2>3 DEF Appending, Chained, Reaches
<1>2. /\ log' \in Events /\ Len(log') = UpTo(c, k)
      /\ Begins(log, log') /\ Begins(log', c)
  BY <1>1, Rewriting DEF Appending, Reaches
<1>3. Chained(c)' BY DEF Appending, Chained
<1>4. Chained(log)'
  <2>1. Chained(log') BY <1>2, ChainedPrefix DEF Appending
  <2>2. QED BY <2>1 DEF Chained
<1>5. NextFile(c, Tail(todo))' = k + 1 BY DEF NextFile, SegmentsLeft
<1>6. Reaches(c, k + 1)'
  <2>1. ASSUME NEW i \in 1..Len(c)
        PROVE  (c[i].file < k + 1 => i <= Len(log')) /\ (c[i].file > k + 1 => i > Len(log'))
    <3>1. c[i].file <= k <=> i <= Len(log') BY <1>1, <1>2, Cut
    <3>2. c[i].file \in Nat /\ Len(log') \in Nat BY <1>2, FileType, LenIs
    <3>3. QED BY <3>1, <3>2, <1>1
  <2>2. QED BY <2>1, <1>2 DEF Reaches
<1>7. \A i \in 1..Len(Tail(todo)) : Tail(todo)[i] = SegmentWrite(c, Len(Tail(todo)) - i)'
  <2>1. ASSUME NEW i \in 1..Len(Tail(todo)) PROVE Tail(todo)[i] = SegmentWrite(c, Len(Tail(todo)) - i)
    <3>1. i + 1 \in 1..Len(todo) /\ Tail(todo)[i] = todo[i + 1] /\ Len(todo) - (i + 1) = Len(Tail(todo)) - i
      BY TailIs
    <3>2. QED BY <3>1 DEF Appending
  <2>2. QED BY <2>1 DEF SegmentWrite
<1>8. QED BY <1>1, <1>2, <1>3, <1>4, <1>5, <1>6, <1>7 DEF Appending

(* The sidecars are rebuilt. *)
LEMMA SidecarsStep ==
    ASSUME version = 2, NEW c \in Events, NEW todo \in Writes, todo # <<>>, Appending(c, todo),
           NextFile(c, Tail(todo)) = NextFile(c, todo),
           log' = log, version' = version, index' = Len(log)
    PROVE  Appending(c, Tail(todo))'
<1>1. Chained(c)' BY DEF Appending, Chained
<1>2. NextFile(c, Tail(todo))' = NextFile(c, todo) BY DEF NextFile, SegmentsLeft
<1>3. Reaches(c, NextFile(c, Tail(todo)))' BY DEF Reaches, NextFile, SegmentsLeft, Appending
<1>4. \A i \in 1..Len(Tail(todo)) : Tail(todo)[i] = SegmentWrite(c, Len(Tail(todo)) - i)'
  <2>1. ASSUME NEW i \in 1..Len(Tail(todo)) PROVE Tail(todo)[i] = SegmentWrite(c, Len(Tail(todo)) - i)
    <3>1. i + 1 \in 1..Len(todo) /\ Tail(todo)[i] = todo[i + 1] /\ Len(todo) - (i + 1) = Len(Tail(todo)) - i
      BY TailIs
    <3>2. QED BY <3>1 DEF Appending
  <2>2. QED BY <2>1 DEF SegmentWrite
<1>5. QED BY <1>1, <1>2, <1>3, <1>4 DEF Appending

-----------------------------------------------------------------------------
LEMMA WritesType ==
    ASSUME NEW todo \in Writes, todo # <<>>
    PROVE  /\ Head(todo) = todo[1] /\ Head(todo) \in Write
           /\ todo[Len(todo)] \in Write
           /\ todo[Len(todo)].segments \in Events
<1>1. Len(todo) \in Nat \ {0} /\ Head(todo) = todo[1] BY TailIs
<1>2. todo[1] \in Write /\ todo[Len(todo)] \in Write BY <1>1, ElementOfSeq DEF Writes
<1>3. QED BY <1>1, <1>2 DEF Write

(* A part that begins the log stays. *)
PartsStay == \A d \in parts : d \in Events /\ Begins(d, log') => d \in parts'

(* A write of an append. *)
LEMMA AppendStep ==
    ASSUME TypeOK, NEW c \in Events, NEW todo \in Writes, todo # <<>>, Appending(c, todo), Chained(log),
           NEW w \in Writer, Replaced(w, Head(todo))
    PROVE  /\ log' \in Events /\ index' \in Nat
           /\ Begins(log, log')
           /\ Chained(log)'
           /\ Appending(c, Tail(todo))'
           /\ UNCHANGED <<version, parts, manifest, views>>
<1> DEFINE k == NextFile(c, todo)
<1>1. version \in {1, 2} /\ log \in Events /\ version' = version BY DEF TypeOK, Replaced
<1>2. CASE version = 2 /\ Head(todo) = Sidecars /\ NextFile(c, Tail(todo)) = k
  <2>1. log' = log /\ index' = Len(log) /\ UNCHANGED <<version, parts, manifest, views>>
    BY <1>2 DEF Replaced, Sidecars, FileWrite
  <2>2. Appending(c, Tail(todo))' BY <1>2, <2>1, SidecarsStep
  <2>3. Begins(log, log') /\ Chained(log)' BY <2>1, <1>1, LenIs DEF Begins, Chained
  <2>4. QED BY <1>1, <2>1, <2>2, <2>3, LenIs
<1>3. CASE /\ Head(todo) = Segment(c, k)
           /\ NextFile(c, Tail(todo)) = k + 1
           /\ version = 2 => Tail(todo) # <<>>
           /\ k \in 1 .. LastFile(c) /\ k # TimeIndex
  <2> HIDE DEF k
  <2>5. Head(todo).kind = "segment" /\ Head(todo).file = k /\ Head(todo).state = InFile(c, k)
    BY <1>3 DEF Segment, FileWrite
  <2>1. log' = Rewritten(c, k) /\ UNCHANGED <<version, index, parts, manifest, views>>
    BY <2>5, <1>3 DEF Replaced, Rewritten
  <2>2. /\ log' \in Events /\ Begins(log, log') /\ Chained(log)'
        /\ Appending(c, Tail(todo))'
    BY <1>1, <1>3, <2>1, SegmentStep DEF k
  <2>3. QED BY <2>1, <2>2 DEF TypeOK
<1>4. QED BY <1>1, <1>2, <1>3, NextWrite

(* A write of a checkpoint. *)
LEMMA CheckpointStep ==
    ASSUME TypeOK, ManifestOK, NEW c \in Events, NEW todo \in Writes, todo # <<>>, Checkpointing(c, todo),
           NEW w \in Writer, Replaced(w, Head(todo))
    PROVE  /\ parts' \in SUBSET Events /\ manifest' \in Manifest
           /\ ManifestOK'
           /\ PartsStay
           /\ Checkpointing(c, Tail(todo))'
           /\ UNCHANGED <<version, log, index, views>>
           /\ manifest' = manifest \/ manifest'.clean = job[w].clean
<1>1. /\ Head(todo) = todo[1] /\ Head(todo) \in Write
      /\ Len(todo) \in Nat \ {0} /\ Len(Tail(todo)) = Len(todo) - 1
      /\ Tail(todo) = <<>> <=> Len(todo) = 1
      /\ Tail(todo) \in Writes
  BY TailIs, WritesType
<1>2. log \in Events /\ parts \in SUBSET Events /\ manifest \in Manifest /\ job[w] \in Job
  BY DEF TypeOK
<1>3. Len(todo) \in {1, 2} BY <1>1 DEF Checkpointing
<1>4. CASE Len(todo) = 2
  <2>1. Head(todo) = FileWrite("part", Len(c), c, <<>>) BY <1>1, <1>4 DEF Checkpointing
  <2>2. /\ UNCHANGED <<version, log, index, manifest, views>>
        /\ parts' = {s \in parts : Len(s) # Len(c)} \cup {c}
    BY <2>1 DEF Replaced, FileWrite
  <2>3. PartsStay
    <3>1. ASSUME NEW d \in parts, d \in Events, Begins(d, log'), Len(d) = Len(c) PROVE d = c
      <4>1. Begins(d, log) /\ Begins(c, log) BY <3>1, <2>2 DEF Checkpointing
      <4>2. Len(c) \in Nat BY LenIs
      <4>3. \A i \in 1..Len(d) : d[i] = c[i] BY <4>1, <3>1 DEF Begins
      <4>4. QED BY <4>2, <4>3, <3>1, SeqEqual DEF Events
    <3>2. QED BY <2>2, <3>1 DEF PartsStay
  <2>4. ManifestOK'
    <3>1. SUFFICES ASSUME manifest # NoManifest
          PROVE manifest.state \in parts'
      BY <2>2 DEF ManifestOK
    <3>2. manifest.state \in parts /\ manifest.state \in Events /\ manifest.segments \in Events
      BY <3>1, <1>2 DEF ManifestOK, Manifest
    <3>3. Begins(manifest.state, log) BY <3>1, <3>2, <1>2, BeginsTransitively DEF ManifestOK
    <3>4. QED BY <2>2, <2>3, <3>2, <3>3 DEF PartsStay
  <2>5. Checkpointing(c, Tail(todo))'
    <3>1. Len(Tail(todo)) = 1 /\ Tail(todo)[1] = todo[2] BY <1>1, <1>4, TailIs
    <3>2. Tail(todo)[Len(Tail(todo))] = todo[Len(todo)] BY <3>1, <1>4
    <3>3. c \in parts' BY <2>2
    <3>4. Tail(todo) # <<>> /\ todo # <<>> BY <1>1, <1>4
    <3>5. QED BY <2>2, <3>1, <3>2, <3>3, <3>4 DEF Checkpointing
  <2>6. QED BY <1>2, <2>2, <2>3, <2>4, <2>5
<1>5. CASE Len(todo) = 1
  <2> DEFINE m == todo[Len(todo)]
  <2>1. /\ m = FileWrite("manifest", Len(c), c, m.segments)
        /\ Begins(m.segments, log) /\ Begins(c, m.segments)
        /\ c \in parts
    BY <1>1, <1>5, NoEvents DEF Checkpointing
  <2>2. Head(todo) = m /\ m.segments \in Events BY <1>1, <1>5, WritesType
  <2> HIDE DEF m
  <2>3. m.kind = "manifest" /\ m.file = Len(c) /\ m.state = c
    BY <2>1 DEF FileWrite
  <2>4. /\ UNCHANGED <<version, log, index, parts, views>>
        /\ manifest' = [version |-> Len(c), state |-> c, segments |-> m.segments, clean |-> job[w].clean]
    BY <2>2, <2>3 DEF Replaced
  <2>5. manifest' \in Manifest BY <2>4, <2>2, <1>2, LenIs DEF Manifest, Job
  <2>6. ManifestOK' BY <2>1, <2>4 DEF ManifestOK, Begins
  <2>7. Checkpointing(c, Tail(todo))'
    <3>1. Tail(todo) = <<>> /\ Len(Tail(todo)) = 0 BY <1>1, <1>5
    <3>2. QED BY <3>1, <2>4 DEF Checkpointing
  <2>8. PartsStay BY <2>4 DEF PartsStay
  <2>9. QED BY <1>2, <2>4, <2>5, <2>6, <2>7, <2>8
<1>6. QED BY <1>3, <1>4, <1>5

(* A write of a view. *)
LEMMA ViewStep ==
    ASSUME TypeOK, NEW c \in Events, NEW todo \in Writes, todo # <<>>, Showing(c, todo),
           NEW w \in Writer, Replaced(w, Head(todo))
    PROVE  /\ views' \in [1..Views -> Nat]
           /\ Showing(c, Tail(todo))'
           /\ UNCHANGED <<version, log, index, parts, manifest>>
<1> DEFINE r == Len(todo)
<1>1. /\ Head(todo) = todo[1] /\ r \in Nat \ {0} /\ Len(Tail(todo)) = r - 1
      /\ \A i \in 1 .. r - 1 : Tail(todo)[i] = todo[i + 1]
  BY TailIs
<1>2. Views \in Nat /\ r <= Views /\ Len(log) \in Nat BY StoreAssumption, LenIs DEF Showing, TypeOK
<1>3. Head(todo) = FileWrite("view", Views - r + 1, log, <<>>) BY <1>1 DEF Showing
<1>4. /\ UNCHANGED <<version, log, index, parts, manifest>>
      /\ views' = [views EXCEPT ![Views - r + 1] = Len(log)]
  <2>1. Head(todo).kind = "view" /\ Head(todo).file = Views - r + 1 /\ Head(todo).state = log
    BY <1>3 DEF FileWrite
  <2>2. QED BY <2>1 DEF Replaced
<1>5. views \in [1..Views -> Nat] BY DEF TypeOK
<1>6. views' \in [1..Views -> Nat] BY <1>2, <1>4, <1>5
<1>7. \A i \in 1 .. Views - (r - 1) : views'[i] = Len(log)
  <2>1. ASSUME NEW i \in 1 .. Views - (r - 1) PROVE views'[i] = Len(log)
    <3>1. i \in 1 .. Views BY <1>1, <1>2
    <3>2. CASE i = Views - r + 1 BY <3>1, <3>2, <1>4, <1>5
    <3>3. CASE i # Views - r + 1
      <4>1. i \in 1 .. Views - r BY <3>3, <1>1, <1>2
      <4>2. views[i] = Len(log) BY <4>1 DEF Showing
      <4>3. QED BY <3>1, <3>3, <4>2, <1>4, <1>5
    <3>4. QED BY <3>2, <3>3
  <2>2. QED BY <2>1
<1>8. \A i \in 1 .. r - 1 : Tail(todo)[i] = FileWrite("view", Views - (r - 1) + i, log, <<>>)
  <2>1. ASSUME NEW i \in 1 .. r - 1 PROVE todo[i + 1] = FileWrite("view", Views - (r - 1) + i, log, <<>>)
    <3>1. i + 1 \in 1 .. r /\ Views - r + (i + 1) = Views - (r - 1) + i BY <1>1, <1>2
    <3>2. QED BY <3>1 DEF Showing
  <2>2. QED BY <2>1, <1>1
<1>9. Showing(c, Tail(todo))'
  <2>1. c = log /\ r - 1 <= Views BY <1>1, <1>2 DEF Showing
  <2>2. QED BY <2>1, <1>1, <1>4, <1>7, <1>8 DEF Showing, FileWrite
<1>10. QED BY <1>4, <1>6, <1>9

(* What a rebuild has left to do stays what it is while the log grows. *)
LEMMA RebuildKept ==
    ASSUME log \in Events, log' \in Events, Begins(log, log'), PartsStay,
           NEW at, NEW c \in Events, NEW todo \in Writes, RebuildPhase(at, todo, c)
    PROVE  RebuildPhase(at, todo, c)'
<1>1. Begins(c, log) => Begins(c, log') BY BeginsTransitively
<1>2. ASSUME Checkpointing(c, todo) PROVE Checkpointing(c, todo)'
  <2>1. Begins(c, log') BY <1>1, <1>2 DEF Checkpointing
  <2>2. c \in parts => c \in parts' BY <2>1 DEF PartsStay
  <2>3. todo # <<>> => Begins(todo[Len(todo)].segments, log')
    BY <1>2, WritesType, BeginsTransitively DEF Checkpointing
  <2>4. QED BY <1>2, <2>1, <2>2, <2>3 DEF Checkpointing, Begins
<1>3. Begins(c, log)' <=> Begins(c, log') BY DEF Begins
<1>4. QED BY <1>1, <1>2, <1>3 DEF RebuildPhase

(* What a command has left to do stays what it is while others leave its    *)
(* files alone.                                                            *)
LEMMA CommandKept ==
    ASSUME UNCHANGED <<version, log, index, views>>, PartsStay,
           NEW at, NEW c \in Events, NEW todo, CommandPhase(at, todo, c)
    PROVE  CommandPhase(at, todo, c)'
<1>1. Appending(c, todo) => Appending(c, todo)'
  BY DEF Appending, Chained, NextFile, SegmentsLeft, Reaches, Begins, SegmentWrite
<1>2. Checkpointing(c, todo) => Checkpointing(c, todo)'
  <2>1. Checkpointing(c, todo) /\ c \in parts => c \in parts' BY DEF PartsStay, Checkpointing
  <2>2. QED BY <2>1 DEF Checkpointing, Begins
<1>3. Showing(c, todo) => Showing(c, todo)' BY DEF Showing
<1>4. QED BY <1>1, <1>2, <1>3 DEF CommandPhase

-----------------------------------------------------------------------------
(* A write of whatever job: what it does to the files, and that what both   *)
(* jobs have left to do is still what it was.                              *)
LEMMA WriteStep ==
    ASSUME StoreInv, NEW w \in Writer, NEW j \in Job, j = job[w], j.todo # <<>>, Replaced(w, Head(j.todo)),
           NEW v \in Writer, v # w, NEW o \in Job, o = job[v]
    PROVE  /\ version' = version /\ log' \in Events /\ index' \in Nat
           /\ parts' \in SUBSET Events /\ manifest' \in Manifest /\ views' \in [1..Views -> Nat]
           /\ Begins(log, log') /\ Chained(log)' /\ ManifestOK'
           /\ w = "rebuild" => /\ UNCHANGED <<log, index, views>>
                               /\ RebuildPhase(j.at, Tail(j.todo), j.chain)'
                               /\ CommandPhase(o.at, o.todo, o.chain)'
           /\ w = "command" => /\ j.at # "segments" => UNCHANGED <<log, index>>
                               /\ CommandPhase(j.at, Tail(j.todo), j.chain)'
                               /\ RebuildPhase(o.at, o.todo, o.chain)'
           /\ \/ manifest' = manifest
              \/ j.at = "checkpoint" /\ manifest'.clean = j.clean
<1>1. TypeOK /\ ManifestOK /\ Chained(log) BY DEF StoreInv
<1>2. /\ j.at \in Phase /\ j.todo \in Writes /\ j.chain \in Events
      /\ o.at \in Phase /\ o.todo \in Writes /\ o.chain \in Events
  BY DEF Job
<1>3. log \in Events /\ version \in {1, 2} BY <1>1 DEF TypeOK
<1>4. Len(log) \in Nat /\ Begins(log, log) BY <1>3, LenIs DEF Begins
<1>5. CASE w = "rebuild"
  <2>1. /\ RebuildPhase(j.at, j.todo, j.chain) /\ CommandPhase(o.at, o.todo, o.chain)
    BY <1>5 DEF StoreInv, RebuildOK, CommandOK, Writer
  <2>2. j.at = "checkpoint" /\ Checkpointing(j.chain, j.todo) BY <2>1, <1>5 DEF RebuildPhase
  <2>3. /\ parts' \in SUBSET Events /\ manifest' \in Manifest /\ ManifestOK' /\ PartsStay
        /\ Checkpointing(j.chain, Tail(j.todo))'
        /\ UNCHANGED <<version, log, index, views>>
        /\ manifest' = manifest \/ manifest'.clean = j.clean
    BY <1>1, <1>2, <2>2, CheckpointStep
  <2>4. RebuildPhase(j.at, Tail(j.todo), j.chain)' BY <2>2, <2>3 DEF RebuildPhase
  <2>5. CommandPhase(o.at, o.todo, o.chain)' BY <1>2, <2>1, <2>3, CommandKept
  <2>6. Chained(log)' BY <1>1, <2>3 DEF Chained
  <2>7. QED BY <1>1, <1>4, <1>5, <2>2, <2>3, <2>4, <2>5, <2>6 DEF TypeOK
<1>6. CASE w = "command"
  <2>1. CommandPhase(j.at, j.todo, j.chain) /\ RebuildPhase(o.at, o.todo, o.chain)
    BY <1>6 DEF StoreInv, RebuildOK, CommandOK, Writer
  <2>2. j.at \in {"segments", "checkpoint", "views", "rebuildViews"}
    BY <2>1, <1>6 DEF CommandPhase, Phase
  <2>3. CASE j.at = "segments"
    <3>1. Appending(j.chain, j.todo) BY <2>1, <2>3 DEF CommandPhase
    <3>2. /\ log' \in Events /\ index' \in Nat /\ Begins(log, log') /\ Chained(log)'
          /\ Appending(j.chain, Tail(j.todo))'
          /\ UNCHANGED <<version, parts, manifest, views>>
      BY <1>1, <1>2, <3>1, AppendStep
    <3>3. CommandPhase(j.at, Tail(j.todo), j.chain)' BY <2>3, <3>2 DEF CommandPhase, Phase
    <3>4. PartsStay BY <3>2 DEF PartsStay
    <3>5. ManifestOK'
      <4>1. manifest.segments \in Events BY <1>1 DEF TypeOK, Manifest
      <4>2. Begins(manifest.segments, log) => Begins(manifest.segments, log')
        BY <4>1, <1>3, <3>2, BeginsTransitively
      <4>3. QED BY <1>1, <3>2, <4>2 DEF ManifestOK
    <3>6. RebuildPhase(o.at, o.todo, o.chain)' BY <1>2, <1>3, <2>1, <3>2, <3>4, RebuildKept
    <3>7. QED BY <1>1, <1>6, <2>3, <3>2, <3>3, <3>5, <3>6 DEF TypeOK
  <2>4. CASE j.at = "checkpoint"
    <3>1. j.chain = log /\ Checkpointing(j.chain, j.todo) /\ (version = 2 => index = Len(log))
      BY <2>1, <2>4 DEF CommandPhase
    <3>2. /\ parts' \in SUBSET Events /\ manifest' \in Manifest /\ ManifestOK' /\ PartsStay
          /\ Checkpointing(j.chain, Tail(j.todo))'
          /\ UNCHANGED <<version, log, index, views>>
          /\ manifest' = manifest \/ manifest'.clean = j.clean
      BY <1>1, <1>2, <3>1, CheckpointStep
    <3>3. CommandPhase(j.at, Tail(j.todo), j.chain)' BY <2>4, <3>1, <3>2 DEF CommandPhase, Phase
    <3>4. RebuildPhase(o.at, o.todo, o.chain)' BY <1>2, <1>3, <1>4, <2>1, <3>2, RebuildKept
    <3>5. Chained(log)' BY <1>1, <3>2 DEF Chained
    <3>6. QED BY <1>1, <1>4, <1>6, <2>4, <3>2, <3>3, <3>4, <3>5 DEF TypeOK
  <2>5. CASE j.at \in {"views", "rebuildViews"}
    <3>1. Showing(j.chain, j.todo) /\ (j.at = "views" /\ version = 2 => index = Len(log))
      BY <2>1, <2>5 DEF CommandPhase
    <3>2. /\ views' \in [1..Views -> Nat]
          /\ Showing(j.chain, Tail(j.todo))'
          /\ UNCHANGED <<version, log, index, parts, manifest>>
      BY <1>1, <1>2, <3>1, ViewStep
    <3>3. CommandPhase(j.at, Tail(j.todo), j.chain)' BY <2>5, <3>1, <3>2 DEF CommandPhase, Phase
    <3>4. PartsStay BY <3>2 DEF PartsStay
    <3>5. RebuildPhase(o.at, o.todo, o.chain)' BY <1>2, <1>3, <1>4, <2>1, <3>2, <3>4, RebuildKept
    <3>6. Chained(log)' /\ ManifestOK' BY <1>1, <3>2 DEF Chained, ManifestOK
    <3>7. QED BY <1>1, <1>4, <1>6, <2>5, <3>2, <3>3, <3>5, <3>6 DEF TypeOK
  <2>6. QED BY <2>2, <2>3, <2>4, <2>5
<1>7. QED BY <1>5, <1>6 DEF Writer

(* A step that leaves the files alone leaves what they promise.             *)
LEMMA DiskKept ==
    ASSUME StoreInv, UNCHANGED disk,
           NEW cj \in Job, cj = job["command"], NEW rj \in Job, rj = job["rebuild"]
    PROVE  /\ Chained(log)' /\ ManifestOK' /\ PartsStay /\ Begins(log, log')
           /\ CommandPhase(cj.at, cj.todo, cj.chain)'
           /\ RebuildPhase(rj.at, rj.todo, rj.chain)'
<1>1. UNCHANGED <<version, log, index, parts, manifest, views>> BY DEF disk
<1>2. /\ cj.chain \in Events /\ rj.chain \in Events /\ rj.todo \in Writes
      /\ CommandPhase(cj.at, cj.todo, cj.chain) /\ RebuildPhase(rj.at, rj.todo, rj.chain)
  BY DEF StoreInv, Job, CommandOK, RebuildOK
<1>3. log \in Events /\ PartsStay /\ Begins(log, log')
  BY <1>1, LenIs DEF PartsStay, Begins, StoreInv, TypeOK
<1>4. Chained(log)' /\ ManifestOK' BY <1>1 DEF StoreInv, Chained, ManifestOK
<1>5. CommandPhase(cj.at, cj.todo, cj.chain)' BY <1>1, <1>2, <1>3, CommandKept
<1>6. RebuildPhase(rj.at, rj.todo, rj.chain)' BY <1>1, <1>2, <1>3, RebuildKept
<1>7. QED BY <1>3, <1>4, <1>5, <1>6

(* The two jobs there are. *)
LEMMA TheJobs ==
    ASSUME StoreInv
    PROVE  /\ "command" \in Writer /\ "rebuild" \in Writer
           /\ job \in [Writer -> Job]
           /\ \E cj \in Job : cj = job["command"]
           /\ \E rj \in Job : rj = job["rebuild"]
BY DEF StoreInv, TypeOK, Writer

(* Nothing in events/ belongs to a job that has no file open. *)
LEMMA NothingOpen ==
    ASSUME StoreInv, NEW w \in Writer, job[w].todo = <<>>
    PROVE  \A t \in tmp : t.by # w
BY DEF StoreInv, TemporariesOK

(* A job with nothing to write is replaced by another, which has opened     *)
(* nothing yet.                                                            *)
LEMMA Handover ==
    ASSUME StoreInv, UNCHANGED disk, tmp' \subseteq tmp,
           NEW w \in Writer, job[w].todo = <<>>, NEW j \in Job, Put(w, j), j.open = FALSE,
           outcome' \in Outcome, acked' \in SUBSET Event, faults' \in Nat, rebuilds' \in Nat,
           DerivedOK',
           w = "command" => /\ CommandPhase(j.at, j.todo, j.chain)
                            /\ j.at # "idle" => outcome' = "none"
                            /\ j.at \in {"segments", "checkpoint", "views"} =>
                                   \A t \in tmp : t.dir # "events" \/ t.by = "command",
           w = "rebuild" => /\ RebuildPhase(j.at, j.todo, j.chain)
                            /\ outcome' = outcome
                            /\ 1 \notin Overlapped /\ version = 1 /\ j.at = "digest" =>
                                   \A t \in tmp : t.dir # "events",
           1 \notin Overlapped => /\ j.at = "checkpoint" => j.clean
                                  /\ version = 1 /\ j.at # "idle" => \E v \in Writer : v # w /\ job[v].at = "idle"
    PROVE  StoreInv'
<1>0. PICK cj \in Job, rj \in Job : cj = job["command"] /\ rj = job["rebuild"] BY TheJobs
<1>1. /\ job' \in [Writer -> Job] /\ job'[w] = j
      /\ \A v \in Writer : v # w => job'[v] = job[v]
  BY PutIs DEF StoreInv, TypeOK
<1>2. UNCHANGED <<version, log, index, parts, manifest, views>> BY DEF disk
<1>3. TypeOK' BY <1>1, <1>2 DEF StoreInv, TypeOK
<1>4. /\ Chained(log)' /\ ManifestOK' /\ PartsStay /\ Begins(log, log')
      /\ CommandPhase(cj.at, cj.todo, cj.chain)'
      /\ RebuildPhase(rj.at, rj.todo, rj.chain)'
  BY <1>0, DiskKept
<1>5. w \in {"command", "rebuild"} /\ "command" \in Writer /\ "rebuild" \in Writer BY DEF Writer
<1>6. j.chain \in Events /\ j.todo \in Writes /\ log \in Events /\ log' \in Events
  BY <1>2 DEF Job, StoreInv, TypeOK
<1>7. CommandOK'
  <2>1. CASE w = "command"
    <3>1. CommandPhase(j.at, j.todo, j.chain)' BY <2>1, <1>2, <1>4, <1>6, CommandKept
    <3>2. QED BY <3>1, <2>1, <1>1 DEF CommandOK
  <2>2. CASE w = "rebuild"
    <3>1. job'["command"] = cj BY <2>2, <1>0, <1>1, <1>5
    <3>2. cj.at # "idle" => outcome = "none" BY <1>0 DEF StoreInv, CommandOK
    <3>3. QED BY <2>2, <3>1, <3>2, <1>4 DEF CommandOK
  <2>3. QED BY <1>5, <2>1, <2>2
<1>8. RebuildOK'
  <2>1. CASE w = "rebuild"
    <3>1. RebuildPhase(j.at, j.todo, j.chain)' BY <2>1, <1>2, <1>4, <1>6, RebuildKept
    <3>2. QED BY <3>1, <2>1, <1>1 DEF RebuildOK
  <2>2. CASE w = "command"
    <3>1. job'["rebuild"] = rj BY <2>2, <1>0, <1>1, <1>5
    <3>2. QED BY <3>1, <1>4 DEF RebuildOK
  <2>3. QED BY <1>5, <2>1, <2>2
<1>9. TemporariesOK'
  <2>1. \A t \in tmp' : t \in tmp /\ t.by # w BY NothingOpen
  <2>2. \A v \in Writer : job'[v].open => job'[v].todo # <<>>
    BY <1>1 DEF StoreInv, TemporariesOK
  <2>3. \A t \in tmp' : t.by \in Writer =>
            job'[t.by].open /\ t.dir = DirectoryOf(Head(job'[t.by].todo))
    BY <1>1, <2>1 DEF StoreInv, TemporariesOK
  <2>4. job'["command"].at \in {"segments", "checkpoint", "views"} =>
            \A t \in tmp' : t.dir = "events" => t.by = "command"
    BY <1>1, <1>5, <2>1 DEF StoreInv, TemporariesOK
  <2>5. QED BY <2>2, <2>3, <2>4 DEF TemporariesOK, DirectoryOf
<1>10. CleanOK'
  <2>1. SUFFICES ASSUME 1 \notin Overlapped
        PROVE  /\ version = 1 => \E v \in Writer : job'[v].at = "idle"
               /\ version = 1 /\ job'["rebuild"].at = "digest" => \A t \in tmp' : t.dir # "events"
               /\ \A v \in Writer : job'[v].at = "checkpoint" => job'[v].clean
               /\ manifest # NoManifest => manifest.clean
    BY <1>2 DEF CleanOK
  <2>2. version = 1 => \E v \in Writer : job'[v].at = "idle" BY <2>1, <1>1
  <2>3. version = 1 /\ job'["rebuild"].at = "digest" => \A t \in tmp' : t.dir # "events"
    BY <2>1, <1>1, <1>5 DEF StoreInv, CleanOK
  <2>4. \A v \in Writer : job'[v].at = "checkpoint" => job'[v].clean
    BY <2>1, <1>1 DEF StoreInv, CleanOK
  <2>5. QED BY <2>1, <2>2, <2>3, <2>4 DEF StoreInv, CleanOK
<1>11. QED BY <1>3, <1>4, <1>7, <1>8, <1>9, <1>10 DEF StoreInv

-----------------------------------------------------------------------------
LEMMA OpenKeeps ==
    ASSUME StoreInv, NEW w \in Writer, Open(w)
    PROVE  StoreInv'
<1>1. PICK cj \in Job, rj \in Job : cj = job["command"] /\ rj = job["rebuild"] BY TheJobs
<1>2. PICK j \in Job : j = job[w] BY DEF StoreInv, TypeOK
<1>3. j.todo # <<>> /\ ~j.open /\ UNCHANGED disk BY <1>2 DEF Open
<1> DEFINE r == [j EXCEPT !.open = TRUE]
           new == [dir |-> DirectoryOf(Head(j.todo)), by |-> w]
<1>4. /\ r \in Job /\ r.at = j.at /\ r.todo = j.todo /\ r.open = TRUE /\ r.chain = j.chain
      /\ r.clean = j.clean
  BY DEF Job
<1>5. Put(w, r) /\ tmp' = tmp \cup {new} BY <1>2 DEF Open
<1>6. new \in Temporary
  <2>1. j.todo \in Writes BY DEF Job
  <2>2. Head(j.todo) \in Write BY <1>3, <2>1, WritesType
  <2>3. Head(j.todo).kind \in Kind BY <2>2 DEF Write
  <2>4. DirectoryOf(Head(j.todo)) \in Directory BY <2>3 DEF Kind, DirectoryOf, Directory
  <2>5. QED BY <2>4 DEF Temporary
<1> HIDE DEF r
<1>7. /\ job' \in [Writer -> Job] /\ job'[w] = r
      /\ \A v \in Writer : v # w => job'[v] = job[v]
  BY <1>4, <1>5, PutIs DEF StoreInv, TypeOK
<1>8. UNCHANGED <<version, log, index, parts, manifest, views, outcome, acked, faults, rebuilds>>
  BY DEF Open, disk, bounds
<1>9. TypeOK' BY <1>5, <1>6, <1>7, <1>8 DEF StoreInv, TypeOK
<1>10. /\ Chained(log)' /\ ManifestOK'
       /\ CommandPhase(cj.at, cj.todo, cj.chain)'
       /\ RebuildPhase(rj.at, rj.todo, rj.chain)'
  BY <1>1, <1>3, DiskKept
<1>11. /\ "command" \in Writer /\ "rebuild" \in Writer
       /\ job'["command"].at = cj.at /\ job'["command"].todo = cj.todo /\ job'["command"].chain = cj.chain
       /\ job'["rebuild"].at = rj.at /\ job'["rebuild"].todo = rj.todo /\ job'["rebuild"].chain = rj.chain
  BY <1>1, <1>2, <1>4, <1>7 DEF Writer
<1>12. CommandOK' /\ RebuildOK'
  <2>1. cj.at # "idle" => outcome = "none" BY <1>1 DEF StoreInv, CommandOK
  <2>2. QED BY <2>1, <1>8, <1>10, <1>11 DEF CommandOK, RebuildOK
<1>13. w = "rebuild" => rj.at = "checkpoint" /\ DirectoryOf(Head(j.todo)) = "snapshots"
  <2>1. SUFFICES ASSUME w = "rebuild"
        PROVE rj.at = "checkpoint" /\ DirectoryOf(Head(j.todo)) = "snapshots"
    OBVIOUS
  <2>2. j = rj /\ RebuildPhase(rj.at, rj.todo, rj.chain) BY <2>1, <1>1, <1>2 DEF StoreInv, RebuildOK
  <2>3. rj.at = "checkpoint" /\ Checkpointing(rj.chain, rj.todo) BY <2>2, <1>3 DEF RebuildPhase
  <2>4. rj.todo \in Writes /\ Len(rj.todo) \in {1, 2} /\ Head(rj.todo) = rj.todo[1]
    <3>1. rj.todo \in Writes /\ rj.todo # <<>> BY <2>2, <1>3 DEF Job
    <3>2. Len(rj.todo) \in Nat \ {0} /\ Head(rj.todo) = rj.todo[1] BY <3>1, TailIs
    <3>3. Len(rj.todo) <= 2 BY <2>3 DEF Checkpointing
    <3>4. Len(rj.todo) \in {1, 2}
      <4>1. PICK n \in Nat \ {0} : n = Len(rj.todo) BY <3>2
      <4>2. n <= 2 BY <4>1, <3>3
      <4>3. n \in {1, 2} BY ONLY <4>2, n \in Nat \ {0}
      <4>4. QED BY <4>1, <4>3
    <3>5. QED BY ONLY <3>1, <3>2, <3>4
  <2>5. Head(rj.todo).kind \in {"part", "manifest"}
    <3>1. CASE Len(rj.todo) = 2 BY <3>1, <2>3, <2>4 DEF Checkpointing, FileWrite
    <3>2. CASE Len(rj.todo) = 1
      <4>1. PICK m : m = rj.todo[1] OBVIOUS
      <4>2. m = FileWrite("manifest", Len(rj.chain), rj.chain, m.segments)
        BY <4>1, <3>2, <2>2, <2>3, <1>3 DEF Checkpointing
      <4>3. m.kind = "manifest" BY <4>2 DEF FileWrite
      <4>4. QED BY <4>1, <4>3, <2>4
    <3>3. QED BY <2>4, <3>1, <3>2
  <2>6. QED BY <2>2, <2>3, <2>5 DEF DirectoryOf
<1>14. TemporariesOK'
  <2>1. \A v \in Writer : job'[v].open => job'[v].todo # <<>>
    BY <1>2, <1>3, <1>4, <1>7 DEF StoreInv, TemporariesOK
  <2>2. ASSUME NEW t \in tmp', t.by \in Writer
        PROVE  job'[t.by].open /\ t.dir = DirectoryOf(Head(job'[t.by].todo))
    <3>1. CASE t = new
      <4>1. t.by = w /\ t.dir = DirectoryOf(Head(j.todo)) BY <3>1
      <4>2. QED BY <4>1, <1>4, <1>7
    <3>2. CASE t # new
      <4>1. t \in tmp BY <3>2, <1>5
      <4>2. job[t.by].open /\ t.dir = DirectoryOf(Head(job[t.by].todo))
        BY <4>1, <2>2 DEF StoreInv, TemporariesOK
      <4>3. t.by # w BY <4>2, <1>2, <1>3
      <4>4. QED BY <4>2, <4>3, <2>2, <1>7
    <3>3. QED BY <3>1, <3>2
  <2>3. ASSUME job'["command"].at \in {"segments", "checkpoint", "views"}, NEW t \in tmp', t.dir = "events"
        PROVE  t.by = "command"
    <3>1. CASE t = new
      <4>1. t.by = w /\ t.dir = DirectoryOf(Head(j.todo)) BY <3>1
      <4>2. QED BY <4>1, <2>3, <1>13 DEF Writer
    <3>2. CASE t # new
      <4>1. t \in tmp BY <3>2, <1>5
      <4>2. QED BY <4>1, <2>3, <1>1, <1>11 DEF StoreInv, TemporariesOK
    <3>3. QED BY <3>1, <3>2
  <2>4. QED BY <2>1, <2>2, <2>3 DEF TemporariesOK
<1>15. \A v \in Writer : job'[v].at = job[v].at /\ job'[v].clean = job[v].clean
  BY <1>2, <1>4, <1>7
<1>16. CleanOK'
  <2>1. ASSUME 1 \notin Overlapped, version = 1, rj.at = "digest", NEW t \in tmp' PROVE t.dir # "events"
    <3>1. w = "command" BY <2>1, <1>13 DEF Writer
    <3>2. cj.at = "idle" BY <2>1, <1>1 DEF StoreInv, CleanOK, Writer
    <3>3. j.todo = <<>> BY <3>1, <3>2, <1>1, <1>2 DEF StoreInv, CommandOK, CommandPhase
    <3>4. QED BY <3>3, <1>3
  <2>2. QED BY <2>1, <1>8, <1>11, <1>15 DEF StoreInv, CleanOK
<1>17. DerivedOK' BY <1>8 DEF StoreInv, DerivedOK
<1>18. QED BY <1>9, <1>10, <1>12, <1>14, <1>16, <1>17 DEF StoreInv

LEMMA CommitKeeps ==
    ASSUME StoreInv, NEW w \in Writer, Commit(w)
    PROVE  StoreInv'
<1>1. PICK j \in Job : j = job[w] BY DEF StoreInv, TypeOK
<1>2. PICK v \in Writer : v # w /\ \A u \in Writer : u \in {v, w} BY DEF Writer
<1>3. PICK o \in Job : o = job[v] BY DEF StoreInv, TypeOK
<1>4. j.todo # <<>>
  <2>1. PICK t \in tmp : t.by = w BY DEF Commit
  <2>2. QED BY <2>1, <1>1 DEF StoreInv, TemporariesOK
<1> DEFINE r == [j EXCEPT !.todo = Tail(@), !.open = FALSE]
<1>5. /\ r \in Job /\ r.at = j.at /\ r.todo = Tail(j.todo) /\ r.open = FALSE /\ r.chain = j.chain
      /\ r.clean = j.clean
  BY <1>4, AdvancedIs
<1>6. Put(w, r) /\ Replaced(w, Head(j.todo)) /\ tmp' = {t \in tmp : t.by # w}
  BY <1>1 DEF Commit
<1>7. UNCHANGED <<outcome, acked, faults, rebuilds>> BY DEF Commit, bounds
<1> HIDE DEF r
<1>8. /\ job' \in [Writer -> Job] /\ job'[w] = r /\ job'[v] = o
  BY <1>2, <1>3, <1>5, <1>6, PutIs DEF StoreInv, TypeOK
<1>9. /\ version' = version /\ log' \in Events /\ index' \in Nat
      /\ parts' \in SUBSET Events /\ manifest' \in Manifest /\ views' \in [1..Views -> Nat]
      /\ Begins(log, log') /\ Chained(log)' /\ ManifestOK'
      /\ w = "rebuild" => /\ UNCHANGED <<log, index, views>>
                          /\ RebuildPhase(j.at, Tail(j.todo), j.chain)'
                          /\ CommandPhase(o.at, o.todo, o.chain)'
      /\ w = "command" => /\ CommandPhase(j.at, Tail(j.todo), j.chain)'
                          /\ RebuildPhase(o.at, o.todo, o.chain)'
      /\ manifest' = manifest \/ (j.at = "checkpoint" /\ manifest'.clean = j.clean)
  BY <1>1, <1>2, <1>3, <1>4, <1>6, WriteStep
<1>10. TypeOK' BY <1>6, <1>7, <1>8, <1>9 DEF StoreInv, TypeOK
<1>11. \A u \in Writer : /\ job'[u].at = job[u].at /\ job'[u].clean = job[u].clean
                         /\ job'[u].chain = job[u].chain
  BY <1>1, <1>2, <1>3, <1>5, <1>8
<1>12. w = "command" => j.at # "idle" /\ outcome = "none"
  BY <1>1, <1>4 DEF StoreInv, CommandOK, CommandPhase
<1>13. CommandOK' /\ RebuildOK'
  <2>1. CASE w = "command"
    <3>1. v = "rebuild" BY <2>1, <1>2 DEF Writer
    <3>2. QED BY <2>1, <3>1, <1>5, <1>7, <1>8, <1>9, <1>12 DEF CommandOK, RebuildOK
  <2>2. CASE w = "rebuild"
    <3>1. v = "command" BY <2>2, <1>2 DEF Writer
    <3>2. o.at # "idle" => outcome = "none" BY <3>1, <1>3 DEF StoreInv, CommandOK
    <3>3. QED BY <2>2, <3>1, <3>2, <1>5, <1>7, <1>8, <1>9 DEF CommandOK, RebuildOK
  <2>3. QED BY <2>1, <2>2 DEF Writer
<1>14. TemporariesOK'
  <2>1. \A u \in Writer : job'[u].open => job'[u].todo # <<>>
    BY <1>2, <1>3, <1>5, <1>8 DEF StoreInv, TemporariesOK
  <2>2. \A t \in tmp' : t.by \in Writer =>
            job'[t.by].open /\ t.dir = DirectoryOf(Head(job'[t.by].todo))
    BY <1>2, <1>3, <1>6, <1>8 DEF StoreInv, TemporariesOK
  <2>3. job'["command"].at \in {"segments", "checkpoint", "views"} =>
            \A t \in tmp' : t.dir = "events" => t.by = "command"
    BY <1>6, <1>11 DEF StoreInv, TemporariesOK, Writer
  <2>4. QED BY <2>1, <2>2, <2>3 DEF TemporariesOK
<1>15. CleanOK'
  <2>1. 1 \notin Overlapped /\ manifest' # NoManifest => manifest'.clean
    BY <1>1, <1>9 DEF StoreInv, CleanOK
  <2>2. QED BY <2>1, <1>6, <1>9, <1>11 DEF StoreInv, CleanOK, Writer
<1>16. DerivedOK'
  <2>1. CASE w = "command" BY <2>1, <1>7, <1>12 DEF DerivedOK
  <2>2. CASE w = "rebuild" BY <2>2, <1>7, <1>9 DEF StoreInv, DerivedOK
  <2>3. QED BY <2>1, <2>2 DEF Writer
<1>17. QED BY <1>9, <1>10, <1>13, <1>14, <1>15, <1>16 DEF StoreInv

LEMMA NewEventsType ==
    ASSUME StoreInv, NEW w \in Writer
    PROVE  NewEvents(w) \in SUBSET Event
<1>1. PICK j \in Job : j = job[w] BY DEF StoreInv, TypeOK
<1>2. j.chain \in Events /\ j.base \in Nat BY DEF Job
<1>3. \A i \in j.base + 1 .. Len(j.chain) : i \in 1..Len(j.chain) BY <1>2, LenIs
<1>4. \A i \in j.base + 1 .. Len(j.chain) : j.chain[i] \in Event BY <1>2, <1>3, FileType
<1>5. QED BY <1>1, <1>4 DEF NewEvents

(* A job that ends, its temporary file removed or orphaned. *)
LEMMA EndKeeps ==
    ASSUME StoreInv, NEW w \in Writer, Put(w, NoJob),
           version' = version, log' \in Events, index' \in Nat,
           parts' \in SUBSET Events, manifest' \in Manifest, views' \in [1..Views -> Nat],
           Begins(log, log'), Chained(log)', ManifestOK',
           NEW v \in Writer, v # w, NEW o \in Job, o = job[v],
           w = "rebuild" => CommandPhase(o.at, o.todo, o.chain)' /\ outcome' = outcome,
           w = "command" => RebuildPhase(o.at, o.todo, o.chain)',
           manifest' = manifest \/ (job[w].at = "checkpoint" /\ manifest'.clean = job[w].clean),
           tmp' \in SUBSET Temporary,
           \A t \in tmp' : t.by # w,
           \A t \in tmp' : t.by \in Writer => t \in tmp,
           v = "command" => \A t \in tmp' : t.dir = "events" => \E s \in tmp : s.dir = "events" /\ (s.by = "command" => t.by = "command"),
           v = "rebuild" => \A t \in tmp' : t.dir = "events" => \E s \in tmp : s.dir = "events",
           outcome' \in Outcome, acked' \in SUBSET Event, faults' \in Nat, rebuilds' \in Nat, DerivedOK'
    PROVE  StoreInv'
<1>1. /\ job' \in [Writer -> Job] /\ job'[w] = NoJob /\ job'[v] = o
      /\ NoJob.at = "idle" /\ NoJob.todo = <<>> /\ NoJob.open = FALSE
  BY NoJobType, PutIs DEF StoreInv, TypeOK
<1>2. \A u \in Writer : u \in {v, w} BY DEF Writer
<1>3. TypeOK' BY <1>1 DEF StoreInv, TypeOK
<1>4. CommandOK' /\ RebuildOK'
  <2>1. CASE w = "command"
    <3>1. v = "rebuild" BY <2>1 DEF Writer
    <3>2. CommandPhase(NoJob.at, NoJob.todo, NoJob.chain)' BY <1>1 DEF CommandPhase, Phase
    <3>3. QED BY <2>1, <3>1, <3>2, <1>1 DEF CommandOK, RebuildOK
  <2>2. CASE w = "rebuild"
    <3>1. v = "command" BY <2>2 DEF Writer
    <3>2. RebuildPhase(NoJob.at, NoJob.todo, NoJob.chain)' BY <1>1 DEF RebuildPhase
    <3>3. o.at # "idle" => outcome = "none" BY <3>1 DEF StoreInv, CommandOK
    <3>4. QED BY <2>2, <3>1, <3>2, <3>3, <1>1 DEF CommandOK, RebuildOK
  <2>3. QED BY <2>1, <2>2 DEF Writer
<1>5. TemporariesOK'
  <2>1. \A u \in Writer : job'[u].open => job'[u].todo # <<>>
    BY <1>1, <1>2 DEF StoreInv, TemporariesOK
  <2>2. \A t \in tmp' : t.by \in Writer =>
            job'[t.by].open /\ t.dir = DirectoryOf(Head(job'[t.by].todo))
    BY <1>1, <1>2 DEF StoreInv, TemporariesOK
  <2>3. ASSUME job'["command"].at \in {"segments", "checkpoint", "views"}, NEW t \in tmp', t.dir = "events"
        PROVE  t.by = "command"
    <3>1. v = "command" BY <2>3, <1>1 DEF Writer
    <3>2. PICK s \in tmp : s.dir = "events" /\ (s.by = "command" => t.by = "command") BY <2>3, <3>1
    <3>3. QED BY <2>3, <3>1, <3>2, <1>1 DEF StoreInv, TemporariesOK
  <2>4. QED BY <2>1, <2>2, <2>3 DEF TemporariesOK, DirectoryOf
<1>6. CleanOK'
  <2>1. SUFFICES ASSUME 1 \notin Overlapped
        PROVE  /\ version = 1 => \E u \in Writer : job'[u].at = "idle"
               /\ version = 1 /\ job'["rebuild"].at = "digest" => \A t \in tmp' : t.dir # "events"
               /\ \A u \in Writer : job'[u].at = "checkpoint" => job'[u].clean
               /\ manifest' # NoManifest => manifest'.clean
    BY DEF CleanOK
  <2>2. version = 1 => \E u \in Writer : job'[u].at = "idle" BY <1>1
  <2>3. version = 1 /\ job'["rebuild"].at = "digest" => \A t \in tmp' : t.dir # "events"
    BY <1>1, <2>1 DEF StoreInv, CleanOK, Writer
  <2>4. \A u \in Writer : job'[u].at = "checkpoint" => job'[u].clean
    BY <1>1, <1>2, <2>1 DEF StoreInv, CleanOK
  <2>5. manifest' # NoManifest => manifest'.clean BY <2>1 DEF StoreInv, CleanOK
  <2>6. QED BY <2>2, <2>3, <2>4, <2>5
<1>7. QED BY <1>3, <1>4, <1>5, <1>6 DEF StoreInv

LEMMA FailKeeps ==
    ASSUME StoreInv, NEW w \in Writer, Fail(w)
    PROVE  StoreInv'
<1>1. PICK j \in Job : j = job[w] BY DEF StoreInv, TypeOK
<1>2. PICK v \in Writer : v # w BY DEF Writer
<1>3. PICK o \in Job : o = job[v] BY DEF StoreInv, TypeOK
<1>4. /\ j.todo # <<>> /\ Put(w, NoJob) /\ tmp' = {t \in tmp : t.by # w}
      /\ UNCHANGED disk \/ Replaced(w, Head(j.todo))
      /\ faults' = faults + 1 /\ rebuilds' = rebuilds
      /\ outcome' = CASE w = "rebuild" -> outcome
                      [] j.at = "views" -> "unwritten"
                      [] OTHER -> "failed"
      /\ acked' = IF j.at = "views" THEN acked \cup NewEvents(w) ELSE acked
  BY <1>1 DEF Fail, Fault
<1>5. /\ version' = version /\ log' \in Events /\ index' \in Nat
      /\ parts' \in SUBSET Events /\ manifest' \in Manifest /\ views' \in [1..Views -> Nat]
      /\ Begins(log, log') /\ Chained(log)' /\ ManifestOK'
      /\ w = "rebuild" => UNCHANGED <<log, index, views>> /\ CommandPhase(o.at, o.todo, o.chain)'
      /\ w = "command" => /\ j.at # "segments" => UNCHANGED <<log, index>>
                          /\ RebuildPhase(o.at, o.todo, o.chain)'
      /\ manifest' = manifest \/ (j.at = "checkpoint" /\ manifest'.clean = j.clean)
  <2>1. CASE Replaced(w, Head(j.todo)) BY <2>1, <1>1, <1>2, <1>3, <1>4, WriteStep
  <2>2. CASE UNCHANGED disk
    <3>1. PICK cj \in Job, rj \in Job : cj = job["command"] /\ rj = job["rebuild"] BY TheJobs
    <3>2. /\ Chained(log)' /\ ManifestOK' /\ Begins(log, log')
          /\ CommandPhase(cj.at, cj.todo, cj.chain)'
          /\ RebuildPhase(rj.at, rj.todo, rj.chain)'
      BY <2>2, <3>1, DiskKept
    <3>3. w = "rebuild" => o = cj BY <1>2, <1>3, <3>1 DEF Writer
    <3>4. w = "command" => o = rj BY <1>2, <1>3, <3>1 DEF Writer
    <3>5. UNCHANGED <<version, log, index, parts, manifest, views>> BY <2>2 DEF disk
    <3>6. QED BY <3>2, <3>3, <3>4, <3>5 DEF StoreInv, TypeOK
  <2>3. QED BY <1>4, <2>1, <2>2
<1>6. NewEvents(w) \in SUBSET Event BY NewEventsType
<1>7. outcome' \in Outcome /\ acked' \in SUBSET Event /\ faults' \in Nat /\ rebuilds' \in Nat
  BY <1>4, <1>6 DEF StoreInv, TypeOK, Outcome
<1>8. w = "rebuild" => outcome' = outcome
  <2>1. w = "rebuild" => j.at # "views" BY <1>1 DEF StoreInv, RebuildOK, RebuildPhase
  <2>2. QED BY <2>1, <1>4
<1>9. DerivedOK'
  <2>1. CASE w = "rebuild" BY <2>1, <1>5, <1>8 DEF StoreInv, DerivedOK
  <2>2. CASE w = "command" /\ j.at = "views"
    <3>1. version = 2 => index = Len(log) BY <2>2, <1>1 DEF StoreInv, CommandOK, CommandPhase
    <3>2. QED BY <2>2, <3>1, <1>4, <1>5 DEF DerivedOK
  <2>3. CASE w = "command" /\ j.at # "views" BY <2>3, <1>4 DEF DerivedOK
  <2>4. QED BY <2>1, <2>2, <2>3 DEF Writer
<1>10. /\ tmp' \in SUBSET Temporary /\ \A t \in tmp' : t \in tmp /\ t.by # w
  BY <1>4 DEF StoreInv, TypeOK
<1>11. QED BY <1>1, <1>2, <1>3, <1>4, <1>5, <1>7, <1>8, <1>9, <1>10, EndKeeps

LEMMA CrashKeeps ==
    ASSUME StoreInv, NEW w \in Writer, Crash(w)
    PROVE  StoreInv'
<1>1. PICK j \in Job : j = job[w] BY DEF StoreInv, TypeOK
<1>2. PICK v \in Writer : v # w BY DEF Writer
<1>3. PICK o \in Job : o = job[v] BY DEF StoreInv, TypeOK
<1> DEFINE left(t) == IF t.by = w THEN [t EXCEPT !.by = "orphan"] ELSE t
<1>4. /\ Put(w, NoJob) /\ tmp' = {left(t) : t \in tmp}
      /\ UNCHANGED disk /\ acked' = acked
      /\ faults' = faults + 1 /\ rebuilds' = rebuilds
      /\ outcome' = IF w = "command" THEN "crashed" ELSE outcome
  BY DEF Crash, Fault
<1>5. PICK cj \in Job, rj \in Job : cj = job["command"] /\ rj = job["rebuild"] BY TheJobs
<1>6. /\ Chained(log)' /\ ManifestOK' /\ Begins(log, log')
      /\ CommandPhase(cj.at, cj.todo, cj.chain)'
      /\ RebuildPhase(rj.at, rj.todo, rj.chain)'
  BY <1>4, <1>5, DiskKept
<1>7. (w = "rebuild" => o = cj) /\ (w = "command" => o = rj) BY <1>2, <1>3, <1>5 DEF Writer
<1>8. UNCHANGED <<version, log, index, parts, manifest, views>> BY <1>4 DEF disk
<1>9. outcome' \in Outcome /\ acked' \in SUBSET Event /\ faults' \in Nat /\ rebuilds' \in Nat
  BY <1>4 DEF StoreInv, TypeOK, Outcome
<1>10. DerivedOK' BY <1>4, <1>8 DEF StoreInv, DerivedOK
<1>11. ASSUME NEW t \in tmp
       PROVE  /\ left(t) \in Temporary /\ left(t).by # w /\ left(t).dir = t.dir
              /\ left(t).by \in Writer => left(t) = t
              /\ t.by # w => left(t) = t
  <2>1. t \in Temporary BY DEF StoreInv, TypeOK
  <2>2. QED BY <2>1 DEF Temporary, Writer
<1> HIDE DEF left
<1>12. /\ tmp' \in SUBSET Temporary
       /\ \A t \in tmp' : t.by # w
       /\ \A t \in tmp' : t.by \in Writer => t \in tmp
  BY <1>4, <1>11
<1>13. \A t \in tmp' : \E s \in tmp : t = left(s) BY <1>4
<1>14. v = "command" => \A t \in tmp' : t.dir = "events" =>
           \E s \in tmp : s.dir = "events" /\ (s.by = "command" => t.by = "command")
  BY <1>2, <1>11, <1>13
<1>15. v = "rebuild" => \A t \in tmp' : t.dir = "events" => \E s \in tmp : s.dir = "events"
  BY <1>11, <1>13
<1>16. w = "rebuild" => outcome' = outcome BY <1>4
<1>17. QED
  BY <1>2, <1>3, <1>4, <1>6, <1>7, <1>8, <1>9, <1>10, <1>12, <1>14, <1>15, <1>16, EndKeeps
  DEF StoreInv, TypeOK

-----------------------------------------------------------------------------
(* In version 1, where a rebuild may not run beside a command, a job that   *)
(* runs or is admitted is alone.                                           *)
LEMMA AloneInVersion1 ==
    ASSUME StoreInv, NEW w \in Writer, Admitted(w) \/ job[w].at # "idle"
    PROVE  1 \notin Overlapped /\ version = 1 => \E v \in Writer : v # w /\ job[v].at = "idle"
<1>1. PICK v \in Writer : v # w BY DEF Writer
<1>2. CASE Admitted(w) BY <1>1, <1>2 DEF Admitted, Busy
<1>3. CASE job[w].at # "idle" BY <1>1, <1>3 DEF StoreInv, CleanOK
<1>4. QED BY <1>2, <1>3

LEMMA IdleWritesNothing ==
    ASSUME StoreInv, NEW w \in Writer, Admitted(w)
    PROVE  job[w].todo = <<>>
BY DEF StoreInv, CommandOK, CommandPhase, RebuildOK, RebuildPhase, Admitted, Busy, Writer

(* The variables of a step between writes. *)
LEMMA BetweenWrites ==
    ASSUME StoreInv
    PROVE  /\ acked \in SUBSET Event /\ faults \in Nat /\ rebuilds \in Nat /\ outcome \in Outcome
           /\ tmp \subseteq tmp /\ "none" \in Outcome /\ "failed" \in Outcome
           /\ UNCHANGED disk /\ outcome' \in {"none", "failed"} => DerivedOK'
           /\ UNCHANGED disk /\ outcome' = outcome => DerivedOK'
BY DEF StoreInv, TypeOK, Outcome, DerivedOK, disk

(* The writes of the views of the log. *)
LEMMA ViewWritesAre ==
    ASSUME log \in Events
    PROVE  ViewWrites(log) \in Writes /\ Showing(log, ViewWrites(log))
<1>1. Views \in Nat BY StoreAssumption
<1>2. \A i \in 1..Views : FileWrite("view", i, log, <<>>) \in Write
  BY NoEvents, WriteType DEF Kind
<1>3. ViewWrites(log) \in [1..Views -> Write] BY <1>2 DEF ViewWrites
<1>4. ViewWrites(log) \in Seq(Write) /\ Len(ViewWrites(log)) = Views BY ONLY <1>1, <1>3
<1>5. ASSUME NEW i \in 1..Views PROVE ViewWrites(log)[i] = FileWrite("view", Views - Views + i, log, <<>>)
  <2>1. Views - Views + i = i BY <1>1
  <2>2. QED BY <2>1 DEF ViewWrites
<1>6. QED BY <1>1, <1>4, <1>5 DEF Showing, Writes

(* The writes of a checkpoint of a chain. *)
LEMMA CheckpointWritesAre ==
    ASSUME log \in Events, NEW c \in Events, Begins(c, log)
    PROVE  CheckpointWrites(c, log) \in Writes /\ Checkpointing(c, CheckpointWrites(c, log))
<1> DEFINE todo == CheckpointWrites(c, log)
<1>1. FileWrite("part", Len(c), c, <<>>) \in Write BY LenIs, NoEvents, WriteType DEF Kind
<1>2. FileWrite("manifest", Len(c), c, log) \in Write BY LenIs, WriteType DEF Kind
<1>3. /\ todo \in Writes /\ Len(todo) = 2
      /\ todo[1] = FileWrite("part", Len(c), c, <<>>)
      /\ todo[2] = FileWrite("manifest", Len(c), c, log)
      /\ todo[2].segments = log
  BY <1>1, <1>2 DEF CheckpointWrites, Writes, FileWrite
<1> HIDE DEF todo
<1>4. Begins(log, log) BY LenIs DEF Begins
<1>5. Checkpointing(c, todo) BY <1>3, <1>4 DEF Checkpointing
<1>6. QED BY <1>3, <1>5 DEF todo

(* A digest names segments only, unless a temporary file is in events/.     *)
LEMMA DigestIsClean ==
    ASSUME Settings = {FALSE}, version \in {1, 2}, NEW c \in Events,
           version = 1 => \A t \in tmp : t.dir # "events"
    PROVE  (ListsEverything(c) => OnlySegmentsListed) = TRUE
<1>1. CASE version = 1 BY <1>1 DEF OnlySegmentsListed
<1>2. CASE version = 2
  <2>1. c # <<>> => Len(c) \in 1..Len(c) BY EmptySeq DEF Events
  <2>2. ~Plain(c) BY <2>1, FileType DEF Plain, Event
  <2>3. QED BY <1>2, <2>2 DEF ListsEverything
<1>3. QED BY <1>1, <1>2

LEMMA BeginAppendKeeps ==
    ASSUME Settings = {FALSE}, StoreInv, BeginAppend
    PROVE  StoreInv'
<1>1. /\ Admitted("command") /\ Replays /\ UNCHANGED disk /\ UNCHANGED <<tmp, acked, faults, rebuilds>>
      /\ outcome' = "none" /\ "command" \in Writer
  BY DEF BeginAppend, bounds, Writer
<1>2. PICK batch \in Batch :
          /\ Len(Extended(log, batch)) <= MaxEvents
          /\ Put("command", [NoJob EXCEPT !.at = "segments", !.chain = Extended(log, batch), !.base = Len(log),
                                          !.todo = SegmentWrites(Extended(log, batch), Len(log))])
  BY DEF BeginAppend
<1> DEFINE c == Extended(log, batch)
           todo == SegmentWrites(c, Len(log))
           first == c[Len(log) + 1].file
<1>3. /\ version \in {1, 2} /\ log \in Events /\ Chained(log) /\ Len(log) \in Nat
  BY LenIs DEF StoreInv, TypeOK
<1>4. /\ c \in Events /\ Begins(log, c) /\ Len(c) > Len(log) /\ Chained(c) /\ Len(c) <= MaxEvents
  BY <1>2, <1>3, ExtendedIs
<1> HIDE DEF c
<1>5. /\ first \in 1 .. LastFile(c)
      /\ todo \in Writes /\ todo # <<>>
      /\ SegmentsLeft(todo) = LastFile(c) - first + 1
      /\ \A i \in 1..Len(todo) : todo[i] = SegmentWrite(c, Len(todo) - i)
  BY <1>3, <1>4, SegmentWritesAre
<1>6. Len(c) \in Nat /\ Len(log) + 1 \in 1..Len(c) BY <1>3, <1>4, LenIs
<1> HIDE DEF todo, first
<1>7. LastFile(c) \in Nat
  <2>1. Len(c) \in 1..Len(c) /\ c # <<>> BY <1>6, NoEvents
  <2>2. QED BY <2>1, <1>4, FileType DEF LastFile
<1>8. NextFile(c, todo) = first BY <1>5, <1>7 DEF NextFile
<1>9. ASSUME NEW i \in 1..Len(c)
      PROVE  (c[i].file < first => i <= Len(log)) /\ (c[i].file > first => i > Len(log))
  <2>1. c[i].file \in Nat /\ first \in Nat BY <1>4, <1>6, FileType DEF first
  <2>2. CASE i <= Len(log)
    <3>1. i \in 1 .. Len(log) + 1 BY <2>2, <1>3
    <3>2. c[i].file <= first BY <3>1, <1>4, <1>6, SteadyAscends DEF Chained, first
    <3>3. QED BY <2>1, <2>2, <3>2
  <2>3. CASE i > Len(log)
    <3>1. Len(log) + 1 \in 1 .. i BY <2>3, <1>3
    <3>2. first <= c[i].file BY <3>1, <1>4, SteadyAscends DEF Chained, first
    <3>3. QED BY <2>1, <2>3, <3>2
  <2>4. QED BY <2>2, <2>3, <1>3
<1>10. Appending(c, todo)
  <2>1. Len(c) \in 1..MaxEvents BY <1>3, <1>4, <1>6, StoreAssumption
  <2>2. Reaches(c, first) BY <1>4, <1>9 DEF Reaches
  <2>3. QED BY <2>1, <2>2, <1>4, <1>5, <1>7, <1>8 DEF Appending
<1> DEFINE r == [NoJob EXCEPT !.at = "segments", !.chain = c, !.base = Len(log), !.todo = todo]
<1>11. /\ r \in Job /\ r.at = "segments" /\ r.chain = c /\ r.todo = todo /\ r.open = FALSE
  BY <1>3, <1>4, <1>5, NoJobType DEF Job, Phase
<1>12. Put("command", r) BY <1>2 DEF c, todo
<1> HIDE DEF r
<1>13. CommandPhase(r.at, r.todo, r.chain) BY <1>10, <1>11 DEF CommandPhase, Phase
<1>14. \A t \in tmp : t.dir # "events" BY <1>1 DEF Replays, SegmentsReadable
<1>15. 1 \notin Overlapped /\ version = 1 => \E v \in Writer : v # "command" /\ job[v].at = "idle"
  BY <1>1, AloneInVersion1
<1>16. QED
  BY <1>1, <1>11, <1>12, <1>13, <1>14, <1>15, IdleWritesNothing, BetweenWrites, Handover

LEMMA ReadbackKeeps ==
    ASSUME Settings = {FALSE}, StoreInv, Readback
    PROVE  StoreInv'
<1>1. PICK j \in Job : j = job["command"] BY TheJobs
<1>2. /\ j.at = "segments" /\ j.todo = <<>> /\ UNCHANGED disk /\ UNCHANGED <<tmp, acked, faults, rebuilds>>
      /\ "command" \in Writer
  BY <1>1 DEF Readback, bounds, Writer
<1>3. /\ version \in {1, 2} /\ log \in Events /\ Chained(log) /\ Len(log) \in Nat
      /\ j.chain \in Events /\ j.todo \in Writes /\ Begins(log, log)
  BY LenIs DEF StoreInv, TypeOK, Job, Begins
<1>4. Appending(j.chain, j.todo) BY <1>1, <1>2 DEF StoreInv, CommandOK, CommandPhase
<1>5. log = j.chain BY <1>2, <1>3, <1>4, AppendedIsChain
<1>6. version = 2 => index = Len(log) BY <1>2, <1>4 DEF Appending
<1>7. \A t \in tmp : t.dir # "events"
  <2>1. \A t \in tmp : t.by # "command" BY <1>1, <1>2, NothingOpen
  <2>2. QED BY <2>1, <1>1, <1>2 DEF StoreInv, TemporariesOK
<1>8. outcome = "none" BY <1>1, <1>2 DEF StoreInv, CommandOK
<1>9. 1 \notin Overlapped /\ version = 1 => \E v \in Writer : v # "command" /\ job[v].at = "idle"
  BY <1>1, <1>2, AloneInVersion1
<1>10. CASE Put("command", NoJob) /\ outcome' = "failed"
  <2>1. CommandPhase(NoJob.at, NoJob.todo, NoJob.chain) BY NoJobType DEF CommandPhase, Phase
  <2>2. QED BY <1>1, <1>2, <1>10, <2>1, NoJobType, BetweenWrites, Handover
<1>11. CASE /\ Put("command", [j EXCEPT !.at = "checkpoint", !.todo = CheckpointWrites(j.chain, log),
                                        !.clean = ListsEverything(j.chain) => OnlySegmentsListed])
            /\ UNCHANGED outcome
  <2> DEFINE clean == ListsEverything(j.chain) => OnlySegmentsListed
             todo == CheckpointWrites(j.chain, log)
             r == [j EXCEPT !.at = "checkpoint", !.todo = todo, !.clean = clean]
  <2>1. clean = TRUE BY <1>3, <1>7, DigestIsClean
  <2>2. todo \in Writes /\ Checkpointing(j.chain, todo) BY <1>3, <1>5, CheckpointWritesAre
  <2> HIDE DEF todo, clean
  <2>3. r \in Job /\ r.at = "checkpoint" /\ r.todo = todo /\ r.chain = j.chain /\ r.clean = TRUE /\ r.open = j.open
    BY <2>1, <2>2 DEF Job, Phase
  <2>4. r.open = FALSE BY <1>1, <1>2, <2>3 DEF StoreInv, TemporariesOK, Job
  <2>5. Put("command", r) BY <1>11 DEF todo, clean
  <2> HIDE DEF r
  <2>6. CommandPhase(r.at, r.todo, r.chain) BY <1>5, <1>6, <2>2, <2>3 DEF CommandPhase, Phase
  <2>7. QED
    BY <1>1, <1>2, <1>7, <1>8, <1>9, <1>11, <2>3, <2>4, <2>5, <2>6, BetweenWrites, Handover
<1>12. CASE /\ Put("command", [j EXCEPT !.at = "views", !.todo = ViewWrites(j.chain)])
            /\ UNCHANGED outcome
  <2> DEFINE todo == ViewWrites(j.chain)
             r == [j EXCEPT !.at = "views", !.todo = todo]
  <2>1. todo \in Writes /\ Showing(log, todo) BY <1>3, <1>5, ViewWritesAre
  <2> HIDE DEF todo
  <2>2. r \in Job /\ r.at = "views" /\ r.todo = todo /\ r.chain = j.chain /\ r.open = j.open
    BY <2>1 DEF Job, Phase
  <2>3. r.open = FALSE BY <1>1, <1>2, <2>2 DEF StoreInv, TemporariesOK, Job
  <2>4. Put("command", r) BY <1>12 DEF todo
  <2> HIDE DEF r
  <2>5. CommandPhase(r.at, r.todo, r.chain) BY <1>5, <1>6, <2>1, <2>2 DEF CommandPhase, Phase
  <2>6. QED
    BY <1>1, <1>2, <1>7, <1>8, <1>9, <1>12, <2>2, <2>3, <2>4, <2>5, BetweenWrites, Handover
<1>13. QED BY <1>1, <1>10, <1>11, <1>12 DEF Readback

LEMMA StartViewsKeeps ==
    ASSUME StoreInv, StartViews
    PROVE  StoreInv'
<1>1. PICK j \in Job : j = job["command"] BY TheJobs
<1> DEFINE r == [j EXCEPT !.at = "views", !.todo = ViewWrites(j.chain)]
<1>2. /\ j.at = "checkpoint" /\ j.todo = <<>> /\ UNCHANGED disk
      /\ UNCHANGED <<tmp, outcome, acked, faults, rebuilds>>
      /\ "command" \in Writer /\ Put("command", r)
  BY <1>1 DEF StartViews, bounds, Writer
<1>3. /\ j.chain = log /\ (version = 2 => index = Len(log)) /\ outcome = "none" /\ j.todo \in Writes
  BY <1>1, <1>2 DEF StoreInv, CommandOK, CommandPhase, Job
<1>4. ViewWrites(j.chain) \in Writes /\ Showing(log, ViewWrites(j.chain))
  BY <1>3, ViewWritesAre DEF StoreInv, TypeOK
<1>5. /\ r \in Job /\ r.at = "views" /\ r.todo = ViewWrites(j.chain) /\ r.chain = j.chain /\ r.open = j.open
  BY <1>4 DEF Job, Phase
<1> HIDE DEF r
<1>6. r.open = FALSE BY <1>1, <1>2, <1>5 DEF StoreInv, TemporariesOK, Job
<1>7. CommandPhase(r.at, r.todo, r.chain) BY <1>3, <1>4, <1>5 DEF CommandPhase, Phase
<1>8. \A t \in tmp : t.dir # "events"
  <2>1. \A t \in tmp : t.by # "command" BY <1>1, <1>2, NothingOpen
  <2>2. QED BY <2>1, <1>1, <1>2 DEF StoreInv, TemporariesOK
<1>9. 1 \notin Overlapped /\ version = 1 => \E v \in Writer : v # "command" /\ job[v].at = "idle"
  BY <1>1, <1>2, AloneInVersion1
<1>10. QED BY <1>1, <1>2, <1>3, <1>5, <1>6, <1>7, <1>8, <1>9, BetweenWrites, Handover

LEMMA ReturnKeeps ==
    ASSUME StoreInv, Return
    PROVE  StoreInv'
<1>1. PICK j \in Job : j = job["command"] BY TheJobs
<1>2. /\ j.at \in {"views", "rebuildViews"} /\ j.todo = <<>> /\ UNCHANGED disk
      /\ UNCHANGED <<tmp, faults, rebuilds>>
      /\ "command" \in Writer /\ Put("command", NoJob)
      /\ outcome' = IF j.at = "views" THEN "appended" ELSE "recovered"
      /\ acked' = acked \cup NewEvents("command")
  BY <1>1 DEF Return, bounds, Writer
<1>3. /\ Showing(j.chain, j.todo) /\ j.todo \in Writes
      /\ j.at = "views" /\ version = 2 => index = Len(log)
  BY <1>1, <1>2 DEF StoreInv, CommandOK, CommandPhase, Job
<1>4. \A i \in 1..Views : views[i] = Len(log)
  <2>1. Len(j.todo) = 0 /\ Views \in Nat BY <1>2, NoEvents, StoreAssumption
  <2>2. Views - Len(j.todo) = Views BY <2>1
  <2>3. QED BY <1>3, <2>2 DEF Showing
<1>5. UNCHANGED <<version, log, index, parts, manifest, views>> BY <1>2 DEF disk
<1>6. DerivedOK'
  <2>1. \A i \in 1..Views : views'[i] = Len(log') BY <1>4, <1>5
  <2>2. outcome' \in {"appended", "unwritten"} => j.at = "views" BY <1>2
  <2>3. QED BY <1>3, <1>5, <2>1, <2>2 DEF DerivedOK
<1>7. outcome' \in Outcome BY <1>2 DEF Outcome
<1>8. acked' \in SUBSET Event BY <1>2, NewEventsType, BetweenWrites
<1>9. CommandPhase(NoJob.at, NoJob.todo, NoJob.chain) BY NoJobType DEF CommandPhase, Phase
<1>10. QED BY <1>1, <1>2, <1>6, <1>7, <1>8, <1>9, NoJobType, BetweenWrites, Handover

LEMMA BeginRecoverKeeps ==
    ASSUME StoreInv, BeginRecover
    PROVE  StoreInv'
<1> DEFINE r == [NoJob EXCEPT !.at = "sweep", !.listed = tmp]
<1>1. /\ Admitted("command") /\ UNCHANGED disk /\ UNCHANGED <<tmp, acked, faults, rebuilds>>
      /\ outcome' = "none" /\ "command" \in Writer /\ Put("command", r)
  BY DEF BeginRecover, bounds, Writer
<1>2. r \in Job /\ r.at = "sweep" /\ r.todo = <<>> /\ r.open = FALSE
  BY NoJobType DEF Job, Phase, StoreInv, TypeOK
<1> HIDE DEF r
<1>3. CommandPhase(r.at, r.todo, r.chain) BY <1>2 DEF CommandPhase, Phase
<1>4. 1 \notin Overlapped /\ version = 1 => \E v \in Writer : v # "command" /\ job[v].at = "idle"
  BY <1>1, AloneInVersion1
<1>5. QED BY <1>1, <1>2, <1>3, <1>4, IdleWritesNothing, BetweenWrites, Handover

(* A command about to replay: no job of its own is left. *)
LEMMA ReplayJob ==
    LET r == [NoJob EXCEPT !.at = "replay"]
    IN  /\ r \in Job /\ r.at = "replay" /\ r.todo = <<>> /\ r.open = FALSE
        /\ CommandPhase(r.at, r.todo, r.chain)
        /\ CommandPhase(NoJob.at, NoJob.todo, NoJob.chain)
        /\ RebuildPhase(NoJob.at, NoJob.todo, NoJob.chain)
<1> DEFINE r == [NoJob EXCEPT !.at = "replay"]
<1>1. r \in Job /\ r.at = "replay" /\ r.todo = <<>> /\ r.open = FALSE BY NoJobType DEF Job, Phase
<1> HIDE DEF r
<1>2. CommandPhase(r.at, r.todo, r.chain) BY <1>1 DEF CommandPhase, Phase
<1>3. /\ CommandPhase(NoJob.at, NoJob.todo, NoJob.chain)
      /\ RebuildPhase(NoJob.at, NoJob.todo, NoJob.chain)
  BY NoJobType DEF CommandPhase, RebuildPhase, Phase
<1>4. QED BY <1>1, <1>2, <1>3 DEF r

LEMMA SweepKeeps ==
    ASSUME StoreInv, Sweep
    PROVE  StoreInv'
<1>1. PICK j \in Job : j = job["command"] BY TheJobs
<1> DEFINE r == [NoJob EXCEPT !.at = "replay"]
<1>2. /\ j.at = "sweep" /\ UNCHANGED disk /\ UNCHANGED <<acked, faults, rebuilds>>
      /\ tmp' = tmp \ j.listed /\ "command" \in Writer
      /\ \/ Put("command", r) /\ outcome' = outcome
         \/ Put("command", NoJob) /\ outcome' = "failed"
  BY <1>1 DEF Sweep, bounds, Writer
<1>3. j.todo = <<>> /\ outcome = "none"
  BY <1>1, <1>2 DEF StoreInv, CommandOK, CommandPhase
<1>4. 1 \notin Overlapped /\ version = 1 => \E v \in Writer : v # "command" /\ job[v].at = "idle"
  BY <1>1, <1>2, AloneInVersion1
<1>5. r \in Job /\ r.at = "replay" /\ r.todo = <<>> /\ r.open = FALSE /\ CommandPhase(r.at, r.todo, r.chain)
  BY ReplayJob
<1> HIDE DEF r
<1>6. tmp' \subseteq tmp BY <1>2
<1>7. CASE Put("command", r) /\ outcome' = outcome
  BY <1>1, <1>2, <1>3, <1>4, <1>5, <1>6, <1>7, BetweenWrites, Handover
<1>8. CASE Put("command", NoJob) /\ outcome' = "failed"
  BY <1>1, <1>2, <1>3, <1>4, <1>6, <1>8, ReplayJob, NoJobType, BetweenWrites, Handover
<1>9. QED BY <1>2, <1>7, <1>8

LEMMA BeginViewsKeeps ==
    ASSUME StoreInv, BeginViews
    PROVE  StoreInv'
<1> DEFINE r == [NoJob EXCEPT !.at = "replay"]
<1>1. /\ Admitted("command") /\ UNCHANGED disk /\ UNCHANGED <<tmp, acked, faults, rebuilds>>
      /\ outcome' = "none" /\ "command" \in Writer /\ Put("command", r)
  BY DEF BeginViews, bounds, Writer
<1>2. r \in Job /\ r.at = "replay" /\ r.todo = <<>> /\ r.open = FALSE /\ CommandPhase(r.at, r.todo, r.chain)
  BY ReplayJob
<1> HIDE DEF r
<1>3. 1 \notin Overlapped /\ version = 1 => \E v \in Writer : v # "command" /\ job[v].at = "idle"
  BY <1>1, AloneInVersion1
<1>4. QED BY <1>1, <1>2, <1>3, IdleWritesNothing, BetweenWrites, Handover

LEMMA ReplayForViewsKeeps ==
    ASSUME StoreInv, ReplayForViews
    PROVE  StoreInv'
<1>1. PICK j \in Job : j = job["command"] BY TheJobs
<1> DEFINE r == [NoJob EXCEPT !.at = "rebuildViews", !.chain = log, !.base = Len(log),
                              !.todo = ViewWrites(log)]
<1>2. /\ j.at = "replay" /\ UNCHANGED disk /\ UNCHANGED <<tmp, acked, faults, rebuilds>>
      /\ "command" \in Writer
      /\ \/ Put("command", r) /\ outcome' = outcome
         \/ Put("command", NoJob) /\ outcome' = "failed"
  BY <1>1 DEF ReplayForViews, bounds, Writer
<1>3. j.todo = <<>> /\ outcome = "none"
  BY <1>1, <1>2 DEF StoreInv, CommandOK, CommandPhase
<1>4. 1 \notin Overlapped /\ version = 1 => \E v \in Writer : v # "command" /\ job[v].at = "idle"
  BY <1>1, <1>2, AloneInVersion1
<1>5. log \in Events /\ Len(log) \in Nat /\ ViewWrites(log) \in Writes /\ Showing(log, ViewWrites(log))
  BY LenIs, ViewWritesAre DEF StoreInv, TypeOK
<1>6. /\ r \in Job /\ r.at = "rebuildViews" /\ r.todo = ViewWrites(log) /\ r.chain = log /\ r.open = FALSE
  BY <1>5, NoJobType DEF Job, Phase
<1> HIDE DEF r
<1>7. CommandPhase(r.at, r.todo, r.chain) BY <1>5, <1>6 DEF CommandPhase, Phase
<1>8. CASE Put("command", r) /\ outcome' = outcome
  BY <1>1, <1>2, <1>3, <1>4, <1>6, <1>7, <1>8, BetweenWrites, Handover
<1>9. CASE Put("command", NoJob) /\ outcome' = "failed"
  BY <1>1, <1>2, <1>3, <1>4, <1>9, ReplayJob, NoJobType, BetweenWrites, Handover
<1>10. QED BY <1>2, <1>8, <1>9

LEMMA BeginRebuildKeeps ==
    ASSUME StoreInv, BeginRebuild
    PROVE  StoreInv'
<1> DEFINE r == [NoJob EXCEPT !.at = "replay", !.seed = manifest]
<1>1. /\ Admitted("rebuild") /\ UNCHANGED disk /\ UNCHANGED <<tmp, outcome, acked, faults>>
      /\ "rebuild" \in Writer /\ Put("rebuild", r)
  BY DEF BeginRebuild, Writer
<1>2. rebuilds' \in Nat BY DEF BeginRebuild, StoreInv, TypeOK
<1>3. r \in Job /\ r.at = "replay" /\ r.todo = <<>> /\ r.open = FALSE
  BY NoJobType DEF Job, Phase, StoreInv, TypeOK
<1> HIDE DEF r
<1>4. RebuildPhase(r.at, r.todo, r.chain) BY <1>3 DEF RebuildPhase
<1>5. 1 \notin Overlapped /\ version = 1 => \E v \in Writer : v # "rebuild" /\ job[v].at = "idle"
  BY <1>1, AloneInVersion1
<1>6. QED BY <1>1, <1>2, <1>3, <1>4, <1>5, IdleWritesNothing, BetweenWrites, Handover

LEMMA RebuildReplayKeeps ==
    ASSUME StoreInv, RebuildReplay
    PROVE  StoreInv'
<1>1. PICK j \in Job : j = job["rebuild"] BY TheJobs
<1> DEFINE r == [NoJob EXCEPT !.at = "digest", !.chain = log]
<1>2. /\ j.at = "replay" /\ UNCHANGED disk /\ UNCHANGED <<tmp, outcome, acked, faults, rebuilds>>
      /\ "rebuild" \in Writer
      /\ (Put("rebuild", r) /\ SegmentsReadable) \/ Put("rebuild", NoJob)
  BY <1>1 DEF RebuildReplay, bounds, Writer
<1>3. j.todo = <<>> BY <1>1, <1>2 DEF StoreInv, RebuildOK, RebuildPhase
<1>4. 1 \notin Overlapped /\ version = 1 => \E v \in Writer : v # "rebuild" /\ job[v].at = "idle"
  BY <1>1, <1>2, AloneInVersion1
<1>5. log \in Events /\ Begins(log, log) BY LenIs DEF StoreInv, TypeOK, Begins
<1>6. /\ r \in Job /\ r.at = "digest" /\ r.todo = <<>> /\ r.chain = log /\ r.open = FALSE
  BY <1>5, NoJobType DEF Job, Phase
<1> HIDE DEF r
<1>7. RebuildPhase(r.at, r.todo, r.chain) BY <1>5, <1>6 DEF RebuildPhase
<1>8. CASE Put("rebuild", r) /\ SegmentsReadable
  <2>1. \A t \in tmp : t.dir # "events" BY <1>8 DEF SegmentsReadable
  <2>2. QED BY <1>1, <1>2, <1>3, <1>4, <1>6, <1>7, <1>8, <2>1, BetweenWrites, Handover
<1>9. CASE Put("rebuild", NoJob)
  BY <1>1, <1>2, <1>3, <1>4, <1>9, ReplayJob, NoJobType, BetweenWrites, Handover
<1>10. QED BY <1>2, <1>8, <1>9

LEMMA RebuildDigestKeeps ==
    ASSUME Settings = {FALSE}, StoreInv, RebuildDigest
    PROVE  StoreInv'
<1>1. PICK j \in Job : j = job["rebuild"] BY TheJobs
<1> DEFINE clean == ListsEverything(j.chain) => OnlySegmentsListed
           r == [j EXCEPT !.at = "checkpoint", !.todo = CheckpointWrites(j.chain, log), !.clean = clean]
<1>2. /\ j.at = "digest" /\ UNCHANGED disk /\ UNCHANGED <<tmp, outcome, acked, faults, rebuilds>>
      /\ "rebuild" \in Writer
      /\ Put("rebuild", r) \/ Put("rebuild", NoJob)
  BY <1>1 DEF RebuildDigest, bounds, Writer
<1>3. /\ j.todo = <<>> /\ Begins(j.chain, log) /\ j.chain \in Events /\ log \in Events /\ version \in {1, 2}
  BY <1>1, <1>2 DEF StoreInv, RebuildOK, RebuildPhase, Job, TypeOK
<1>4. 1 \notin Overlapped /\ version = 1 => \E v \in Writer : v # "rebuild" /\ job[v].at = "idle"
  BY <1>1, <1>2, AloneInVersion1
<1>5. 1 \notin Overlapped => clean = TRUE
  <2>1. 1 \notin Overlapped /\ version = 1 => \A t \in tmp : t.dir # "events"
    BY <1>1, <1>2 DEF StoreInv, CleanOK
  <2>2. QED BY <2>1, <1>3, DigestIsClean
<1>6. clean \in BOOLEAN OBVIOUS
<1> HIDE DEF clean
<1>7. /\ CheckpointWrites(j.chain, log) \in Writes
      /\ Checkpointing(j.chain, CheckpointWrites(j.chain, log))
  BY <1>3, CheckpointWritesAre
<1>8. /\ r \in Job /\ r.at = "checkpoint" /\ r.todo = CheckpointWrites(j.chain, log) /\ r.chain = j.chain
      /\ r.clean = clean /\ r.open = j.open
  BY <1>6, <1>7 DEF Job, Phase
<1>9. r.open = FALSE BY <1>1, <1>3, <1>8 DEF StoreInv, TemporariesOK, Job, Writer
<1> HIDE DEF r
<1>10. RebuildPhase(r.at, r.todo, r.chain) BY <1>7, <1>8 DEF RebuildPhase
<1>11. CASE Put("rebuild", r)
  BY <1>1, <1>2, <1>3, <1>4, <1>5, <1>8, <1>9, <1>10, <1>11, BetweenWrites, Handover
<1>12. CASE Put("rebuild", NoJob)
  BY <1>1, <1>2, <1>3, <1>4, <1>12, ReplayJob, NoJobType, BetweenWrites, Handover
<1>13. QED BY <1>2, <1>11, <1>12

LEMMA RebuildReturnKeeps ==
    ASSUME StoreInv, RebuildReturn
    PROVE  StoreInv'
<1>1. /\ job["rebuild"].todo = <<>> /\ UNCHANGED disk /\ UNCHANGED <<tmp, outcome, acked, faults, rebuilds>>
      /\ "rebuild" \in Writer /\ Put("rebuild", NoJob)
  BY DEF RebuildReturn, bounds, Writer
<1>2. QED BY <1>1, ReplayJob, NoJobType, BetweenWrites, Handover

-----------------------------------------------------------------------------
LEMMA InitInv ==
    ASSUME Init
    PROVE  StoreInv
<1>1. /\ NoJob \in Job /\ NoJob.at = "idle" /\ NoJob.todo = <<>> /\ NoJob.open = FALSE
      /\ NoManifest \in Manifest
  BY NoJobType
<1>2. /\ version \in {1, 2} /\ log = <<>> /\ log \in Events /\ Len(log) = 0 /\ index = 0 /\ tmp = {} /\ parts = {}
      /\ manifest = NoManifest /\ outcome = "none" /\ acked = {} /\ faults = 0 /\ rebuilds = 0
      /\ \A w \in Writer : job[w] = NoJob
      /\ job = [w \in Writer |-> NoJob]
      /\ views = [i \in 1..Views |-> 0]
  BY NoEvents DEF Init
<1>3. TypeOK BY <1>1, <1>2 DEF TypeOK, Outcome
<1>4. Chained(log) BY <1>2 DEF Chained, Steady
<1>5. CommandOK /\ RebuildOK
  <2>1. job["command"] = NoJob /\ job["rebuild"] = NoJob BY <1>2 DEF Writer
  <2>2. QED BY <2>1, ReplayJob, <1>1 DEF CommandOK, RebuildOK
<1>6. ManifestOK BY <1>2 DEF ManifestOK
<1>7. TemporariesOK BY <1>1, <1>2 DEF TemporariesOK, Writer
<1>8. CleanOK BY <1>1, <1>2 DEF CleanOK, Writer
<1>9. DerivedOK BY <1>2 DEF DerivedOK
<1>10. QED BY <1>3, <1>4, <1>5, <1>6, <1>7, <1>8, <1>9 DEF StoreInv

LEMMA StepKeeps ==
    ASSUME Settings = {FALSE}, StoreInv, [Next]_vars
    PROVE  StoreInv'
<1>1. CASE UNCHANGED vars
  <2>1. UNCHANGED <<version, log, index, tmp, parts, manifest, views, job, outcome, acked, faults, rebuilds>>
    BY <1>1 DEF vars
  <2>2. PICK cj \in Job, rj \in Job : cj = job["command"] /\ rj = job["rebuild"] BY TheJobs
  <2>3. /\ Chained(log)' /\ ManifestOK'
        /\ CommandPhase(cj.at, cj.todo, cj.chain)' /\ RebuildPhase(rj.at, rj.todo, rj.chain)'
    BY <2>1, <2>2, DiskKept DEF disk
  <2>4. CommandOK' /\ RebuildOK' BY <2>1, <2>2, <2>3 DEF StoreInv, CommandOK, RebuildOK
  <2>5. TypeOK' /\ TemporariesOK' /\ CleanOK' /\ DerivedOK'
    BY <2>1 DEF StoreInv, TypeOK, TemporariesOK, DirectoryOf, CleanOK, DerivedOK
  <2>6. QED BY <2>3, <2>4, <2>5 DEF StoreInv
<1>2. ASSUME NEW w \in Writer, Open(w) \/ Commit(w) \/ Fail(w) \/ Crash(w) PROVE StoreInv'
  BY <1>2, OpenKeeps, CommitKeeps, FailKeeps, CrashKeeps
<1>3. CASE BeginAppend \/ Readback \/ StartViews \/ Return
  BY <1>3, BeginAppendKeeps, ReadbackKeeps, StartViewsKeeps, ReturnKeeps
<1>4. CASE BeginRecover \/ Sweep \/ BeginViews \/ ReplayForViews
  BY <1>4, BeginRecoverKeeps, SweepKeeps, BeginViewsKeeps, ReplayForViewsKeeps
<1>5. CASE BeginRebuild \/ RebuildReplay \/ RebuildDigest \/ RebuildReturn
  BY <1>5, BeginRebuildKeeps, RebuildReplayKeeps, RebuildDigestKeeps, RebuildReturnKeeps
<1>6. QED BY <1>1, <1>2, <1>3, <1>4, <1>5 DEF Next

-----------------------------------------------------------------------------
(* Whatever is interrupted, and wherever a rebuild without the lease falls   *)
(* between the writes of a command: the chain is one of events that follow   *)
(* each other in files without gaps, what is left of each job fits what the  *)
(* files hold, the manifest names a part that begins the chain, and a        *)
(* temporary file is that of the write its process has under way.            *)
THEOREM StoreInvariant == ASSUME Settings = {FALSE} PROVE Spec => []StoreInv
<1>1. Init => StoreInv BY InitInv
<1>2. StoreInv /\ [Next]_vars => StoreInv' BY StepKeeps
<1>3. QED BY <1>1, <1>2, PTL DEF Spec

(* Every variable keeps its type, each job and each file it writes included. *)
THEOREM StoreTyping == ASSUME Settings = {FALSE} PROVE Spec => []TypeOK
<1>1. StoreInv => TypeOK BY DEF StoreInv
<1>2. QED BY <1>1, StoreInvariant, PTL

(* A reported success means current views and current sidecars. *)
THEOREM ReportsAreDerived == ASSUME Settings = {FALSE} PROVE Spec => []ReportedIsDerived
<1>1. StoreInv => ReportedIsDerived BY DEF StoreInv, DerivedOK, ReportedIsDerived
<1>2. QED BY <1>1, StoreInvariant, PTL

-----------------------------------------------------------------------------
(* A command that shows its chain has all of it in the log. *)
LEMMA NewEventsAreIn ==
    ASSUME StoreInv, NEW w \in Writer, NEW j \in Job, j = job[w], j.at \in {"views", "rebuildViews"}
    PROVE  w = "command" /\ \A e \in NewEvents(w) : \E i \in 1..Len(log) : log[i] = e
<1>1. w = "command"
  <2>1. w # "rebuild" BY DEF StoreInv, RebuildOK, RebuildPhase
  <2>2. QED BY <2>1 DEF Writer
<1>2. j.chain = log /\ j.base \in Nat
  BY <1>1 DEF StoreInv, CommandOK, CommandPhase, Showing, Job
<1>3. \A i \in j.base + 1 .. Len(log) : i \in 1..Len(log) BY <1>2
<1>4. QED BY <1>1, <1>2, <1>3 DEF NewEvents

LEMMA ExtensionIs ==
    ASSUME StoreInv, log' \in Events, Begins(log, log'), Chained(log)'
    PROVE  Chain!Extended
<1>1. log \in Events /\ Len(log) \in Nat /\ Len(log') \in Nat BY LenIs DEF StoreInv, TypeOK
<1>2. SubSeq(log', 1, Len(log)) = log BY <1>1, BeginsSub
<1>3. Len(log') >= Len(log) BY <1>1 DEF Begins
<1>4. \A i \in Len(log) + 1 .. Len(log') : i \in 1..Len(log') BY <1>1
<1>5. \A i \in Len(log) + 1 .. Len(log') : log'[i].seq = i BY <1>4 DEF Chained
<1>6. QED BY <1>2, <1>3, <1>5 DEF Chain!Extended

LEMMA WrittenExtends ==
    ASSUME StoreInv, NEW w \in Writer, NEW j \in Job, j = job[w], j.todo # <<>>, Replaced(w, Head(j.todo))
    PROVE  /\ log' \in Events /\ Begins(log, log') /\ Chained(log)'
           /\ w = "command" /\ j.at # "segments" => log' = log
<1>1. PICK v \in Writer : v # w BY DEF Writer
<1>2. PICK o \in Job : o = job[v] BY DEF StoreInv, TypeOK
<1>3. /\ log' \in Events /\ Begins(log, log') /\ Chained(log)'
      /\ w = "command" => (j.at # "segments" => UNCHANGED <<log, index>>)
  BY <1>1, <1>2, WriteStep
<1>4. QED BY <1>3

LEMMA StepExtends ==
    ASSUME StoreInv, [Next]_vars
    PROVE  [Chain!Next]_<<log, acked>>
<1>1. ASSUME NEW w \in Writer, Commit(w) PROVE Chain!Next
  <2>1. PICK j \in Job : j = job[w] BY DEF StoreInv, TypeOK
  <2>2. PICK t \in tmp : t.by = w BY <1>1 DEF Commit
  <2>3. j.todo # <<>> BY <2>1, <2>2 DEF StoreInv, TemporariesOK
  <2>4. Replaced(w, Head(j.todo)) /\ acked' = acked BY <1>1, <2>1 DEF Commit
  <2>5. log' \in Events /\ Begins(log, log') /\ Chained(log)'
    BY <2>1, <2>3, <2>4, WrittenExtends
  <2>6. QED BY <2>4, <2>5, ExtensionIs DEF Chain!Next, Chain!Reported
<1>2. ASSUME NEW w \in Writer, Fail(w) PROVE Chain!Next
  <2>1. PICK j \in Job : j = job[w] BY DEF StoreInv, TypeOK
  <2>2. /\ j.todo # <<>>
        /\ UNCHANGED disk \/ Replaced(w, Head(j.todo))
        /\ acked' = IF j.at = "views" THEN acked \cup NewEvents(w) ELSE acked
    BY <1>2, <2>1 DEF Fail
  <2>3. /\ log' \in Events /\ Begins(log, log') /\ Chained(log)'
        /\ w = "command" /\ j.at # "segments" => log' = log
    <3>1. CASE Replaced(w, Head(j.todo))
      <4>1. j.todo # <<>> BY <2>2
      <4>2. QED BY <3>1, <2>1, <4>1, WrittenExtends
    <3>2. CASE UNCHANGED disk
      <4>1. PICK cj \in Job, rj \in Job : cj = job["command"] /\ rj = job["rebuild"] BY TheJobs
      <4>2. Begins(log, log') /\ Chained(log)' BY <3>2, <4>1, DiskKept
      <4>3. log' = log BY <3>2 DEF disk
      <4>4. QED BY <4>2, <4>3 DEF StoreInv, TypeOK
    <3>3. QED BY <2>2, <3>1, <3>2
  <2>4. Chain!Reported
    <3>1. CASE j.at = "views"
      <4>1. w = "command" /\ \A e \in NewEvents(w) : \E i \in 1..Len(log) : log[i] = e
        BY <2>1, <3>1, NewEventsAreIn
      <4>2. QED BY <2>2, <2>3, <3>1, <4>1 DEF Chain!Reported
    <3>2. CASE j.at # "views" BY <2>2, <3>2 DEF Chain!Reported
    <3>3. QED BY <3>1, <3>2
  <2>5. QED BY <2>3, <2>4, ExtensionIs DEF Chain!Next
<1>3. ASSUME Return PROVE Chain!Next
  <2>1. PICK j \in Job : j = job["command"] BY TheJobs
  <2>2. /\ j.at \in {"views", "rebuildViews"} /\ UNCHANGED disk
        /\ acked' = acked \cup NewEvents("command") /\ "command" \in Writer
    BY <1>3, <2>1 DEF Return, Writer
  <2>3. \A e \in NewEvents("command") : \E i \in 1..Len(log) : log[i] = e
    BY <2>1, <2>2, NewEventsAreIn
  <2>4. PICK cj \in Job, rj \in Job : cj = job["command"] /\ rj = job["rebuild"] BY TheJobs
  <2>5. log' = log /\ Begins(log, log') /\ Chained(log)' BY <2>2, <2>4, DiskKept DEF disk
  <2>6. Chain!Reported BY <2>2, <2>3, <2>5 DEF Chain!Reported
  <2>7. log' \in Events BY <2>5 DEF StoreInv, TypeOK
  <2>8. QED BY <2>5, <2>6, <2>7, ExtensionIs DEF Chain!Next
<1>4. ASSUME NEW w \in Writer, Open(w) \/ Crash(w) PROVE UNCHANGED <<log, acked>>
  BY <1>4 DEF Open, Crash, disk
<1>5. CASE BeginAppend \/ Readback \/ StartViews
  BY <1>5 DEF BeginAppend, Readback, StartViews, disk
<1>6. CASE BeginRecover \/ Sweep \/ BeginViews \/ ReplayForViews
  BY <1>6 DEF BeginRecover, Sweep, BeginViews, ReplayForViews, disk
<1>7. CASE BeginRebuild \/ RebuildReplay \/ RebuildDigest \/ RebuildReturn
  BY <1>7 DEF BeginRebuild, RebuildReplay, RebuildDigest, RebuildReturn, disk
<1>8. CASE UNCHANGED vars BY <1>8 DEF vars
<1>9. QED BY <1>1, <1>2, <1>3, <1>4, <1>5, <1>6, <1>7, <1>8 DEF Next

(* Crashes, failed writes and a rebuild beside the command do not make the   *)
(* chain lose or rewrite an event, and a reported event is in it.            *)
THEOREM StoreImplementsEventChain == ASSUME Settings = {FALSE} PROVE Spec => ImplementsEventChain
<1>1. Init => Chain!Init BY DEF Init, Chain!Init
<1>2. StoreInv /\ [Next]_vars => [Chain!Next]_<<log, acked>> BY StepExtends
<1>3. QED BY <1>1, <1>2, StoreInvariant, PTL DEF Spec, ImplementsEventChain, Chain!Spec

(* Once reported, an event stays in the chain. *)
THEOREM ReportedStays == ASSUME Settings = {FALSE} PROVE Spec => []ReportedIsCommitted
<1>1. Init => ReportedIsCommitted BY DEF Init, ReportedIsCommitted
<1>2. ASSUME StoreInv, StoreInv', ReportedIsCommitted, [Chain!Next]_<<log, acked>> PROVE ReportedIsCommitted'
  <2>1. CASE UNCHANGED <<log, acked>> BY <1>2, <2>1 DEF ReportedIsCommitted
  <2>2. CASE Chain!Next
    <3>1. Len(log) \in Nat /\ Len(log') \in Nat BY <1>2, LenIs DEF StoreInv, TypeOK
    <3>2. SubSeq(log', 1, Len(log)) = log /\ Len(log') >= Len(log)
      BY <2>2 DEF Chain!Next, Chain!Extended
    <3>3. ASSUME NEW e \in acked' PROVE \E i \in 1..Len(log') : log'[i] = e
      <4>1. CASE e \in acked
        <5>1. PICK i \in 1..Len(log) : log[i] = e BY <1>2, <4>1 DEF ReportedIsCommitted
        <5>2. SubSeq(log', 1, Len(log))[i] = log'[i] BY <3>1
        <5>3. i \in 1..Len(log') BY <3>1, <3>2
        <5>4. QED BY <3>2, <5>1, <5>2, <5>3
      <4>2. CASE e \notin acked BY <2>2, <4>2 DEF Chain!Next, Chain!Reported
      <4>3. QED BY <4>1, <4>2
    <3>4. QED BY <3>3 DEF ReportedIsCommitted
  <2>3. QED BY <1>2, <2>1, <2>2
<1>3. StoreInv /\ ReportedIsCommitted /\ [Next]_vars => ReportedIsCommitted'
  BY <1>2, StepExtends, StepKeeps
<1>4. QED BY <1>1, <1>3, StoreInvariant, PTL DEF Spec

-----------------------------------------------------------------------------
(* A segment file a chain has events in: they are there, the last of them    *)
(* last.                                                                    *)
LEMMA FileHasLast ==
    ASSUME NEW c \in Events, Chained(c), NEW k \in Int, NEW i \in 1..Len(c), c[i].file = k
    PROVE  /\ InFile(c, k) # <<>>
           /\ i <= UpTo(c, k)
           /\ Last(InFile(c, k)).seq = UpTo(c, k)
<1> DEFINE a == UpTo(c, k - 1)
           b == UpTo(c, k)
<1>1. Steady(c) /\ k - 1 \in Int BY DEF Chained
<1>2. a \in 0..Len(c) /\ b \in 0..Len(c) /\ Len(c) \in Nat BY <1>1, Cut, LenIs
<1>3. i <= b
  <2>1. c[i].file <= k OBVIOUS
  <2>2. QED BY <2>1, <1>1, Cut
<1>4. ~(i <= a)
  <2>1. i <= a <=> c[i].file <= k - 1 BY <1>1, Cut
  <2>2. QED BY <2>1
<1>5. /\ InFile(c, k) \in Events
      /\ Len(InFile(c, k)) = b - a
      /\ \A h \in 1 .. b - a : InFile(c, k)[h] = c[a + h]
  BY <1>1, InFileIs
<1> HIDE DEF a, b
<1>6. b - a \in 1 .. b - a /\ a + (b - a) = b /\ b \in 1..Len(c) BY <1>2, <1>3, <1>4
<1>7. InFile(c, k) # <<>> BY <1>5, <1>6, NoEvents
<1>8. Last(InFile(c, k)) = c[b] BY <1>5, <1>6 DEF Last
<1>9. c[b].seq = b BY <1>6 DEF Chained
<1>10. QED BY <1>3, <1>7, <1>8, <1>9 DEF b

(* In version 1 the first k files have the first k times Limit events.      *)
LEMMA CutInVersion1 ==
    ASSUME version = 1, NEW c \in Events, Chained(c), NEW k \in Nat
    PROVE  UpTo(c, k) = IF Limit * k <= Len(c) THEN Limit * k ELSE Len(c)
<1>1. Limit \in Nat \ {0} /\ Len(c) \in Nat /\ Steady(c) BY StoreAssumption, LenIs DEF Chained
<1>2. PICK n \in Nat : n = Limit * k BY <1>1
<1>3. PICK u \in 0..Len(c) : u = UpTo(c, k) BY <1>1, Cut
<1>4. ASSUME NEW i \in 1..Len(c) PROVE i <= u <=> i <= n
  <2>1. PICK a \in Nat : a = i - 1 BY <1>1
  <2>2. c[i].file = a \div Limit + 1 BY <2>1 DEF Chained
  <2>3. a \div Limit + 1 <= k <=> a + 1 <= Limit * k BY <1>1, Quotient
  <2>4. c[i].file <= k <=> i <= n BY <2>1, <2>2, <2>3, <1>2
  <2>5. c[i].file <= k <=> i <= u
    <3>1. k \in Int OBVIOUS
    <3>2. \A h \in 1..Len(c) : c[h].file <= k <=> h <= UpTo(c, k) BY <1>1, <3>1, Cut
    <3>3. QED BY <1>3, <3>2
  <2>6. QED BY <2>4, <2>5
<1>5. CASE n <= Len(c)
  <2>1. n = 0 \/ n \in 1..Len(c) BY <1>1, <1>5
  <2>2. n <= u BY <2>1, <1>3, <1>4
  <2>3. u = 0 \/ u \in 1..Len(c) BY <1>3
  <2>4. u <= n BY <2>3, <1>2, <1>4
  <2>5. QED BY <2>2, <2>4, <1>2, <1>3, <1>5
<1>6. CASE ~(n <= Len(c))
  <2>1. Len(c) = 0 \/ Len(c) \in 1..Len(c) BY <1>1
  <2>2. Len(c) <= u BY <2>1, <1>1, <1>2, <1>3, <1>4, <1>6
  <2>3. QED BY <2>2, <1>1, <1>2, <1>3, <1>6
<1>7. QED BY <1>5, <1>6

(* No file of a chain is missing, and in version 1 all but the last are full.*)
LEMMA ChainIsReadable ==
    ASSUME StoreInv, \A t \in tmp : t.dir # "events"
    PROVE  SegmentsReadable
<1>1. log \in Events /\ Chained(log) /\ Steady(log) /\ Len(log) \in Nat
  BY LenIs DEF StoreInv, TypeOK, Chained
<1>2. \A i \in 1..Len(log) : log[i].seq = i BY <1>1 DEF Chained
<1>3. ASSUME NEW k \in 1 .. LastFile(log)
      PROVE  \E i \in 1..Len(log) : log[i].file = k /\ k \in Nat /\ LastFile(log) = log[Len(log)].file
  <2>1. log # <<>> BY <1>3 DEF LastFile
  <2>2. Len(log) \in 1..Len(log) /\ LastFile(log) = log[Len(log)].file
    BY <1>1, <2>1, EmptySeq DEF Events, LastFile
  <2>3. LastFile(log) \in Nat BY <1>1, <2>2, FileType
  <2>4. QED BY <1>1, <1>3, <2>2, <2>3, SteadyAscends
<1>4. ASSUME NEW k \in 1 .. LastFile(log) PROVE InFile(log, k) # <<>>
  <2>1. PICK i \in 1..Len(log) : log[i].file = k /\ k \in Nat BY <1>3
  <2>2. QED BY <1>1, <2>1, FileHasLast
<1>5. ASSUME version = 1, NEW k \in 1 .. LastFile(log)
      PROVE  /\ Len(InFile(log, k)) <= Limit
             /\ k < LastFile(log) => Len(InFile(log, k)) = Limit
  <2>1. k \in Nat /\ k - 1 \in Nat /\ Limit \in Nat \ {0} /\ k \in Int
        /\ LastFile(log) = log[Len(log)].file /\ LastFile(log) \in Nat /\ Len(log) \in 1..Len(log)
    <3>1. PICK i \in 1..Len(log) : k \in Nat /\ LastFile(log) = log[Len(log)].file BY <1>3
    <3>2. Len(log) \in 1..Len(log) BY <1>1
    <3>3. k >= 1 BY <1>5
    <3>4. LastFile(log) \in Nat BY <1>1, <3>1, <3>2, FileType
    <3>5. k - 1 \in Nat /\ k \in Int BY <3>1, <3>3
    <3>6. QED BY <3>1, <3>2, <3>4, <3>5, StoreAssumption
  <2>2. PICK n \in Nat, m \in Nat : n = Limit * k /\ m = Limit * (k - 1) BY <2>1
  <2>3. n = m + Limit BY <2>1, <2>2
  <2>4. /\ UpTo(log, k) = IF n <= Len(log) THEN n ELSE Len(log)
        /\ UpTo(log, k - 1) = IF m <= Len(log) THEN m ELSE Len(log)
    BY <1>1, <1>5, <2>1, <2>2, CutInVersion1
  <2>5. Len(InFile(log, k)) = UpTo(log, k) - UpTo(log, k - 1) BY <1>1, <2>1, InFileIs
  <2>6. k < LastFile(log) => n <= Len(log)
    <3>1. SUFFICES ASSUME k < LastFile(log), ~(n <= Len(log)) PROVE FALSE OBVIOUS
    <3>2. UpTo(log, k) = Len(log) BY <3>1, <2>4
    <3>3. log[Len(log)].file <= k BY <1>1, <2>1, <3>2, Cut
    <3>4. QED BY <3>1, <3>3, <2>1
  <2>7. QED BY <1>1, <2>1, <2>3, <2>4, <2>5, <2>6
<1>6. QED BY <1>2, <1>4, <1>5 DEF SegmentsReadable

(* What a manifest that began the chain lists still matches it, whatever     *)
(* was appended since.                                                      *)
LEMMA SeedStillMatches ==
    ASSUME StoreInv
    PROVE  SeedMatches(manifest)
<1> DEFINE m == manifest
           segments == m.segments
<1>1. SUFFICES ASSUME m # NoManifest PROVE SeedMatches(m) BY DEF SeedMatches
<1>2. /\ log \in Events /\ Chained(log) /\ Steady(log) /\ Len(log) \in Nat /\ version \in {1, 2}
      /\ m \in Manifest
  BY LenIs DEF StoreInv, TypeOK, Chained
<1>3. /\ Len(m.state) = m.version /\ Begins(m.state, segments) /\ Begins(segments, log)
  BY <1>1 DEF StoreInv, ManifestOK
<1>4. /\ segments \in Events /\ m.state \in Events /\ m.version \in Nat BY <1>2 DEF Manifest
<1> HIDE DEF m, segments
<1>5. /\ Len(segments) \in Nat /\ m.version <= Len(segments) /\ Len(segments) <= Len(log)
      /\ \A i \in 1..Len(segments) : i \in 1..Len(log) /\ segments[i] = log[i]
      /\ Begins(m.state, log)
  BY <1>2, <1>3, <1>4, BeginsTransitively, LenIs DEF Begins
<1>6. Chained(segments) /\ Steady(segments) BY <1>2, <1>3, <1>4, ChainedPrefix DEF Chained
<1>7. SubSeq(log, 1, m.version) = m.state BY <1>2, <1>3, <1>4, <1>5, BeginsSub
<1>8. ASSUME NEW h \in 1..Len(segments), NEW k, k = segments[h].file
      PROVE  IF version = 2 THEN IsPrefix(InFile(segments, k), InFile(log, k))
             ELSE \/ InFile(log, k) = InFile(segments, k)
                  \/ InFile(log, k) # <<>> /\ Last(InFile(log, k)).seq > m.version
  <2>1. k \in Nat /\ k \in Int /\ k - 1 \in Int BY <1>4, <1>8, FileType
  <2>2. h \in 1..Len(log) /\ log[h].file = k BY <1>5, <1>8
  <2>3. /\ InFile(log, k) # <<>> /\ Last(InFile(log, k)).seq = UpTo(log, k)
    BY <1>2, <2>1, <2>2, FileHasLast
  <2> DEFINE a == UpTo(log, k - 1)
             b == UpTo(log, k)
             s == UpTo(segments, k)
  <2>4. a \in 0..Len(log) /\ b \in 0..Len(log) /\ a <= b /\ h <= b
    BY <1>2, <2>1, <2>2, Cut, CutsAscend, FileHasLast
  <2>5. a < h
    <3>1. h <= a <=> log[h].file <= k - 1 BY <1>2, <2>1, <2>2, Cut
    <3>2. QED BY <3>1, <2>1, <2>2, <2>4
  <2>6. UpTo(segments, k - 1) = a
    <3>1. UpTo(segments, k - 1) = IF a <= Len(segments) THEN a ELSE Len(segments)
      BY <1>2, <1>3, <1>4, <2>1, CutOfPrefix
    <3>2. QED BY <3>1, <2>4, <2>5, <1>5
  <2>7. s = IF b <= Len(segments) THEN b ELSE Len(segments)
    BY <1>2, <1>3, <1>4, <2>1, CutOfPrefix
  <2>8. /\ InFile(log, k) \in Events /\ Len(InFile(log, k)) = b - a
        /\ \A i \in 1 .. b - a : InFile(log, k)[i] = log[a + i]
    BY <1>2, <2>1, InFileIs
  <2>9. /\ InFile(segments, k) \in Events /\ Len(InFile(segments, k)) = s - a
        /\ \A i \in 1 .. s - a : InFile(segments, k)[i] = segments[a + i]
    <3>1. /\ InFile(segments, k) \in Events
          /\ Len(InFile(segments, k)) = UpTo(segments, k) - UpTo(segments, k - 1)
          /\ \A i \in 1 .. UpTo(segments, k) - UpTo(segments, k - 1) :
                InFile(segments, k)[i] = segments[UpTo(segments, k - 1) + i]
      BY <1>4, <1>6, <2>1, InFileIs
    <3> HIDE DEF a
    <3>2. QED BY <3>1, <2>6
  <2> HIDE DEF a, b, s
  <2>10. s \in Nat /\ h <= s /\ s <= b /\ s <= Len(segments) BY <2>4, <2>7, <1>5, <1>8
  <2>11. Begins(InFile(segments, k), InFile(log, k))
    <3>1. ASSUME NEW i \in 1 .. s - a PROVE InFile(segments, k)[i] = InFile(log, k)[i]
      <4>1. a + i \in 1..Len(segments) /\ i \in 1 .. b - a BY <2>4, <2>10, <1>5
      <4>2. QED BY <4>1, <2>8, <2>9, <1>5
    <3>2. s - a <= b - a BY <2>4, <2>10
    <3>3. QED BY <3>1, <3>2, <2>8, <2>9 DEF Begins
  <2>12. CASE version = 2
    <3>1. Len(InFile(segments, k)) \in Nat BY <2>9, LenIs
    <3>2. SubSeq(InFile(log, k), 1, Len(InFile(segments, k))) = InFile(segments, k)
      BY <2>8, <2>9, <2>11, BeginsSub
    <3>3. SubSeq(InFile(segments, k), 1, Len(InFile(segments, k))) = InFile(segments, k)
      BY <2>9, <3>1, BeginsSub DEF Begins
    <3>4. QED BY <2>12, <3>2, <3>3, <2>11 DEF IsPrefix, Begins
  <2>13. CASE version # 2 /\ b <= Len(segments)
    <3>1. Len(InFile(log, k)) <= Len(InFile(segments, k)) BY <2>7, <2>8, <2>9, <2>13
    <3>2. InFile(segments, k) = InFile(log, k) BY <2>8, <2>9, <2>11, <3>1, BeginsAll
    <3>3. QED BY <2>13, <3>2
  <2>14. CASE version # 2 /\ ~(b <= Len(segments))
    <3>1. b > m.version BY <2>4, <2>14, <1>4, <1>5
    <3>2. QED BY <2>14, <3>1, <2>3 DEF b
  <2>15. QED BY <2>12, <2>13, <2>14
<1>9. ASSUME NEW i \in 1..Len(log), \A j \in 1..Len(segments) : segments[j].file # log[i].file
      PROVE  Last(InFile(log, log[i].file)).seq > m.version
  <2>1. log[i].file \in Int BY <1>2, FileType
  <2>2. Last(InFile(log, log[i].file)).seq = UpTo(log, log[i].file) /\ i <= UpTo(log, log[i].file)
    BY <1>2, <2>1, FileHasLast
  <2>3. UpTo(log, log[i].file) \in Nat BY <1>2, <2>1, Cut
  <2>4. i \notin 1..Len(segments) BY <1>5, <1>9
  <2>5. QED BY <2>2, <2>3, <2>4, <1>4, <1>5
<1>10. m.version <= Len(log) BY <1>4, <1>5
<1>11. \A k \in {segments[i].file : i \in 1..Len(segments)} :
           IF version = 2 THEN IsPrefix(InFile(segments, k), InFile(log, k))
           ELSE \/ InFile(log, k) = InFile(segments, k)
                \/ InFile(log, k) # <<>> /\ Last(InFile(log, k)).seq > m.version
  BY <1>8
<1>12. \A i \in 1..Len(log) :
           (\A j \in 1..Len(segments) : segments[j].file # log[i].file)
               => Last(InFile(log, log[i].file)).seq > m.version
  BY <1>9
<1>13. QED BY <1>7, <1>10, <1>11, <1>12 DEF SeedMatches, segments

(* Whatever was interrupted, once its temporary files are swept a workspace  *)
(* replays, and a manifest names a state the chain went through; a rebuild   *)
(* may run beside a command in version 2, where sidecars and temporary files *)
(* are not listed as segments.                                             *)
THEOREM CheckpointsSound ==
    ASSUME Settings = {FALSE}, 1 \notin Overlapped PROVE Spec => []CheckpointsAreSound
<1>1. ASSUME StoreInv PROVE CheckpointsAreSound
  <2>1. manifest \in Manifest /\ log \in Events BY <1>1 DEF StoreInv, TypeOK
  <2>2. ManifestNamesPrefix
    <3>1. SUFFICES ASSUME manifest # NoManifest
          PROVE manifest.state \in parts /\ manifest.state = SubSeq(log, 1, manifest.version)
      BY DEF ManifestNamesPrefix
    <3>2. /\ manifest.state \in parts /\ Len(manifest.state) = manifest.version
          /\ Begins(manifest.state, manifest.segments) /\ Begins(manifest.segments, log)
      BY <1>1, <3>1 DEF StoreInv, ManifestOK
    <3>3. manifest.state \in Events /\ manifest.segments \in Events BY <2>1 DEF Manifest
    <3>4. Begins(manifest.state, log) BY <2>1, <3>2, <3>3, BeginsTransitively
    <3>5. QED BY <2>1, <3>2, <3>3, <3>4, BeginsSub
  <2>3. ASSUME \A t \in tmp : t.dir # "events", CheckpointPublished PROVE Replays
    <3>1. SegmentsReadable /\ SeedMatches(manifest) BY <1>1, <2>3, ChainIsReadable, SeedStillMatches
    <3>2. SeedReadable
      BY <1>1, <2>3 DEF StoreInv, ManifestOK, CleanOK, CheckpointPublished, SeedReadable
    <3>3. QED BY <3>1, <3>2 DEF Replays
  <2>4. QED BY <2>2, <2>3 DEF CheckpointsAreSound, ReadableOnceSwept
<1>2. QED BY <1>1, StoreInvariant, PTL
====
