-------------------------- MODULE MtpServingProofs --------------------------
(***************************************************************************)
(* The speculative loop as the server runs it: what is proved of the loop  *)
(* by itself holds for every job of the engine thread, next to any number  *)
(* of streams whose clients come and go.                                   *)
(***************************************************************************)
EXTENDS MtpServing, MtpProofs, FiniteSetTheorems

\* Every step of the server is a step of the loop or leaves it alone.
LEMMA StepOfLoop ==
    ASSUME [Next]_vars
    PROVE  [MtpNext]_mtpVars
<1>1. CASE \E r \in Reqs, strip \in Strips : Submit(r, strip)
  BY <1>1 DEF Submit
<1>2. CASE \E p \in Prompts, n \in NGen : TakeJob(p, n)
  BY <1>2 DEF TakeJob, MtpNext
<1>3. CASE GoesOn
  BY <1>3 DEF GoesOn, MtpNext, Step
<1>4. CASE Internal
  BY <1>4 DEF Internal, MtpNext, Step
<1>5. CASE Stops
  BY <1>5 DEF Stops, MtpNext
<1>6. CASE EmitToken
  BY <1>6 DEF EmitToken, MtpNext, Step
<1>7. CASE FinishJob
  BY <1>7 DEF FinishJob, MtpNext
<1>8. CASE \E r \in Reqs : Provide(r) \/ Leave(r)
  BY <1>8 DEF Provide, Leave
<1>9. CASE UNCHANGED vars
  BY <1>9 DEF vars
<1>10. QED
  BY <1>1, <1>2, <1>3, <1>4, <1>5, <1>6, <1>7, <1>8, <1>9 DEF Next, Engine

\* The engine thread runs nothing but the loop.
THEOREM ServesTheLoop == Spec => MtpSpec
<1>1. Init => MtpInit
  BY DEF Init
<1>2. [Next]_vars => [MtpNext]_mtpVars
  BY StepOfLoop
<1>3. QED
  BY <1>1, <1>2, PTL DEF Spec, MtpSpec

\* In the served loop, too, every round starts from clean memories, whichever
\* request was aborted, failed or answered before, if clears leave nothing.
THEOREM ServedRoundsStartClean ==
    ASSUME ~Retains, \A k \in Kinds : k.dft => k.tgt
    PROVE  Spec => []LoopInvariant
<1>1. MtpSpec => []LoopInvariant
  BY RoundsStartClean
<1>2. QED
  BY <1>1, ServesTheLoop, PTL

\* Every streamed request is given greedy decoding's own tokens, the first one
\* and the later ones, if the clears of lane 0 between them leave nothing.  The
\* server says that with upstream #26425 they do leave something
\* (cne-server.cpp:1314): then nothing is claimed.
THEOREM ServedLossless ==
    ASSUME ~Retains
    PROVE  Spec => ImplementsGreedy
<1>1. MtpSpec => ImplementsGreedy
  BY Lossless
<1>2. QED
  BY <1>1, ServesTheLoop, PTL

-----------------------------------------------------------------------------
(* The text of several pieces: FlattenSeq adds a piece at its end and gives *)
(* one off at its front.  Induction is by a least counterexample.           *)

\* A set of numbers without a least one is empty.
LEMMA NoLeast ==
    ASSUME NEW S \in SUBSET Nat, \A n \in S : \E k \in S : k < n
    PROVE  S = {}
<1> DEFINE Less == {p \in Nat \X Nat : p[1] < p[2]}
<1> SUFFICES ASSUME S # {} PROVE FALSE
  OBVIOUS
<1>1. IsWellFoundedOn(Less, Nat)
  BY NatLessThanWellFounded DEF OpToRel
<1> HIDE DEF Less
<1>2. PICK n \in S : \A k \in S : ~(<<k, n>> \in Less)
  BY <1>1, WFMin
<1>3. PICK k \in S : k < n
  OBVIOUS
<1> QED
  BY <1>2, <1>3 DEF Less

\* f joins the first pieces of s: the function that FlattenSeq defines.
Joins(f, s, n) ==
    f = [i \in 1 .. n |-> IF i = 1 THEN s[i] ELSE f[i - 1] \o s[i]]

\* One piece more.
LEMMA JoinsOneMore ==
    ASSUME NEW f, NEW s, NEW n, Joins(f, s, n), NEW i \in 1 .. n
    PROVE  f[i] = IF i = 1 THEN s[i] ELSE f[i - 1] \o s[i]
BY DEF Joins

\* There is one.
LEMMA JoinsExist ==
    ASSUME NEW s, NEW n \in Nat
    PROVE  \E f : Joins(f, s, n)
<1> DEFINE Bad == {k \in Nat : ~ \E f : Joins(f, s, k)}
<1>1. ASSUME NEW k \in Bad PROVE \E j \in Bad : j < k
  <2>1. CASE k = 0
    <3>1. Joins([i \in 1 .. 0 |-> 0], s, 0)
      BY DEF Joins
    <3> QED
      BY <1>1, <2>1, <3>1
  <2>2. CASE k > 0
    <3> SUFFICES ASSUME k - 1 \notin Bad PROVE FALSE
      BY <2>2
    <3>1. k \in Nat /\ k - 1 \in Nat
      BY <2>2
    <3>2. PICK f : Joins(f, s, k - 1)
      BY <3>1
    <3>3. \A i \in 1 .. k - 1 : f[i] = IF i = 1 THEN s[i] ELSE f[i - 1] \o s[i]
      BY <3>2 DEF Joins
    <3> DEFINE g == [i \in 1 .. k |-> IF i < k THEN f[i]
                                      ELSE IF i = 1 THEN s[i] ELSE f[i - 1] \o s[i]]
    <3>4. ASSUME NEW i \in 1 .. k
          PROVE  g[i] = IF i = 1 THEN s[i] ELSE g[i - 1] \o s[i]
      <4>1. i # 1 => g[i - 1] = f[i - 1]
        BY <3>1
      <4>2. CASE i < k
        <5>1. i \in 1 .. k - 1 /\ g[i] = f[i]
          BY <3>1, <4>2
        <5> QED
          BY <3>3, <4>1, <5>1
      <4>3. CASE i = k
        BY <3>1, <4>1, <4>3
      <4> QED
        BY <3>1, <4>2, <4>3
    <3>5. g = [i \in 1 .. k |-> g[i]]
      OBVIOUS
    <3> HIDE DEF g
    <3>6. Joins(g, s, k)
      BY <3>4, <3>5 DEF Joins
    <3> QED
      BY <1>1, <3>6
  <2> QED
    BY <2>1, <2>2
<1>2. Bad = {}
  <2>1. Bad \in SUBSET Nat
    OBVIOUS
  <2> HIDE DEF Bad
  <2> QED
    BY <1>1, <2>1, NoLeast
<1> QED
  BY <1>2

\* FlattenSeq is its last value.
LEMMA FlattenIsJoin ==
    ASSUME NEW s, Len(s) \in Nat, Len(s) # 0
    PROVE  \E f : Joins(f, s, Len(s)) /\ FlattenSeq(s) = f[Len(s)]
<1> DEFINE F == CHOOSE f : Joins(f, s, Len(s))
<1>1. Joins(F, s, Len(s))
  BY JoinsExist
<1>2. FlattenSeq(s) = F[Len(s)]
  BY DEF FlattenSeq, Joins
<1> QED
  BY <1>1, <1>2

\* What it joins, and that it depends on nothing but the pieces.
LEMMA JoinsSame ==
    ASSUME NEW f, NEW s, NEW m \in Nat, Joins(f, s, m),
           NEW g, NEW t, NEW n \in Nat, Joins(g, t, n),
           m <= n, \A i \in 1 .. m : s[i] = t[i]
    PROVE  \A i \in 1 .. m : f[i] = g[i]
<1> DEFINE Bad == {k \in Nat : k \in 1 .. m /\ f[k] # g[k]}
<1>1. /\ \A i \in 1 .. m : f[i] = IF i = 1 THEN s[i] ELSE f[i - 1] \o s[i]
      /\ \A i \in 1 .. n : g[i] = IF i = 1 THEN t[i] ELSE g[i - 1] \o t[i]
  BY DEF Joins
<1>2. ASSUME NEW k \in Bad PROVE \E j \in Bad : j < k
  <2>1. k \in 1 .. m /\ k \in 1 .. n /\ f[k] # g[k]
    OBVIOUS
  <2>2. k # 1
    BY <1>1, <2>1
  <2>3. f[k - 1] # g[k - 1]
    BY <1>1, <2>1, <2>2
  <2>4. k - 1 \in Bad /\ k - 1 < k
    BY <2>1, <2>2, <2>3
  <2> QED
    BY <2>4
<1>3. Bad = {}
  <2>1. Bad \in SUBSET Nat
    OBVIOUS
  <2> HIDE DEF Bad
  <2> QED
    BY <1>2, <2>1, NoLeast
<1> QED
  BY <1>3

\* Pieces of text join to a text.
LEMMA JoinsType ==
    ASSUME NEW C, NEW s \in Seq(Seq(C)), NEW f, Joins(f, s, Len(s))
    PROVE  \A i \in 1 .. Len(s) : f[i] \in Seq(C)
<1> DEFINE Bad == {k \in Nat : k \in 1 .. Len(s) /\ f[k] \notin Seq(C)}
<1>1. /\ \A i \in 1 .. Len(s) : f[i] = IF i = 1 THEN s[i] ELSE f[i - 1] \o s[i]
      /\ \A i \in 1 .. Len(s) : s[i] \in Seq(C)
      /\ Len(s) \in Nat
  <2>1. \A i \in 1 .. Len(s) : f[i] = IF i = 1 THEN s[i] ELSE f[i - 1] \o s[i]
    BY JoinsOneMore
  <2>2. Len(s) \in Nat /\ \A i \in 1 .. Len(s) : s[i] \in Seq(C)
    BY LenProperties
  <2> QED
    BY <2>1, <2>2
<1>2. ASSUME NEW k \in Bad PROVE \E j \in Bad : j < k
  <2>1. k \in 1 .. Len(s) /\ f[k] \notin Seq(C)
    OBVIOUS
  <2>2. k # 1
    BY <1>1, <2>1
  <2>3. f[k] = f[k - 1] \o s[k] /\ s[k] \in Seq(C)
    BY <1>1, <2>1, <2>2
  <2>4. f[k - 1] \notin Seq(C)
    BY <2>1, <2>3, ConcatProperties
  <2>5. k - 1 \in Bad /\ k - 1 < k
    BY <1>1, <2>1, <2>2, <2>4
  <2> QED
    BY <2>5
<1>3. Bad = {}
  <2>1. Bad \in SUBSET Nat
    OBVIOUS
  <2> HIDE DEF Bad
  <2> QED
    BY <1>2, <2>1, NoLeast
<1>4. \A i \in 1 .. Len(s) : i \in Nat
  BY <1>1
<1> QED
  BY <1>3, <1>4

\* No pieces, no text.
LEMMA FlattenEmpty == FlattenSeq(<<>>) = <<>>
BY DEF FlattenSeq

\* The concatenation of texts is a text.
LEMMA FlattenType ==
    ASSUME NEW C, NEW s \in Seq(Seq(C))
    PROVE  FlattenSeq(s) \in Seq(C)
<1>1. CASE s = <<>>
  <2>1. <<>> \in Seq(C)
    OBVIOUS
  <2> QED
    BY <1>1, <2>1, FlattenEmpty
<1>2. CASE s # <<>>
  <2>1. Len(s) \in Nat /\ Len(s) # 0 /\ Len(s) \in 1 .. Len(s)
    BY <1>2
  <2>2. PICK f : Joins(f, s, Len(s)) /\ FlattenSeq(s) = f[Len(s)]
    BY <2>1, FlattenIsJoin
  <2> QED
    BY <2>1, <2>2, JoinsType
<1> QED
  BY <1>1, <1>2

\* A piece at the end.
LEMMA FlattenAppend ==
    ASSUME NEW C, NEW s \in Seq(Seq(C)), NEW p \in Seq(C)
    PROVE  FlattenSeq(Append(s, p)) = FlattenSeq(s) \o p
<1> DEFINE t == Append(s, p)
           n == Len(s)
<1>1. /\ t \in Seq(Seq(C)) /\ n \in Nat /\ Len(t) = n + 1 /\ t[n + 1] = p
      /\ \A i \in 1 .. n : t[i] = s[i]
  OBVIOUS
<1> HIDE DEF t
<1>2. PICK g : Joins(g, t, n + 1) /\ FlattenSeq(t) = g[n + 1]
  <2>1. Len(t) \in Nat /\ Len(t) # 0
    BY <1>1
  <2> QED
    BY <1>1, <2>1, FlattenIsJoin
<1>3. g[n + 1] = IF n + 1 = 1 THEN t[n + 1] ELSE g[n + 1 - 1] \o t[n + 1]
  <2>1. n + 1 \in 1 .. n + 1
    BY <1>1
  <2> QED
    BY <1>2, <2>1, JoinsOneMore
<1>4. CASE n = 0
  <2>1. s = <<>> /\ FlattenSeq(t) = p
    BY <1>1, <1>2, <1>3, <1>4
  <2>2. <<>> \o p = p
    BY ConcatEmptySeq
  <2> QED
    BY <2>1, <2>2, FlattenEmpty DEF t
<1>5. CASE n # 0
  <2>1. PICK f : Joins(f, s, n) /\ FlattenSeq(s) = f[n]
    BY <1>1, <1>5, FlattenIsJoin
  <2>2. f[n] = g[n]
    <3>1. n + 1 \in Nat /\ n <= n + 1 /\ n \in 1 .. n
      BY <1>1, <1>5
    <3>2. \A i \in 1 .. n : s[i] = t[i]
      BY <1>1
    <3> HIDE DEF n
    <3>3. \A i \in 1 .. n : f[i] = g[i]
      BY <1>1, <1>2, <2>1, <3>1, <3>2, JoinsSame
    <3> QED
      BY <3>1, <3>3
  <2>3. n + 1 # 1 /\ n + 1 - 1 = n
    BY <1>1, <1>5
  <2>4. FlattenSeq(t) = FlattenSeq(s) \o p
    BY <1>1, <1>2, <1>3, <2>1, <2>2, <2>3
  <2> QED
    BY <2>4 DEF t
<1> QED
  BY <1>4, <1>5

\* Joining is associative.
LEMMA TextAssociative ==
    ASSUME NEW C
    PROVE  \A x, y, z \in Seq(C) : (x \o y) \o z = x \o (y \o z)
BY ConcatAssociative

\* The first piece off.
LEMMA FlattenHead ==
    ASSUME NEW C, NEW s \in Seq(Seq(C)), s # <<>>
    PROVE  FlattenSeq(s) = Head(s) \o FlattenSeq(Tail(s))
<1>0. \A x, y, z \in Seq(C) : (x \o y) \o z = x \o (y \o z)
  BY ONLY TextAssociative
<1> DEFINE t == Tail(s)
           n == Len(s)
<1>1. /\ Head(s) = s[1] /\ s[1] \in Seq(C)
      /\ t \in Seq(Seq(C)) /\ n \in Nat /\ n >= 1 /\ Len(t) = n - 1
      /\ \A i \in 1 .. n - 1 : t[i] = s[i + 1] /\ t[i] \in Seq(C)
  <2>1. Head(s) = s[1] /\ s[1] \in Seq(C) /\ n \in Nat /\ n >= 1
    OBVIOUS
  <2>2. t \in Seq(Seq(C)) /\ Len(t) = n - 1 /\ \A i \in 1 .. Len(t) : t[i] = s[i + 1]
    BY HeadTailProperties
  <2>3. \A i \in 1 .. Len(t) : t[i] \in Seq(C)
    BY <2>2
  <2> QED
    BY <2>1, <2>2, <2>3
<1> HIDE DEF t
<1>2. PICK f : Joins(f, s, n) /\ FlattenSeq(s) = f[n]
  BY <1>1, FlattenIsJoin
<1>3. \A i \in 1 .. n : f[i] = IF i = 1 THEN s[i] ELSE f[i - 1] \o s[i]
  BY <1>2 DEF Joins
<1>4. CASE n = 1
  <2>1. FlattenSeq(s) = s[1]
    BY <1>1, <1>2, <1>3, <1>4
  <2>2. FlattenSeq(t) = <<>>
    <3>1. t = <<>>
      BY <1>1, <1>4
    <3> QED
      BY <3>1, FlattenEmpty
  <2>3. s[1] \o <<>> = s[1]
    BY <1>1, ConcatEmptySeq
  <2> QED
    BY <1>1, <2>1, <2>2, <2>3 DEF t
<1>5. CASE n > 1
  <2>1. PICK g : Joins(g, t, n - 1) /\ FlattenSeq(t) = g[n - 1]
    <3>1. Len(t) \in Nat /\ Len(t) # 0
      <4> HIDE DEF n
      <4> QED
        BY <1>1, <1>5
    <3> QED
      BY <1>1, <3>1, FlattenIsJoin
  <2>2. /\ \A i \in 1 .. n - 1 : g[i] = IF i = 1 THEN t[i] ELSE g[i - 1] \o t[i]
        /\ \A i \in 1 .. n - 1 : g[i] \in Seq(C)
    BY <1>1, <2>1, JoinsType DEF Joins
  <2> DEFINE Bad == {k \in Nat : k \in 1 .. n - 1 /\ f[k + 1] # s[1] \o g[k]}
  <2>3. ASSUME NEW k \in Bad PROVE \E j \in Bad : j < k
    <3>1. k \in Nat /\ k \in 1 .. n - 1 /\ f[k + 1] # s[1] \o g[k]
      OBVIOUS
    <3>2. /\ k + 1 \in 1 .. n /\ k + 1 # 1 /\ k + 1 - 1 = k
          /\ f[k + 1] = f[k] \o s[k + 1] /\ s[k + 1] = t[k] /\ t[k] \in Seq(C)
      <4>1. k + 1 \in 1 .. n /\ k + 1 # 1 /\ k + 1 - 1 = k
        BY <1>1, <3>1
      <4>2. f[k + 1] = IF k + 1 = 1 THEN s[k + 1] ELSE f[k + 1 - 1] \o s[k + 1]
        <5> HIDE DEF Bad
        <5> DEFINE i == k + 1
        <5>1. i \in 1 .. n
          BY <4>1
        <5> HIDE DEF i
        <5>2. f[i] = IF i = 1 THEN s[i] ELSE f[i - 1] \o s[i]
          BY <1>3, <5>1
        <5> QED
          BY <3>1, <5>2 DEF i
      <4> QED
        BY <1>1, <3>1, <4>1, <4>2
    <3>3. k # 1
      <4>1. SUFFICES ASSUME k = 1 PROVE FALSE
        OBVIOUS
      <4>2. f[1] = s[1] /\ g[1] = t[1]
        BY <1>1, <1>3, <2>2, <3>1, <4>1
      <4> QED
        BY <3>1, <3>2, <4>1, <4>2
    <3>4. k - 1 \in Nat /\ k - 1 \in 1 .. n - 1 /\ k - 1 + 1 = k /\ k - 1 < k
      BY <1>1, <3>1, <3>3
    <3>5. g[k] = g[k - 1] \o t[k] /\ g[k - 1] \in Seq(C)
      BY <2>2, <3>1, <3>3, <3>4
    <3>6. f[k] # s[1] \o g[k - 1]
      <4>1. SUFFICES ASSUME f[k] = s[1] \o g[k - 1] PROVE FALSE
        OBVIOUS
      <4>2. f[k + 1] = (s[1] \o g[k - 1]) \o t[k]
        BY <3>2, <4>1
      <4>3. (s[1] \o g[k - 1]) \o t[k] = s[1] \o (g[k - 1] \o t[k])
        <5>1. s[1] \in Seq(C) /\ g[k - 1] \in Seq(C) /\ t[k] \in Seq(C)
          BY <1>1, <3>2, <3>5
        <5> HIDE DEF Bad
        <5> QED
          BY <1>0, <5>1, Zenon
      <4> QED
        BY <3>1, <3>5, <4>2, <4>3
    <3>7. k - 1 \in Bad
      BY <3>4, <3>6
    <3> QED
      BY <3>4, <3>7
  <2>4. Bad = {}
    <3>1. Bad \in SUBSET Nat
      OBVIOUS
    <3> HIDE DEF Bad
    <3> QED
      BY <2>3, <3>1, NoLeast
  <2>5. n - 1 \in Nat /\ n - 1 \in 1 .. n - 1 /\ n - 1 + 1 = n
    BY <1>1, <1>5
  <2>6. f[n] = s[1] \o g[n - 1]
    BY <2>4, <2>5
  <2> QED
    BY <1>1, <1>2, <2>1, <2>6 DEF t
<1> QED
  BY <1>1, <1>4, <1>5

-----------------------------------------------------------------------------
(* The filter: what visible() gives and what lies outside think blocks.     *)

NoClose(s) == \A i \in 1 .. Len(s) : s[i] # Close
NoOpen(s) == \A i \in 1 .. Len(s) : s[i] # Open

\* A nonempty set of numbers has a least one.
LEMMA LeastIn ==
    ASSUME NEW S \in SUBSET Nat, S # {}
    PROVE  \E i \in S : \A j \in S : i <= j
<1>1. PICK i \in S : ~ \E k \in S : k < i
  BY NoLeast
<1>2. \A j \in S : i \in Nat /\ j \in Nat /\ ~(j < i)
  BY <1>1
<1>3. \A j \in S : i <= j
  BY <1>2
<1> QED
  BY <1>3

\* What find finds is in the text; it finds nothing only if nothing is there.
LEMMA FindFacts ==
    ASSUME NEW s, Len(s) \in Nat, NEW c, NEW from \in Nat \ {0}
    PROVE  /\ Find(s, c, from) # 0 =>
                  Find(s, c, from) \in from .. Len(s) /\ s[Find(s, c, from)] = c
           /\ Find(s, c, from) = 0 <=> \A i \in from .. Len(s) : s[i] # c
<1> DEFINE at == {i \in from .. Len(s) : s[i] = c}
<1>1. CASE at = {}
  BY <1>1 DEF Find
<1>2. CASE at # {}
  <2>1. \E i \in at : \A j \in at : i <= j
    <3>1. at \in SUBSET Nat
      OBVIOUS
    <3> HIDE DEF at
    <3> QED
      BY <1>2, <3>1, LeastIn
  <2> DEFINE k == CHOOSE i \in at : \A j \in at : i <= j
  <2>2. k \in at
    <3> HIDE DEF at
    <3> QED
      BY <2>1
  <2>3. Find(s, c, from) = k
    BY <1>2 DEF Find
  <2> HIDE DEF k
  <2> QED
    BY <1>2, <2>2, <2>3
<1> QED
  BY <1>1, <1>2

\* The scan's step, with f for the rest of the scan.
ScanFrom(f, full, pos) ==
    LET begin == Find(full, Open, pos)
        close == Find(full, Close, begin)
    IN IF pos > Len(full) + 1 THEN [text |-> <<>>, cut |-> FALSE, throws |-> TRUE]
       ELSE IF begin = 0
         THEN [text |-> SubSeq(full, pos, Len(full)), cut |-> FALSE, throws |-> FALSE]
       ELSE IF close = 0 THEN [text |-> <<>>, cut |-> FALSE, throws |-> FALSE]
       ELSE [f[close + AfterClose] EXCEPT !.text = SubSeq(full, pos, begin - 1) \o @,
                                          !.cut = TRUE]

\* Without a closing tag the scan does not go on behind one.
LEMMA ScanStops ==
    ASSUME NEW s, Len(s) \in Nat, NoClose(s), NEW pos \in Nat \ {0}, NEW f, NEW g
    PROVE  ScanFrom(f, s, pos) = ScanFrom(g, s, pos)
<1> DEFINE begin == Find(s, Open, pos)
<1>1. begin # 0 => begin \in Nat \ {0}
  BY FindFacts
<1>2. begin # 0 => Find(s, Close, begin) = 0
  <2>1. SUFFICES ASSUME begin # 0 PROVE Find(s, Close, begin) = 0
    OBVIOUS
  <2>2. \A i \in begin .. Len(s) : i \in 1 .. Len(s)
    BY <1>1, <2>1
  <2> HIDE DEF begin
  <2>3. \A i \in begin .. Len(s) : s[i] # Close
    BY <2>2 DEF NoClose
  <2> QED
    BY <1>1, <2>1, <2>3, FindFacts
<1> QED
  BY <1>2 DEF ScanFrom

\* A text without a closing tag is shown whole, or not at all when a block
\* is open; the scan does not throw.
LEMMA ScanOpen ==
    ASSUME NEW C, NEW s \in Seq(C), NoClose(s)
    PROVE  Scan(s) = [text |-> IF NoOpen(s) THEN s ELSE <<>>, cut |-> FALSE, throws |-> FALSE]
<1> DEFINE D == 1 .. Len(s) + AfterClose + 1
           g == [pos \in D |-> ScanFrom(<<>>, s, pos)]
           F == CHOOSE f : f = [pos \in D |-> ScanFrom(f, s, pos)]
<1>1. Len(s) \in Nat /\ 1 \in D /\ \A pos \in D : pos \in Nat \ {0}
  BY DEF AfterClose
<1> HIDE DEF D
<1>2. \A pos \in D : ScanFrom(<<>>, s, pos) = ScanFrom(g, s, pos)
  BY <1>1, ScanStops
<1>3. g = [pos \in D |-> ScanFrom(g, s, pos)]
  <2>1. g = [pos \in D |-> g[pos]] /\ \A pos \in D : g[pos] = ScanFrom(<<>>, s, pos)
    OBVIOUS
  <2> HIDE DEF g
  <2> QED
    BY <1>2, <2>1
<1> HIDE DEF g
<1>4. F = [pos \in D |-> ScanFrom(F, s, pos)]
  BY <1>3
<1>5. Scan(s) = F[1]
  BY DEF Scan, ScanFrom, D
<1> HIDE DEF F
<1>6. Scan(s) = ScanFrom(<<>>, s, 1)
  <2>1. F[1] = ScanFrom(F, s, 1)
    BY <1>1, <1>4
  <2> QED
    BY <1>1, <1>5, <2>1, ScanStops
<1>7. CASE NoOpen(s)
  <2>1. Find(s, Open, 1) = 0
    BY <1>1, <1>7, FindFacts DEF NoOpen
  <2>2. SubSeq(s, 1, Len(s)) = s
    BY SubSeqFull
  <2>3. ~(1 > Len(s) + 1)
    BY <1>1
  <2>4. ScanFrom(<<>>, s, 1)
            = [text |-> SubSeq(s, 1, Len(s)), cut |-> FALSE, throws |-> FALSE]
    BY <2>1, <2>3, Zenon DEF ScanFrom
  <2> QED
    BY <1>6, <1>7, <2>2, <2>4
<1>8. CASE ~NoOpen(s)
  <2>1. Find(s, Open, 1) # 0
    BY <1>1, <1>8, FindFacts DEF NoOpen
  <2>2. Find(s, Open, 1) \in 1 .. Len(s)
    BY <1>1, <2>1, FindFacts
  <2>3. \A i \in Find(s, Open, 1) .. Len(s) : s[i] # Close
    BY <1>1, <2>2 DEF NoClose
  <2>4. Find(s, Close, Find(s, Open, 1)) = 0
    BY <1>1, <2>2, <2>3, FindFacts
  <2> QED
    BY <1>1, <1>6, <1>8, <2>1, <2>4 DEF ScanFrom
<1> QED
  BY <1>7, <1>8

\* The last position before the first open tag.
Before(s, k) ==
    /\ k \in 0 .. Len(s)
    /\ \A i \in 1 .. k : s[i] # Open
    /\ k < Len(s) => s[k + 1] = Open

\* Every text has a part in front of its first opening tag.
LEMMA BeforeExists ==
    ASSUME NEW s, Len(s) \in Nat
    PROVE  \E k : Before(s, k)
<1>1. CASE NoOpen(s)
  <2>1. Before(s, Len(s))
    BY <1>1 DEF Before, NoOpen
  <2> QED
    BY <2>1
<1>2. CASE ~NoOpen(s)
  <2> DEFINE S == {i \in 1 .. Len(s) : s[i] = Open}
  <2>1. S \in SUBSET Nat /\ S # {}
    BY <1>2 DEF NoOpen
  <2>2. PICK i \in S : \A j \in S : i <= j
    <3> HIDE DEF S
    <3> QED
      BY <2>1, LeastIn
  <2>3. /\ i \in 1 .. Len(s) /\ s[i] = Open /\ i - 1 + 1 = i
        /\ \A j \in 1 .. i - 1 : j \in 1 .. Len(s) /\ ~(i <= j)
    BY <2>2
  <2>4. \A j \in 1 .. i - 1 : s[j] # Open
    BY <2>2, <2>3
  <2>5. i - 1 \in 0 .. Len(s)
    BY <2>3
  <2>6. Before(s, i - 1)
    BY <2>3, <2>4, <2>5 DEF Before
  <2> QED
    BY <2>6
<1> QED
  BY <1>1, <1>2

\* Without a closing tag, what lies outside is what comes before the open tag.
LEMMA OutsideIsBefore ==
    ASSUME NEW C, NEW s \in Seq(C), NoClose(s), NEW k, Before(s, k)
    PROVE  Outside(TRUE, s) = SubSeq(s, 1, k)
<1> DEFINE kept == {i \in 1 .. Len(s) : ~Hidden(s, i)}
           nth(j) == CHOOSE i \in kept : Cardinality({n \in kept : n <= i}) = j
           text == [j \in 1 .. Cardinality(kept) |-> s[nth(j)]]
<1>1. Len(s) \in Nat /\ k \in Nat /\ k <= Len(s)
  BY DEF Before
<1>2. ASSUME NEW i \in 1 .. Len(s)
      PROVE  Hidden(s, i) <=> i > k
  <2>1. ASSUME i > k PROVE Hidden(s, i)
    <3>1. k + 1 \in 1 .. i /\ s[k + 1] = Open
      BY <1>1, <2>1 DEF Before
    <3>2. \A c \in k + 1 .. i : c \in 1 .. Len(s)
      BY <1>1
    <3>3. \A c \in k + 1 .. i : s[c] # Close
      BY <3>2 DEF NoClose
    <3> QED
      BY <3>1, <3>3 DEF Hidden
  <2>2. ASSUME ~(i > k) PROVE ~Hidden(s, i)
    <3>1. \A o \in 1 .. i : o \in 1 .. k
      BY <1>1, <2>2
    <3> QED
      BY <3>1 DEF Hidden, Before
  <2> QED
    BY <2>1, <2>2
<1>3. kept = 1 .. k
  <2>1. \A i \in 1 .. Len(s) : i \in 1 .. k <=> ~(i > k)
    BY <1>1
  <2>2. \A i \in 1 .. k : i \in 1 .. Len(s)
    BY <1>1
  <2> QED
    BY <1>2, <2>1, <2>2
<1> HIDE DEF kept
<1>4. \A n \in Nat : Cardinality(1 .. n) = n
  <2> SUFFICES ASSUME NEW n \in Nat PROVE Cardinality(1 .. n) = n
    OBVIOUS
  <2> QED
    BY FS_Interval
<1>5. ASSUME NEW i \in kept
      PROVE  Cardinality({n \in kept : n <= i}) = i
  <2>1. i \in Nat /\ {n \in kept : n <= i} = 1 .. i
    BY <1>1, <1>3, <1>5
  <2> QED
    BY <1>4, <2>1
<1>6. Cardinality(kept) = k
  BY <1>1, <1>3, <1>4
<1>7. ASSUME NEW j \in 1 .. k
      PROVE  nth(j) = j
  <2>1. j \in kept
    BY <1>3
  <2>2. \A i \in kept : Cardinality({n \in kept : n <= i}) = j <=> i = j
    BY <1>5
  <2> QED
    BY <2>1, <2>2
<1>8. text = [j \in 1 .. k |-> s[j]]
  <2> HIDE DEF nth
  <2> QED
    BY <1>6, <1>7
<1>9. SubSeq(s, 1, k) = [j \in 1 .. k |-> s[j]]
  <2>1. \A i \in 1 .. k : i \in 1 .. Len(s)
    BY <1>1
  <2>2. \A i \in 1 .. k : s[i] \in C
    BY <2>1
  <2>3. /\ SubSeq(s, 1, k) \in Seq(C) /\ Len(SubSeq(s, 1, k)) = k
        /\ \A i \in 1 .. k : SubSeq(s, 1, k)[i] = s[i]
    <3>1. /\ SubSeq(s, 1, k) \in Seq(C)
          /\ Len(SubSeq(s, 1, k)) = IF 1 <= k THEN k - 1 + 1 ELSE 0
          /\ \A i \in 1 .. k - 1 + 1 : SubSeq(s, 1, k)[i] = s[1 + i - 1]
      BY <1>1, <2>2, SubSeqProperties
    <3>2. k - 1 + 1 = k /\ (~(1 <= k) => k = 0) /\ \A i \in 1 .. k : 1 + i - 1 = i
      BY <1>1
    <3> QED
      BY <3>1, <3>2
  <2> DEFINE t == SubSeq(s, 1, k)
  <2> HIDE DEF t
  <2>4. t \in Seq(C) /\ Len(t) = k /\ \A i \in 1 .. k : t[i] = s[i]
    BY <2>3 DEF t
  <2>5. t = [j \in 1 .. k |-> s[j]]
    BY <1>1, <2>4
  <2> QED
    BY <2>5 DEF t
<1>10. ~ \E i \in 1 .. Len(s) : s[i] = Close
  BY DEF NoClose
<1>11. Outside(TRUE, s) = text
  BY <1>10 DEF Outside, kept
<1> QED
  BY <1>8, <1>9, <1>11

\* What is outside is a text.
LEMMA OutsideType ==
    ASSUME NEW C, NEW s \in Seq(C), NEW strip \in BOOLEAN, strip => NoClose(s)
    PROVE  Outside(strip, s) \in Seq(C)
<1>1. CASE ~strip
  BY <1>1 DEF Outside
<1>2. CASE strip
  <2>1. Len(s) \in Nat
    OBVIOUS
  <2>2. PICK k : Before(s, k)
    BY <2>1, BeforeExists
  <2>3. \A i \in 1 .. k : s[i] \in C
    BY <2>1, <2>2 DEF Before
  <2>4. SubSeq(s, 1, k) \in Seq(C)
    <3>1. k \in Int
      BY <2>1, <2>2 DEF Before
    <3> QED
      BY <2>3, <3>1, SubSeqProperties
  <2>5. strip = TRUE
    BY <1>2
  <2> QED
    BY <1>2, <2>2, <2>4, <2>5, OutsideIsBefore
<1> QED
  BY <1>1, <1>2

\* A token's text that can be told apart from the tags: none closes a block,
\* and one that opens a block does so with its first character.
Tagged(x) == \A i \in 1 .. Len(x) : x[i] # Close /\ (x[i] = Open => i = 1)

\* Concatenation, element by element.
LEMMA ConcatElements ==
    ASSUME NEW C, NEW s \in Seq(C), NEW x \in Seq(C)
    PROVE  /\ s \o x \in Seq(C) /\ Len(s \o x) = Len(s) + Len(x)
           /\ Len(s) \in Nat /\ Len(x) \in Nat
           /\ \A i \in 1 .. Len(s) : (s \o x)[i] = s[i]
           /\ \A i \in 1 .. Len(x) : (s \o x)[Len(s) + i] = x[i]
OBVIOUS

\* A token without a closing tag adds none.
LEMMA NoCloseAppend ==
    ASSUME NEW C, NEW s \in Seq(C), NEW x \in Seq(C), NoClose(s), Tagged(x)
    PROVE  NoClose(s \o x)
<1> DEFINE t == s \o x
<1>1. /\ Len(t) = Len(s) + Len(x) /\ Len(s) \in Nat /\ Len(x) \in Nat
      /\ \A i \in 1 .. Len(s) : t[i] = s[i]
      /\ \A i \in 1 .. Len(x) : t[Len(s) + i] = x[i]
  BY ConcatElements
<1> HIDE DEF t
<1>2. ASSUME NEW i \in 1 .. Len(t) PROVE t[i] # Close
  <2>1. CASE i <= Len(s)
    BY <1>1, <2>1 DEF NoClose
  <2>2. CASE i > Len(s)
    <3>1. i - Len(s) \in 1 .. Len(x) /\ Len(s) + (i - Len(s)) = i
      BY <1>1, <2>2
    <3>2. t[i] = x[i - Len(s)]
      BY <1>1, <3>1
    <3> QED
      BY <3>1, <3>2 DEF Tagged
  <2> QED
    BY <1>1, <2>1, <2>2
<1> QED
  BY <1>2 DEF NoClose, t

\* The rest of a text behind its first part.
LEMMA RestOfConcat ==
    ASSUME NEW C, NEW s \in Seq(C), NEW x \in Seq(C)
    PROVE  SubSeq(s \o x, Len(s) + 1, Len(s \o x)) = x
<1> DEFINE t == s \o x
           p == SubSeq(t, Len(s) + 1, Len(t))
<1>1. /\ t \in Seq(C) /\ Len(t) = Len(s) + Len(x) /\ Len(s) \in Nat /\ Len(x) \in Nat
      /\ \A i \in 1 .. Len(x) : t[Len(s) + i] = x[i]
  BY ConcatElements
<1> HIDE DEF t
<1>2. \A i \in Len(s) + 1 .. Len(t) : i \in 1 .. Len(t)
  BY <1>1
<1>3. \A i \in Len(s) + 1 .. Len(t) : t[i] \in C
  BY <1>1, <1>2
<1>4. Len(s) + 1 \in Int /\ Len(t) \in Int
  BY <1>1
<1>5. /\ p \in Seq(C)
      /\ Len(p) = IF Len(s) + 1 <= Len(t) THEN Len(t) - (Len(s) + 1) + 1 ELSE 0
      /\ \A i \in 1 .. Len(t) - (Len(s) + 1) + 1 : p[i] = t[Len(s) + 1 + i - 1]
  BY <1>3, <1>4, SubSeqProperties
<1> HIDE DEF p
<1>6. Len(p) = Len(x)
  BY <1>1, <1>5
<1>7. \A i \in 1 .. Len(x) : p[i] = x[i]
  <2> SUFFICES ASSUME NEW i \in 1 .. Len(x) PROVE p[i] = x[i]
    OBVIOUS
  <2>1. i \in 1 .. Len(t) - (Len(s) + 1) + 1 /\ Len(s) + 1 + i - 1 = Len(s) + i
    BY <1>1
  <2>2. p[i] = t[Len(s) + i]
    BY <1>5, <2>1
  <2> QED
    BY <1>1, <2>2
<1>8. p = x
  BY <1>5, <1>6, <1>7, SeqEqual
<1> QED
  BY <1>8 DEF p, t

\* What visible() has beyond what was sent when x follows s.
Piece(strip, s, x) ==
    SubSeq(Visible(strip, s \o x), Len(Outside(strip, s)) + 1, Len(Visible(strip, s \o x)))

\* What a token adds to what lies outside is what visible() has beyond what
\* was sent.
LEMMA TextAdds ==
    ASSUME NEW C, NEW s \in Seq(C), NEW x \in Seq(C), NEW strip \in BOOLEAN,
           strip => NoClose(s) /\ Tagged(x)
    PROVE  /\ Piece(strip, s, x) \in Seq(C)
           /\ Outside(strip, s \o x) = Outside(strip, s) \o Piece(strip, s, x)
           /\ Piece(strip, s, x) # <<>> =>
                  Len(Visible(strip, s \o x)) = Len(Outside(strip, s \o x))
<1> DEFINE t == s \o x
           vis == Visible(strip, t)
           sent == Len(Outside(strip, s))
           piece == Piece(strip, s, x)
<1>0. piece = SubSeq(vis, sent + 1, Len(vis))
  BY DEF Piece
<1> SUFFICES /\ piece \in Seq(C)
             /\ Outside(strip, t) = Outside(strip, s) \o piece
             /\ piece # <<>> => Len(vis) = Len(Outside(strip, t))
  OBVIOUS
<1> HIDE DEF piece
<1>1. /\ t \in Seq(C) /\ Len(t) = Len(s) + Len(x) /\ Len(s) \in Nat /\ Len(x) \in Nat
      /\ \A i \in 1 .. Len(s) : t[i] = s[i]
      /\ \A i \in 1 .. Len(x) : t[Len(s) + i] = x[i]
  BY ConcatElements
<1>2. ASSUME vis = t, Outside(strip, s) = s, Outside(strip, t) = t
      PROVE  /\ piece \in Seq(C)
             /\ Outside(strip, t) = Outside(strip, s) \o piece
             /\ piece # <<>> => Len(vis) = Len(Outside(strip, t))
  <2>1. piece = SubSeq(t, Len(s) + 1, Len(t))
    BY <1>0, <1>2
  <2>2. piece = x
    BY <2>1, RestOfConcat
  <2> QED
    BY <1>2, <2>2
<1>3. CASE ~strip
  <2>1. vis = t /\ Outside(strip, s) = s /\ Outside(strip, t) = t
    BY <1>3 DEF Visible, Outside
  <2> QED
    BY <1>2, <2>1
<1>4. CASE strip
  <2>1. strip = TRUE /\ NoClose(s) /\ NoClose(t) /\ Tagged(x)
    BY <1>4, NoCloseAppend
  <2>2. Scan(t) = [text |-> IF NoOpen(t) THEN t ELSE <<>>, cut |-> FALSE, throws |-> FALSE]
    BY <1>1, <2>1, ScanOpen
  <2>3. vis = IF NoOpen(t) THEN t ELSE <<>>
    BY <2>1, <2>2 DEF Visible
  <2> HIDE DEF t
  <2>4. CASE NoOpen(t)
    <3>1. Before(t, Len(t)) /\ Before(s, Len(s))
      BY <1>1, <2>4 DEF Before, NoOpen
    <3>2. SubSeq(t, 1, Len(t)) = t /\ SubSeq(s, 1, Len(s)) = s
      BY <1>1, SubSeqFull
    <3>3. Outside(strip, s) = s /\ Outside(strip, t) = t
      BY <1>1, <2>1, <3>1, <3>2, OutsideIsBefore
    <3> QED
      BY <1>2, <2>3, <2>4, <3>3
  <2>5. CASE ~NoOpen(t)
    <3>1. PICK k : Before(s, k)
      BY <1>1, BeforeExists
    <3>2. Before(t, k)
      <4>1. CASE k < Len(s)
        <5>1. k \in Nat /\ k + 1 \in 1 .. Len(s) /\ \A j \in 1 .. k : j \in 1 .. Len(s)
          BY <1>1, <3>1, <4>1 DEF Before
        <5>2. t[k + 1] = Open /\ \A j \in 1 .. k : t[j] # Open
          BY <1>1, <3>1, <4>1, <5>1 DEF Before
        <5>3. k \in 0 .. Len(t)
          BY <1>1, <4>1, <5>1
        <5> QED
          BY <5>2, <5>3 DEF Before
      <4>2. CASE k = Len(s)
        <5>1. PICK i \in 1 .. Len(t) : t[i] = Open
          BY <2>5 DEF NoOpen
        <5>2. i > Len(s)
          <6>1. SUFFICES ASSUME i <= Len(s) PROVE FALSE
            BY <1>1
          <6>2. i \in 1 .. Len(s)
            BY <1>1, <6>1
          <6>3. s[i] # Open
            BY <3>1, <4>2, <6>2 DEF Before
          <6> QED
            BY <1>1, <5>1, <6>2, <6>3
        <5>3. i - Len(s) \in 1 .. Len(x) /\ Len(s) + (i - Len(s)) = i
          BY <1>1, <5>2
        <5>4. x[i - Len(s)] = Open
          BY <1>1, <5>1, <5>3
        <5>5. i - Len(s) = 1
          BY <2>1, <5>3, <5>4 DEF Tagged
        <5>6. t[Len(s) + 1] = Open
          BY <1>1, <5>1, <5>5
        <5>7. \A j \in 1 .. k : t[j] # Open
          BY <1>1, <3>1, <4>2 DEF Before
        <5> QED
          <6>1. k \in 0 .. Len(t)
            BY <1>1, <4>2
          <6> QED
            BY <4>2, <5>6, <5>7, <6>1 DEF Before
      <4> QED
        BY <1>1, <3>1, <4>1, <4>2 DEF Before
    <3>3. SubSeq(t, 1, k) = SubSeq(s, 1, k)
      <4>1. k \in Int /\ \A i \in 1 .. k : i \in 1 .. Len(s)
        BY <1>1, <3>1 DEF Before
      <4> DEFINE u == SubSeq(t, 1, k)
                 v == SubSeq(s, 1, k)
      <4>2. \A i \in 1 .. k : t[i] = s[i] /\ t[i] \in C /\ s[i] \in C
        BY <1>1, <4>1
      <4>3. /\ u \in Seq(C) /\ Len(u) = IF 1 <= k THEN k - 1 + 1 ELSE 0
            /\ \A i \in 1 .. k - 1 + 1 : u[i] = t[1 + i - 1]
        BY <4>1, <4>2, SubSeqProperties
      <4>4. /\ v \in Seq(C) /\ Len(v) = IF 1 <= k THEN k - 1 + 1 ELSE 0
            /\ \A i \in 1 .. k - 1 + 1 : v[i] = s[1 + i - 1]
        BY <4>1, <4>2, SubSeqProperties
      <4> HIDE DEF u, v
      <4>5. \A i \in 1 .. k : 1 + i - 1 = i /\ i \in 1 .. k - 1 + 1
        BY <4>1
      <4>6. \A i \in 1 .. k : u[i] = v[i]
        BY <4>2, <4>3, <4>4, <4>5
      <4>7. \A i \in 1 .. Len(u) : i \in 1 .. k
        BY <4>1, <4>3
      <4>8. u = v
        BY <4>3, <4>4, <4>6, <4>7, SeqEqual
      <4> QED
        BY <4>8 DEF u, v
    <3>4. Outside(strip, t) = Outside(strip, s)
      BY <1>1, <2>1, <3>1, <3>2, <3>3, OutsideIsBefore
    <3>5. Outside(strip, s) \in Seq(C)
      BY <2>1, OutsideType
    <3>6. vis = <<>> /\ Len(vis) = 0 /\ sent \in Nat
      BY <2>3, <2>5, <3>5
    <3>7. piece = <<>>
      BY <1>0, <3>6, SubSeqEmpty
    <3>8. Outside(strip, s) \o piece = Outside(strip, s)
      BY <3>5, <3>7, ConcatEmptySeq
    <3>9. piece \in Seq(C)
      <4>1. <<>> \in Seq(C)
        OBVIOUS
      <4> QED
        BY <3>7, <4>1
    <3> QED
      BY <3>4, <3>7, <3>8, <3>9
  <2> QED
    BY <2>4, <2>5
<1> QED
  BY <1>3, <1>4

-----------------------------------------------------------------------------
(* One stream: the engine's side s and the client's side n of it.           *)

\* Tokens have texts, and if think blocks are to be dropped, no token closes
\* one and a token that opens one does so with its first character.
Legible(C) ==
    /\ \A t \in Tokens : Text(t) \in Seq(C)
    /\ Notice \in Seq(C) /\ Strips \subseteq BOOLEAN
    /\ TRUE \in Strips => \A t \in Tokens : Tagged(Text(t))

\* What the tokens of a stream say, and what of it is to be shown.
Spoken(s) == Detokenize(s.toks)
Seen(s) == Outside(s.strip, Spoken(s))

StreamOk(C, s) ==
    /\ DOMAIN s = {"toks", "sent", "strip", "q", "done", "failed", "aborted", "at"}
    /\ s.toks \in Seq(Tokens) /\ s.q \in Seq(Seq(C))
    /\ s.strip \in BOOLEAN /\ s.done \in BOOLEAN /\ s.aborted \in BOOLEAN
    /\ s.strip => TRUE \in Strips /\ NoClose(Spoken(s))

ClientOk(C, n) ==
    DOMAIN n = {"up", "got", "end"} /\ n.got \in Seq(C) /\ n.up \in BOOLEAN

\* Nothing is lost or repeated on the way to a client that is there.
Intact(s, n) ==
    ~s.aborted => /\ s.sent = Len(Seen(s))
                  /\ n.up => n.got \o FlattenSeq(s.q) = Shown(s)

\* A clean end has nothing left to send.
Complete(s, n) ==
    n.end = "clean" /\ n.up =>
        s.at = "ended" /\ s.done /\ ~s.failed /\ ~s.aborted /\ s.q = <<>>

Fine(C, s, n) == StreamOk(C, s) /\ ClientOk(C, n) /\ Intact(s, n) /\ Complete(s, n)

\* Append as a function.
LEMMA AppendIs ==
    ASSUME NEW S, NEW s \in Seq(S), NEW e \in S
    PROVE  Append(s, e) = [i \in 1 .. Len(s) + 1 |-> IF i = Len(s) + 1 THEN e ELSE s[i]]
<1> DEFINE a == Append(s, e)
<1>1. /\ a \in Seq(S) /\ Len(a) = Len(s) + 1 /\ Len(s) \in Nat
      /\ \A i \in 1 .. Len(s) : a[i] = s[i]
      /\ a[Len(s) + 1] = e
  BY AppendProperties
<1> HIDE DEF a
<1>2. a = [i \in 1 .. Len(s) + 1 |-> a[i]]
  BY <1>1
<1>3. ASSUME NEW i \in 1 .. Len(s) + 1
      PROVE  a[i] = IF i = Len(s) + 1 THEN e ELSE s[i]
  <2>1. i = Len(s) + 1 \/ i \in 1 .. Len(s)
    BY <1>1
  <2> QED
    BY <1>1, <2>1
<1> QED
  BY <1>2, <1>3 DEF a

\* One token more is its text more.
LEMMA OneTokenMore ==
    ASSUME NEW C, Legible(C), NEW toks \in Seq(Tokens), NEW id \in Tokens
    PROVE  /\ Detokenize(toks) \in Seq(C)
           /\ Detokenize(Append(toks, id)) = Detokenize(toks) \o Text(id)
<1> DEFINE p == [i \in 1 .. Len(toks) |-> Text(toks[i])]
           q == [i \in 1 .. Len(Append(toks, id)) |-> Text(Append(toks, id)[i])]
<1>1. \A t \in Tokens : Text(t) \in Seq(C)
  BY DEF Legible
<1>2. Len(toks) \in Nat /\ \A i \in 1 .. Len(toks) : toks[i] \in Tokens
  OBVIOUS
<1>3. p \in Seq(Seq(C)) /\ Len(p) = Len(toks)
  <2>1. \A i \in 1 .. Len(toks) : Text(toks[i]) \in Seq(C)
    BY <1>1, <1>2
  <2> QED
    BY <1>2, <2>1
<1>4. /\ Len(Append(toks, id)) = Len(toks) + 1 /\ Append(toks, id)[Len(toks) + 1] = id
      /\ \A i \in 1 .. Len(toks) : Append(toks, id)[i] = toks[i]
  OBVIOUS
<1>5. q = Append(p, Text(id))
  <2> DEFINE ap == Append(p, Text(id))
  <2>1. /\ ap = [i \in 1 .. Len(p) + 1 |-> IF i = Len(p) + 1 THEN Text(id) ELSE p[i]]
    <3> HIDE DEF p
    <3>1. Text(id) \in Seq(C)
      BY <1>1
    <3> QED
      BY <1>3, <3>1, AppendIs, SMTT(30)
  <2>2. \A i \in 1 .. Len(toks) + 1 :
            q[i] = IF i = Len(toks) + 1 THEN Text(id) ELSE p[i]
    <3> SUFFICES ASSUME NEW i \in 1 .. Len(toks) + 1
                 PROVE  q[i] = IF i = Len(toks) + 1 THEN Text(id) ELSE p[i]
      OBVIOUS
    <3>1. q[i] = Text(Append(toks, id)[i])
      BY <1>4
    <3>2. CASE i = Len(toks) + 1
      BY <1>4, <3>1, <3>2
    <3>3. CASE i # Len(toks) + 1
      <4>1. i \in 1 .. Len(toks)
        BY <1>2, <3>3
      <4> QED
        BY <1>4, <3>1, <3>3, <4>1
    <3> QED
      BY <3>2, <3>3
  <2>3. q = [i \in 1 .. Len(toks) + 1 |-> q[i]]
    BY <1>4
  <2> HIDE DEF p, q, ap
  <2>4. q = ap
    BY <1>3, <2>1, <2>2, <2>3
  <2> QED
    BY <2>4 DEF ap
<1>6. Detokenize(toks) = FlattenSeq(p) /\ Detokenize(Append(toks, id)) = FlattenSeq(q)
  BY DEF Detokenize
<1> HIDE DEF p, q
<1> QED
  BY <1>1, <1>3, <1>5, <1>6, FlattenType, FlattenAppend

\* No token, no text.
LEMMA NoTokens ==
    ASSUME NEW strip \in BOOLEAN
    PROVE  /\ Detokenize(<<>>) = <<>> /\ NoClose(<<>>)
           /\ Outside(strip, <<>>) = <<>>
<1>1. Detokenize(<<>>) = <<>>
  <2>1. [i \in 1 .. Len(<<>>) |-> Text(<<>>[i])] = <<>>
    OBVIOUS
  <2> QED
    BY <2>1, FlattenEmpty DEF Detokenize
<1>2. NoClose(<<>>) /\ Before(<<>>, 0)
  BY DEF NoClose, Before
<1>3. <<>> \in Seq({}) /\ SubSeq(<<>>, 1, 0) = <<>>
  BY SubSeqEmpty
<1>4. Outside(TRUE, <<>>) = <<>>
  BY <1>2, <1>3, OutsideIsBefore
<1>5. Outside(FALSE, <<>>) = <<>>
  BY DEF Outside
<1> QED
  BY <1>1, <1>2, <1>4, <1>5

\* What is to be shown is a text.
LEMMA SeenType ==
    ASSUME NEW C, Legible(C), NEW s, StreamOk(C, s)
    PROVE  Spoken(s) \in Seq(C) /\ Seen(s) \in Seq(C)
<1>1. Spoken(s) \in Seq(C)
  <2>1. s.toks \in Seq(Tokens) /\ \E id : id \in Tokens
    BY MtpAssumption DEF StreamOk
  <2> QED
    BY <2>1, OneTokenMore DEF Spoken
<1> QED
  BY <1>1, OutsideType DEF StreamOk, Seen

\* A stream that has just been opened.
LEMMA StartFine ==
    ASSUME NEW C, NEW s, NEW n, n = NewClient,
           DOMAIN s = {"toks", "sent", "strip", "q", "done", "failed", "aborted", "at"},
           s.toks = <<>>, s.sent = 0, s.q = <<>>, s.done \in BOOLEAN, s.aborted = FALSE,
           s.strip \in BOOLEAN, s.strip => TRUE \in Strips
    PROVE  Fine(C, s, n)
<1>1. DOMAIN n = {"up", "got", "end"} /\ n.up = TRUE /\ n.got = <<>> /\ n.end = "open"
  BY DEF NewClient
<1>2. Spoken(s) = <<>> /\ Seen(s) = <<>> /\ NoClose(Spoken(s))
  BY NoTokens DEF Spoken, Seen
<1>3. Shown(s) = <<>>
  <2>1. Outside(s.strip, Detokenize(s.toks)) = <<>>
    BY <1>2 DEF Spoken, Seen
  <2>2. ~(s.toks # <<>>)
    OBVIOUS
  <2> QED
    BY <2>1, <2>2 DEF Shown
<1>4. <<>> \in Seq(C) /\ <<>> \in Seq(Seq(C)) /\ <<>> \in Seq(Tokens) /\ Len(<<>>) = 0
  OBVIOUS
<1>5. <<>> \o <<>> = <<>>
  OBVIOUS
<1>6. StreamOk(C, s)
  BY <1>2, <1>4 DEF StreamOk
<1>7. ClientOk(C, n)
  BY <1>1, <1>4 DEF ClientOk
<1>8. Intact(s, n)
  BY <1>1, <1>2, <1>3, <1>4, <1>5, FlattenEmpty DEF Intact
<1> QED
  BY <1>1, <1>6, <1>7, <1>8 DEF Fine, Complete

\* A step that leaves the text and the client alone.
LEMMA QuietFine ==
    ASSUME NEW C, NEW s, NEW n, Fine(C, s, n), NEW t, DOMAIN t = DOMAIN s,
           t.toks = s.toks, t.sent = s.sent, t.strip = s.strip, t.q = s.q, t.done = s.done,
           t.aborted \in BOOLEAN, s.aborted => t.aborted, Complete(t, n)
    PROVE  Fine(C, t, n)
<1>1. Spoken(t) = Spoken(s) /\ Seen(t) = Seen(s) /\ Shown(t) = Shown(s)
  BY DEF Spoken, Seen, Shown
<1>2. StreamOk(C, t)
  BY <1>1 DEF Fine, StreamOk
<1>3. Intact(t, n)
  BY <1>1 DEF Fine, Intact
<1> QED
  BY <1>2, <1>3 DEF Fine

\* The filter does not throw on a text that closes no block.
LEMMA TextNeverThrows ==
    ASSUME NEW C, NEW strip \in BOOLEAN, NEW v \in Seq(C), strip => NoClose(v)
    PROVE  ~Throws(strip, v)
<1>1. ASSUME NoClose(v) PROVE ~Scan(v).throws
  <2>1. Scan(v) = [text |-> IF NoOpen(v) THEN v ELSE <<>>, cut |-> FALSE, throws |-> FALSE]
    BY <1>1, ScanOpen
  <2> QED
    BY <2>1
<1> QED
  BY <1>1 DEF Throws

\* So it does not throw on a stream.
LEMMA NeverThrows ==
    ASSUME NEW C, Legible(C), NEW s, StreamOk(C, s)
    PROVE  ~Throws(s.strip, Detokenize(s.toks))
<1>1. s.strip \in BOOLEAN /\ Spoken(s) \in Seq(C) /\ (s.strip => NoClose(Spoken(s)))
  BY SeenType DEF StreamOk
<1> QED
  BY <1>1, TextNeverThrows DEF Spoken

\* A token is emitted.
LEMMA EmittedFine ==
    ASSUME NEW C, Legible(C), NEW s, NEW n, Fine(C, s, n), ~s.done, NEW id \in Tokens
    PROVE  /\ Fine(C, Emitted(s, id), n)
           /\ Emitted(s, id).done = s.done
           /\ ~Throws(Emitted(s, id).strip, Detokenize(Emitted(s, id).toks))
<1> DEFINE toks  == Append(s.toks, id)
           x     == Text(id)
           vis   == Visible(s.strip, Detokenize(toks))
           piece == SubSeq(vis, s.sent + 1, Len(vis))
           e     == Emitted(s, id)
<1>1. /\ DOMAIN s = {"toks", "sent", "strip", "q", "done", "failed", "aborted", "at"}
      /\ s.toks \in Seq(Tokens) /\ s.q \in Seq(Seq(C))
      /\ s.strip \in BOOLEAN /\ s.done \in BOOLEAN /\ s.aborted \in BOOLEAN
      /\ s.strip => TRUE \in Strips /\ NoClose(Spoken(s))
  BY DEF Fine, StreamOk
<1>2. /\ toks \in Seq(Tokens) /\ toks # <<>> /\ Detokenize(toks) = Spoken(s) \o x
      /\ x \in Seq(C) /\ Spoken(s) \in Seq(C)
  <2>1. \A t \in Tokens : Text(t) \in Seq(C)
    BY DEF Legible
  <2>2. toks \in Seq(Tokens) /\ toks # <<>>
    BY <1>1, AppendProperties
  <2>3. Detokenize(s.toks) \in Seq(C) /\ Detokenize(toks) = Detokenize(s.toks) \o Text(id)
    BY <1>1, OneTokenMore
  <2> QED
    BY <2>1, <2>2, <2>3 DEF Spoken
<1>3. s.strip => Tagged(x)
  BY <1>1 DEF Legible
<1>4. s.strip => NoClose(Detokenize(toks))
  BY <1>1, <1>2, <1>3, NoCloseAppend
<1>5. Detokenize(toks) \in Seq(C)
  BY <1>2, ConcatProperties
<1>7. CASE s.aborted
  <2>1. e = s
    BY <1>7 DEF Emitted
  <2>2. ~Throws(s.strip, Detokenize(s.toks))
    BY NeverThrows DEF Fine
  <2> QED
    BY <2>1, <2>2
<1>8. CASE ~s.aborted
  <2>1. s.sent = Len(Seen(s)) /\ (n.up => n.got \o FlattenSeq(s.q) = Shown(s))
    BY <1>8 DEF Fine, Intact
  <2>2. /\ piece \in Seq(C)
        /\ Outside(s.strip, Detokenize(toks)) = Seen(s) \o piece
        /\ piece # <<>> => Len(vis) = Len(Outside(s.strip, Detokenize(toks)))
    <3>1. /\ vis = Visible(s.strip, Spoken(s) \o x)
          /\ piece = Piece(s.strip, Spoken(s), x)
      BY <1>2, <2>1 DEF Seen, Piece
    <3>2. s.strip => NoClose(Spoken(s)) /\ Tagged(x)
      BY <1>1, <1>3
    <3> HIDE DEF toks, x, vis, piece
    <3>3. /\ piece \in Seq(C)
          /\ Outside(s.strip, Spoken(s) \o x) = Outside(s.strip, Spoken(s)) \o piece
          /\ piece # <<>> => Len(vis) = Len(Outside(s.strip, Spoken(s) \o x))
      <4>1. s.strip \in BOOLEAN /\ Spoken(s) \in Seq(C) /\ x \in Seq(C)
        BY <1>1, <1>2
      <4> QED
        BY <3>1, <3>2, <4>1, TextAdds, ZenonT(30)
    <3> QED
      BY <1>2, <3>3 DEF Seen
  <2>3. e = IF piece = <<>> THEN [s EXCEPT !.toks = toks]
            ELSE [s EXCEPT !.toks = toks, !.sent = Len(vis), !.q = Append(@, piece)]
    BY <1>8 DEF Emitted
  <2> HIDE DEF vis, piece, toks, e
  <2>4. /\ DOMAIN e = DOMAIN s /\ e.toks = toks /\ e.strip = s.strip /\ e.done = s.done
        /\ e.failed = s.failed /\ e.aborted = s.aborted /\ e.at = s.at
        /\ piece = <<>> => e.sent = s.sent /\ e.q = s.q
        /\ piece # <<>> => e.sent = Len(vis) /\ e.q = Append(s.q, piece)
    BY <1>1, <2>3
  <2>5. e.q \in Seq(Seq(C)) /\ FlattenSeq(e.q) = FlattenSeq(s.q) \o piece
    <3>1. CASE piece = <<>>
      <4>1. FlattenSeq(s.q) \in Seq(C)
        BY <1>1, FlattenType
      <4> QED
        BY <1>1, <2>4, <3>1, <4>1, ConcatEmptySeq
    <3>2. CASE piece # <<>>
      <4>1. Append(s.q, piece) \in Seq(Seq(C))
        BY <1>1, <2>2, AppendProperties
      <4> QED
        BY <1>1, <2>2, <2>4, <3>2, <4>1, FlattenAppend
    <3> QED
      BY <3>1, <3>2
  <2>6. StreamOk(C, e)
    BY <1>1, <1>2, <1>4, <2>4, <2>5 DEF StreamOk, Spoken
  <2>7. Seen(e) = Seen(s) \o piece /\ Seen(s) \in Seq(C)
    <3>1. Seen(s) \in Seq(C)
      BY SeenType DEF Fine
    <3> QED
      BY <2>2, <2>4, <3>1 DEF Seen, Spoken
  <2>8. e.sent = Len(Seen(e))
    <3>1. CASE piece = <<>>
      BY <2>1, <2>4, <2>7, <3>1, ConcatEmptySeq
    <3>2. CASE piece # <<>>
      BY <2>2, <2>4, <3>2 DEF Seen, Spoken
    <3> QED
      BY <3>1, <3>2
  <2>9. Shown(s) = Seen(s) /\ Shown(e) = Seen(e)
    BY <2>4 DEF Shown, Seen, Spoken
  <2>10. ASSUME n.up PROVE n.got \o FlattenSeq(e.q) = Shown(e)
    <3>1. n.got \in Seq(C) /\ FlattenSeq(s.q) \in Seq(C)
      BY <1>1, FlattenType DEF Fine, ClientOk
    <3>2. (n.got \o FlattenSeq(s.q)) \o piece = n.got \o (FlattenSeq(s.q) \o piece)
      <4>1. \A x1, x2, x3 \in Seq(C) : (x1 \o x2) \o x3 = x1 \o (x2 \o x3)
        BY TextAssociative
      <4> QED
        BY <2>2, <3>1, <4>1, Zenon
    <3> QED
      BY <2>1, <2>5, <2>7, <2>9, <2>10, <3>2
  <2>11. Intact(e, n)
    BY <2>8, <2>10 DEF Intact
  <2>12. Complete(e, n)
    BY DEF Fine, Complete
  <2>13. ~Throws(e.strip, Detokenize(e.toks))
    BY <2>6, NeverThrows
  <2> QED
    BY <2>4, <2>6, <2>11, <2>12, <2>13 DEF Fine, e
<1> QED
  BY <1>1, <1>7, <1>8

\* The job ends, with the notice if nothing became visible.
LEMMA FinishedFine ==
    ASSUME NEW C, Legible(C), NEW s, NEW n, Fine(C, s, n), ~s.done, NEW ok
    PROVE  Fine(C, Finished(s, ok), n) /\ Finished(s, ok).done
<1> DEFINE f == Finished(s, ok)
<1>1. /\ DOMAIN s = {"toks", "sent", "strip", "q", "done", "failed", "aborted", "at"}
      /\ s.toks \in Seq(Tokens) /\ s.q \in Seq(Seq(C)) /\ s.strip \in BOOLEAN
      /\ s.aborted \in BOOLEAN
  BY DEF Fine, StreamOk
<1>2. /\ DOMAIN f = DOMAIN s /\ f.toks = s.toks /\ f.strip = s.strip /\ f.sent = s.sent
      /\ f.aborted = s.aborted /\ f.done = TRUE
      /\ f.q = IF TruncatedInThink(s) THEN Append(s.q, Notice) ELSE s.q
  BY <1>1 DEF Finished
<1> HIDE DEF f
<1>3. Spoken(f) = Spoken(s) /\ Seen(f) = Seen(s) /\ Seen(s) \in Seq(C)
  BY <1>2, SeenType DEF Spoken, Seen, Fine
<1>4. Notice \in Seq(C) /\ FlattenSeq(s.q) \in Seq(C)
  BY <1>1, FlattenType DEF Legible
<1>5. f.q \in Seq(Seq(C))
  BY <1>1, <1>2, <1>4, AppendProperties
<1>6. StreamOk(C, f)
  BY <1>2, <1>3, <1>5 DEF Fine, StreamOk
<1>7. ASSUME ~s.aborted
      PROVE  /\ f.sent = Len(Seen(f))
             /\ n.up => n.got \o FlattenSeq(f.q) = Shown(f)
  <2>1. s.sent = Len(Seen(s)) /\ (n.up => n.got \o FlattenSeq(s.q) = Shown(s))
    BY <1>7 DEF Fine, Intact
  <2>2. Shown(s) = Seen(s)
    BY DEF Shown, Seen, Spoken
  <2>3. Shown(f) = IF s.strip /\ s.toks # <<>> /\ Seen(s) = <<>> THEN Notice ELSE Seen(s)
    BY <1>2, <1>3 DEF Shown, Seen, Spoken
  <2>4. TruncatedInThink(s) <=> s.strip /\ s.toks # <<>> /\ Seen(s) = <<>>
    <3>1. s.sent = 0 <=> Seen(s) = <<>>
      BY <1>3, <2>1
    <3> QED
      BY <3>1 DEF TruncatedInThink
  <2>5. ASSUME n.up PROVE n.got \o FlattenSeq(f.q) = Shown(f)
    <3>1. n.got \in Seq(C)
      BY DEF Fine, ClientOk
    <3>2. CASE ~TruncatedInThink(s)
      BY <1>2, <2>1, <2>2, <2>3, <2>4, <2>5, <3>2
    <3>3. CASE TruncatedInThink(s)
      <4>1. FlattenSeq(f.q) = FlattenSeq(s.q) \o Notice
        BY <1>1, <1>2, <1>4, <3>3, FlattenAppend
      <4>2. n.got \o FlattenSeq(s.q) = <<>>
        BY <2>1, <2>2, <2>4, <2>5, <3>3
      <4>3. (n.got \o FlattenSeq(s.q)) \o Notice = n.got \o (FlattenSeq(s.q) \o Notice)
        <5>1. \A x1, x2, x3 \in Seq(C) : (x1 \o x2) \o x3 = x1 \o (x2 \o x3)
          BY TextAssociative
        <5> QED
          BY <1>4, <3>1, <5>1, Zenon
      <4>4. <<>> \o Notice = Notice
        BY <1>4, ConcatEmptySeq
      <4> QED
        BY <2>3, <2>4, <3>3, <4>1, <4>2, <4>3, <4>4
    <3> QED
      BY <3>2, <3>3
  <2> QED
    BY <1>2, <1>3, <2>1, <2>5
<1>8. Intact(f, n)
  BY <1>2, <1>7 DEF Intact
<1>9. Complete(f, n)
  BY DEF Fine, Complete
<1> QED
  BY <1>2, <1>6, <1>8, <1>9 DEF Fine, f

\* A piece is written to the client, if it is there.
LEMMA PieceFine ==
    ASSUME NEW C, NEW s, NEW n, Fine(C, s, n), s.at = "pull", s.q # <<>>,
           NEW written \in BOOLEAN, n.up => written
    PROVE  Fine(C, [s EXCEPT !.q = Tail(@), !.aborted = @ \/ ~written],
                   [n EXCEPT !.got = IF n.up THEN @ \o Head(s.q) ELSE @])
<1> DEFINE t == [s EXCEPT !.q = Tail(@), !.aborted = @ \/ ~written]
           m == [n EXCEPT !.got = IF n.up THEN @ \o Head(s.q) ELSE @]
<1>1. /\ DOMAIN s = {"toks", "sent", "strip", "q", "done", "failed", "aborted", "at"}
      /\ s.q \in Seq(Seq(C)) /\ s.aborted \in BOOLEAN
      /\ DOMAIN n = {"up", "got", "end"} /\ n.got \in Seq(C) /\ n.up \in BOOLEAN
  BY DEF Fine, StreamOk, ClientOk
<1>2. /\ DOMAIN t = DOMAIN s /\ t.toks = s.toks /\ t.sent = s.sent /\ t.strip = s.strip
      /\ t.q = Tail(s.q) /\ t.done = s.done /\ t.failed = s.failed /\ t.at = s.at
      /\ t.aborted = (s.aborted \/ ~written)
  BY <1>1
<1>3. /\ DOMAIN m = DOMAIN n /\ m.up = n.up /\ m.end = n.end
      /\ m.got = IF n.up THEN n.got \o Head(s.q) ELSE n.got
  BY <1>1
<1> HIDE DEF t, m
<1>4. /\ Head(s.q) \in Seq(C) /\ Tail(s.q) \in Seq(Seq(C))
      /\ FlattenSeq(s.q) = Head(s.q) \o FlattenSeq(Tail(s.q))
  BY <1>1, HeadTailProperties, FlattenHead
<1>5. Spoken(t) = Spoken(s) /\ Seen(t) = Seen(s) /\ Shown(t) = Shown(s)
  BY <1>2 DEF Spoken, Seen, Shown
<1>6. StreamOk(C, t)
  BY <1>1, <1>2, <1>4, <1>5 DEF Fine, StreamOk
<1>7. ClientOk(C, m)
  BY <1>1, <1>3, <1>4, ConcatProperties DEF ClientOk
<1>8. Intact(t, m)
  <2> SUFFICES ASSUME ~t.aborted
               PROVE  t.sent = Len(Seen(t)) /\ (m.up => m.got \o FlattenSeq(t.q) = Shown(t))
    BY DEF Intact
  <2>1. ~s.aborted
    BY <1>2
  <2>2. s.sent = Len(Seen(s)) /\ (n.up => n.got \o FlattenSeq(s.q) = Shown(s))
    BY <2>1 DEF Fine, Intact
  <2>3. FlattenSeq(Tail(s.q)) \in Seq(C)
    BY <1>4, FlattenType
  <2>4. (n.got \o Head(s.q)) \o FlattenSeq(Tail(s.q))
            = n.got \o (Head(s.q) \o FlattenSeq(Tail(s.q)))
    <3>1. \A x1, x2, x3 \in Seq(C) : (x1 \o x2) \o x3 = x1 \o (x2 \o x3)
      BY TextAssociative
    <3>2. n.got \in Seq(C) /\ Head(s.q) \in Seq(C)
      BY <1>1, <1>4
    <3> QED
      BY <2>3, <3>1, <3>2, Zenon
  <2> QED
    BY <1>2, <1>3, <1>4, <1>5, <2>2, <2>4
<1>9. Complete(t, m)
  BY <1>3 DEF Fine, Complete
<1> QED
  BY <1>6, <1>7, <1>8, <1>9 DEF Fine, t, m

-----------------------------------------------------------------------------
(* All streams and the queue of jobs.                                       *)

\* A job that waits or runs is of a stream that is not done, and each stream
\* has one job.
JobsOk ==
    /\ jobs \in Seq(Reqs)
    /\ \A i \in 1 .. Len(jobs) : ~st[jobs[i]].done
    /\ \A i, j \in 1 .. Len(jobs) : jobs[i] = jobs[j] => i = j
    /\ cur # Nobody => /\ cur \in Reqs /\ ~st[cur].done
                       /\ \A i \in 1 .. Len(jobs) : jobs[i] # cur

AnswerInv(C) ==
    /\ DOMAIN st = Reqs /\ DOMAIN net = Reqs
    /\ \A r \in Reqs : Fine(C, st[r], net[r])
    /\ JobsOk /\ ~crashed

\* It is what the properties say, and more.
LEMMA AnswerInvIsEnough ==
    ASSUME NEW C, Legible(C), AnswerInv(C)
    PROVE  AnswerIntact /\ CleanIsComplete
<1>1. AnswerIntact
  BY DEF AnswerInv, Fine, Intact, AnswerIntact
<1>2. ASSUME NEW r \in Reqs, net[r].end = "clean", net[r].up
      PROVE  st[r].done /\ ~st[r].failed /\ net[r].got = Shown(st[r])
  <2>1. st[r].done /\ ~st[r].failed /\ ~st[r].aborted /\ st[r].q = <<>>
    BY <1>2 DEF AnswerInv, Fine, Complete
  <2>2. net[r].got \o FlattenSeq(st[r].q) = Shown(st[r]) /\ net[r].got \in Seq(C)
    BY <1>2, <2>1 DEF AnswerInv, Fine, Intact, ClientOk
  <2>3. net[r].got \o <<>> = net[r].got
    BY <2>2, ConcatEmptySeq
  <2> QED
    BY <2>1, <2>2, <2>3, FlattenEmpty
<1> QED
  BY <1>1, <1>2 DEF CleanIsComplete

\* No stream is open yet.
LEMMA AnswerInit ==
    ASSUME NEW C, Legible(C), Init
    PROVE  AnswerInv(C)
<1>1. /\ DOMAIN st = Reqs /\ DOMAIN net = Reqs /\ jobs = <<>> /\ cur = Nobody /\ crashed = FALSE
  BY DEF Init, StreamsInit
<1>2. ASSUME NEW r \in Reqs PROVE Fine(C, st[r], net[r])
  <2> DEFINE s == [NewStream(FALSE) EXCEPT !.at = "ended", !.done = TRUE]
  <2>1. st[r] = s /\ net[r] = NewClient
    BY DEF Init, StreamsInit
  <2>2. /\ DOMAIN s = {"toks", "sent", "strip", "q", "done", "failed", "aborted", "at"}
        /\ s.toks = <<>> /\ s.sent = 0 /\ s.q = <<>> /\ s.done = TRUE /\ s.aborted = FALSE
        /\ s.strip = FALSE
    BY DEF NewStream
  <2> HIDE DEF s
  <2> QED
    BY <2>1, <2>2, StartFine
<1>3. JobsOk
  BY <1>1 DEF JobsOk
<1> QED
  BY <1>1, <1>2, <1>3 DEF AnswerInv

\* A step that touches one stream at most, and no jobs.
LEMMA OneStreamMoves ==
    ASSUME NEW C, AnswerInv(C), UNCHANGED <<jobs, cur>>, ~crashed', NEW r \in Reqs,
           DOMAIN st' = Reqs, DOMAIN net' = Reqs,
           \A o \in Reqs : o # r => st'[o] = st[o] /\ net'[o] = net[o],
           Fine(C, st'[r], net'[r]), st'[r].done = st[r].done
    PROVE  AnswerInv(C)'
<1>1. \A o \in Reqs : Fine(C, st'[o], net'[o]) /\ st'[o].done = st[o].done
  BY DEF AnswerInv
<1>2. JobsOk'
  <2>1. \A i \in 1 .. Len(jobs) : jobs[i] \in Reqs
    BY DEF AnswerInv, JobsOk
  <2> QED
    BY <1>1, <2>1 DEF AnswerInv, JobsOk
<1> QED
  BY <1>1, <1>2 DEF AnswerInv

\* A request is submitted: its stream is new and its job the last.
LEMMA SubmitStep ==
    ASSUME NEW C, Legible(C), AnswerInv(C), NEW r \in Reqs, NEW strip \in Strips,
           Submit(r, strip)
    PROVE  AnswerInv(C)'
<1>1. /\ st[r].done /\ st' = [st EXCEPT ![r] = NewStream(strip)]
      /\ net' = [net EXCEPT ![r] = NewClient] /\ jobs' = Append(jobs, r)
      /\ UNCHANGED <<cur, crashed>>
  BY DEF Submit, OpenStream, Over
<1>2. /\ DOMAIN st = Reqs /\ DOMAIN net = Reqs /\ JobsOk /\ ~crashed
      /\ \A o \in Reqs : Fine(C, st[o], net[o])
  BY DEF AnswerInv
<1>3. /\ DOMAIN st' = Reqs /\ DOMAIN net' = Reqs
      /\ st'[r] = NewStream(strip) /\ net'[r] = NewClient
      /\ \A o \in Reqs : o # r => st'[o] = st[o] /\ net'[o] = net[o]
  BY <1>1, <1>2
<1>4. Fine(C, st'[r], net'[r]) /\ ~st'[r].done
  <2> DEFINE s == NewStream(strip)
  <2>1. strip \in BOOLEAN
    BY DEF Legible
  <2>2. /\ DOMAIN s = {"toks", "sent", "strip", "q", "done", "failed", "aborted", "at"}
        /\ s.toks = <<>> /\ s.sent = 0 /\ s.q = <<>> /\ s.done = FALSE /\ s.aborted = FALSE
        /\ s.strip = strip
    BY DEF NewStream
  <2> HIDE DEF s
  <2>3. Fine(C, s, NewClient)
    BY <2>1, <2>2, StartFine
  <2> QED
    BY <1>3, <2>2, <2>3 DEF s
<1>5. JobsOk'
  <2>1. jobs \in Seq(Reqs) /\ Len(jobs) \in Nat
    BY <1>2 DEF JobsOk
  <2>2. /\ jobs' \in Seq(Reqs) /\ Len(jobs') = Len(jobs) + 1 /\ jobs'[Len(jobs) + 1] = r
        /\ \A i \in 1 .. Len(jobs) : jobs'[i] = jobs[i]
    BY <1>1, <2>1, AppendProperties
  <2>3. \A i \in 1 .. Len(jobs) : jobs[i] \in Reqs /\ jobs[i] # r /\ ~st[jobs[i]].done
    BY <1>1, <1>2, <2>1 DEF JobsOk
  <2>4. \A i \in 1 .. Len(jobs') : i \in 1 .. Len(jobs) \/ i = Len(jobs) + 1
    BY <2>1, <2>2
  <2>5. \A i \in 1 .. Len(jobs') : ~st'[jobs'[i]].done
    BY <1>3, <1>4, <2>2, <2>3, <2>4
  <2>6. \A i, j \in 1 .. Len(jobs') : jobs'[i] = jobs'[j] => i = j
    BY <1>2, <2>2, <2>3, <2>4 DEF JobsOk
  <2>7. ASSUME cur # Nobody
        PROVE  /\ cur \in Reqs /\ ~st'[cur].done
               /\ \A i \in 1 .. Len(jobs') : jobs'[i] # cur
    <3>1. cur \in Reqs /\ ~st[cur].done /\ \A i \in 1 .. Len(jobs) : jobs[i] # cur
      BY <1>2, <2>7 DEF JobsOk
    <3>2. cur # r
      BY <1>1, <3>1
    <3> QED
      BY <1>3, <2>2, <2>4, <3>1, <3>2
  <2> QED
    BY <1>1, <2>2, <2>5, <2>6, <2>7 DEF JobsOk
<1> QED
  BY <1>1, <1>2, <1>3, <1>4, <1>5 DEF AnswerInv

\* The engine thread takes the first job.
LEMMA TakeJobStep ==
    ASSUME NEW C, AnswerInv(C), NEW p, NEW n, TakeJob(p, n)
    PROVE  AnswerInv(C)'
<1>1. /\ UNCHANGED <<st, net, crashed>> /\ jobs # <<>>
      /\ cur' = Head(jobs) /\ jobs' = Tail(jobs)
  BY DEF TakeJob, streamVars
<1>2. jobs \in Seq(Reqs) /\ JobsOk
  BY DEF AnswerInv, JobsOk
<1>3. /\ Head(jobs) = jobs[1] /\ jobs' \in Seq(Reqs) /\ Len(jobs') = Len(jobs) - 1
      /\ \A i \in 1 .. Len(jobs') : jobs'[i] = jobs[i + 1]
      /\ Len(jobs) \in Nat /\ Len(jobs) >= 1
  <2>1. Head(jobs) = jobs[1] /\ Len(jobs) \in Nat /\ Len(jobs) >= 1
    BY <1>1, <1>2
  <2> QED
    BY <1>1, <1>2, <2>1, HeadTailProperties
<1>4. /\ 1 \in 1 .. Len(jobs)
      /\ \A i \in 1 .. Len(jobs') : i \in Int /\ i + 1 \in 1 .. Len(jobs) /\ i + 1 # 1
  BY <1>3
<1>5. \A i, j \in 1 .. Len(jobs') : jobs'[i] = jobs'[j] => i = j
  <2> SUFFICES ASSUME NEW i \in 1 .. Len(jobs'), NEW j \in 1 .. Len(jobs'), jobs'[i] = jobs'[j]
               PROVE  i = j
    OBVIOUS
  <2>1. i + 1 = j + 1
    BY <1>2, <1>3, <1>4 DEF JobsOk
  <2> QED
    BY <1>4, <2>1
<1>6. jobs[1] \in Reqs /\ ~st[jobs[1]].done
  BY <1>2, <1>4 DEF JobsOk
<1>7. \A i \in 1 .. Len(jobs') : ~st[jobs'[i]].done /\ jobs'[i] # jobs[1]
  BY <1>2, <1>3, <1>4 DEF JobsOk
<1>8. JobsOk'
  BY <1>1, <1>3, <1>5, <1>6, <1>7 DEF JobsOk
<1> QED
  BY <1>1, <1>8 DEF AnswerInv

\* A sampled token goes into the stream of the job that runs.
LEMMA EmitStep ==
    ASSUME NEW C, Legible(C), AnswerInv(C), EmitToken, idLast' \in Tokens
    PROVE  AnswerInv(C)'
<1>1. cur \in Reqs /\ ~st[cur].done /\ Fine(C, st[cur], net[cur]) /\ DOMAIN st = Reqs
  BY DEF EmitToken, AnswerInv, JobsOk
<1>2. /\ UNCHANGED <<net, jobs, cur>>
      /\ crashed' = Throws(st'[cur].strip, Detokenize(st'[cur].toks))
      /\ st' = st \/ st' = [st EXCEPT ![cur] = Emitted(@, idLast')]
  BY DEF EmitToken
<1>3. /\ DOMAIN st' = Reqs /\ \A o \in Reqs : o # cur => st'[o] = st[o]
      /\ st'[cur] = st[cur] \/ st'[cur] = Emitted(st[cur], idLast')
  BY <1>1, <1>2
<1>4. /\ Fine(C, st'[cur], net[cur]) /\ st'[cur].done = st[cur].done
      /\ ~Throws(st'[cur].strip, Detokenize(st'[cur].toks))
  <2>1. CASE st'[cur] = Emitted(st[cur], idLast')
    BY <1>1, <2>1, EmittedFine
  <2>2. CASE st'[cur] = st[cur]
    <3>1. ~Throws(st[cur].strip, Detokenize(st[cur].toks))
      BY <1>1, NeverThrows DEF Fine
    <3> QED
      BY <1>1, <2>2, <3>1
  <2> QED
    BY <1>3, <2>1, <2>2
<1>5. ~crashed'
  BY <1>2, <1>4
<1> QED
  BY <1>1, <1>2, <1>3, <1>4, <1>5, OneStreamMoves DEF AnswerInv

\* The job that runs ends.
LEMMA FinishStep ==
    ASSUME NEW C, Legible(C), AnswerInv(C), FinishJob
    PROVE  AnswerInv(C)'
<1>1. cur \in Reqs /\ ~st[cur].done /\ Fine(C, st[cur], net[cur]) /\ DOMAIN st = Reqs
  BY DEF FinishJob, AnswerInv, JobsOk
<1>2. /\ UNCHANGED <<net, jobs, crashed>> /\ cur' = Nobody
      /\ st' = [st EXCEPT ![cur] = Finished(@, ~Failed)]
  BY DEF FinishJob
<1>3. /\ DOMAIN st' = Reqs /\ \A o \in Reqs : o # cur => st'[o] = st[o]
      /\ Fine(C, st'[cur], net[cur])
  <2>1. Fine(C, Finished(st[cur], ~Failed), net[cur])
    BY <1>1, FinishedFine
  <2> QED
    BY <1>1, <1>2, <2>1
<1>4. JobsOk'
  <2>1. \A i \in 1 .. Len(jobs) : jobs[i] \in Reqs /\ jobs[i] # cur /\ ~st[jobs[i]].done
    BY DEF FinishJob, AnswerInv, JobsOk
  <2>2. \A i \in 1 .. Len(jobs) : ~st'[jobs[i]].done
    BY <1>3, <2>1
  <2> QED
    BY <1>2, <2>2 DEF AnswerInv, JobsOk
<1> QED
  BY <1>2, <1>3, <1>4 DEF AnswerInv

\* The HTTP thread's step: a header, a piece, a look at the peer, or the end.
LEMMA ProvideStep ==
    ASSUME NEW C, AnswerInv(C), NEW r \in Reqs, Provide(r)
    PROVE  AnswerInv(C)'
<1> DEFINE s == st[r]
           n == net[r]
<1>1. /\ UNCHANGED <<jobs, cur>> /\ ~crashed' /\ DOMAIN st = Reqs /\ DOMAIN net = Reqs
      /\ Fine(C, s, n)
  BY DEF Provide, AnswerInv
<1>2. /\ DOMAIN s = {"toks", "sent", "strip", "q", "done", "failed", "aborted", "at"}
      /\ DOMAIN n = {"up", "got", "end"} /\ n.up \in BOOLEAN /\ s.aborted \in BOOLEAN
      /\ Complete(s, n)
  BY <1>1 DEF Fine, StreamOk, ClientOk
<1>3. Writes(r) \subseteq BOOLEAN /\ \A written \in Writes(r) : n.up => written
  BY DEF Writes
<1>4. ASSUME NEW t, NEW m, st' = [st EXCEPT ![r] = t],
             net' = [net EXCEPT ![r] = m] \/ (net' = net /\ m = n),
             Fine(C, t, m), t.done = s.done
      PROVE  AnswerInv(C)'
  <2>1. /\ DOMAIN st' = Reqs /\ DOMAIN net' = Reqs /\ st'[r] = t /\ net'[r] = m
        /\ \A o \in Reqs : o # r => st'[o] = st[o] /\ net'[o] = net[o]
    BY <1>1, <1>4
  <2> QED
    BY <1>1, <1>4, <2>1, OneStreamMoves
<1>5. CASE SendHeader(r)
  <2>1. PICK written \in Writes(r) :
            st' = [st EXCEPT ![r].at = IF written THEN "pull" ELSE "ended",
                             ![r].aborted = @ \/ ~written]
    BY <1>5 DEF SendHeader
  <2> DEFINE t == [s EXCEPT !.at = IF written THEN "pull" ELSE "ended",
                            !.aborted = @ \/ ~written]
  <2>2. st' = [st EXCEPT ![r] = t] /\ UNCHANGED net /\ s.at = "header"
    BY <1>1, <1>5, <2>1 DEF SendHeader
  <2>3. /\ DOMAIN t = DOMAIN s /\ t.toks = s.toks /\ t.sent = s.sent /\ t.strip = s.strip
        /\ t.q = s.q /\ t.done = s.done /\ t.failed = s.failed
        /\ t.aborted = (s.aborted \/ ~written)
    BY <1>2
  <2> HIDE DEF t
  <2>4. t.aborted \in BOOLEAN /\ (s.aborted => t.aborted)
    BY <1>2, <2>3
  <2>5. Complete(t, n)
    BY <1>2, <1>3, <2>1, <2>2, <2>3 DEF Complete
  <2>6. Fine(C, t, n)
    BY <1>1, <2>3, <2>4, <2>5, QuietFine
  <2> QED
    BY <1>4, <2>2, <2>3, <2>6
<1>6. CASE SendPiece(r)
  <2>1. PICK written \in Writes(r) :
            st' = [st EXCEPT ![r].q = Tail(@), ![r].aborted = @ \/ ~written]
    BY <1>6 DEF SendPiece
  <2> DEFINE t == [s EXCEPT !.q = Tail(@), !.aborted = @ \/ ~written]
             m == [n EXCEPT !.got = IF n.up THEN @ \o Head(s.q) ELSE @]
  <2>2. st' = [st EXCEPT ![r] = t] /\ net' = [net EXCEPT ![r] = m] /\ s.at = "pull" /\ s.q # <<>>
    BY <1>1, <1>6, <2>1 DEF SendPiece
  <2>3. t.done = s.done
    BY <1>2
  <2>4. written \in BOOLEAN /\ (n.up => written)
    BY <1>3
  <2>5. Fine(C, t, m)
    BY <1>1, <2>2, <2>4, PieceFine
  <2> HIDE DEF t, m
  <2> QED
    BY <1>4, <2>2, <2>3, <2>5
<1>7. CASE PullTimeout(r)
  <2> DEFINE t == [s EXCEPT !.at = "ended", !.aborted = TRUE]
  <2>1. st' = [st EXCEPT ![r] = t] /\ UNCHANGED net /\ ~n.up
    BY <1>1, <1>7 DEF PullTimeout
  <2>2. /\ DOMAIN t = DOMAIN s /\ t.toks = s.toks /\ t.sent = s.sent /\ t.strip = s.strip
        /\ t.q = s.q /\ t.done = s.done /\ t.failed = s.failed /\ t.aborted = TRUE
    BY <1>2
  <2> HIDE DEF t
  <2>3. Complete(t, n)
    BY <1>2, <1>7, <2>1, <2>2 DEF Complete, PullTimeout
  <2>4. Fine(C, t, n)
    BY <1>1, <2>2, <2>3, QuietFine
  <2> QED
    BY <1>4, <2>1, <2>2, <2>4
<1>8. CASE Drained(r)
  <2> DEFINE t == [s EXCEPT !.at = "ended"]
             m == [n EXCEPT !.end = IF ~s.failed /\ ~s.aborted THEN "clean" ELSE "cut"]
  <2>1. /\ st' = [st EXCEPT ![r] = t] /\ net' = [net EXCEPT ![r] = m] /\ s.q = <<>>
        /\ s.done \/ s.aborted
    BY <1>1, <1>8 DEF Drained
  <2>2. /\ DOMAIN t = DOMAIN s /\ t.toks = s.toks /\ t.sent = s.sent /\ t.strip = s.strip
        /\ t.q = s.q /\ t.done = s.done /\ t.failed = s.failed /\ t.aborted = s.aborted
        /\ t.at = "ended"
    BY <1>2
  <2>3. /\ DOMAIN m = DOMAIN n /\ m.up = n.up /\ m.got = n.got
        /\ m.end = IF ~s.failed /\ ~s.aborted THEN "clean" ELSE "cut"
    BY <1>2
  <2> HIDE DEF t, m
  <2>4. Spoken(t) = Spoken(s) /\ Seen(t) = Seen(s) /\ Shown(t) = Shown(s)
    BY <2>2 DEF Spoken, Seen, Shown
  <2>5. StreamOk(C, t) /\ ClientOk(C, m)
    BY <1>1, <2>2, <2>3, <2>4 DEF Fine, StreamOk, ClientOk
  <2>6. Intact(t, m)
    BY <1>1, <2>2, <2>3, <2>4 DEF Fine, Intact
  <2>7. Complete(t, m)
    BY <2>1, <2>2, <2>3 DEF Complete
  <2>8. Fine(C, t, m)
    BY <2>5, <2>6, <2>7 DEF Fine
  <2> QED
    BY <1>4, <2>1, <2>2, <2>8
<1> QED
  BY <1>5, <1>6, <1>7, <1>8 DEF Provide, Provider

\* The client closes the connection.
LEMMA LeaveStep ==
    ASSUME NEW C, AnswerInv(C), NEW r \in Reqs, Leave(r)
    PROVE  AnswerInv(C)'
<1> DEFINE s == st[r]
           n == net[r]
           m == [n EXCEPT !.up = FALSE]
<1>1. /\ UNCHANGED <<jobs, cur, st>> /\ ~crashed' /\ DOMAIN st = Reqs /\ DOMAIN net = Reqs
      /\ Fine(C, s, n) /\ net' = [net EXCEPT ![r].up = FALSE]
  BY DEF Leave, ClientLeaves, AnswerInv
<1>2. /\ DOMAIN net' = Reqs /\ net'[r] = m
      /\ \A o \in Reqs : o # r => net'[o] = net[o]
  BY <1>1
<1>3. DOMAIN m = DOMAIN n /\ ~m.up /\ m.up \in BOOLEAN /\ m.got = n.got /\ m.end = n.end
  BY <1>1 DEF Fine, ClientOk
<1> HIDE DEF m
<1>4. ClientOk(C, m) /\ Intact(s, m) /\ Complete(s, m)
  BY <1>1, <1>3 DEF Fine, ClientOk, Intact, Complete
<1>5. Fine(C, s, m)
  BY <1>1, <1>4 DEF Fine
<1> QED
  BY <1>1, <1>2, <1>5, OneStreamMoves

\* One step of the server.
LEMMA AnswerStep ==
    ASSUME NEW C, Legible(C), AnswerInv(C), MtpTypeOK', [Next]_vars
    PROVE  AnswerInv(C)'
<1>1. CASE \E r \in Reqs, strip \in Strips : Submit(r, strip)
  BY <1>1, SubmitStep
<1>2. CASE \E p \in Prompts, n \in NGen : TakeJob(p, n)
  BY <1>2, TakeJobStep
<1>3. CASE EmitToken
  <2>1. idLast' \in Tokens
    BY DEF MtpTypeOK
  <2> QED
    BY <1>3, <2>1, EmitStep
<1>4. CASE FinishJob
  BY <1>4, FinishStep
<1>5. CASE \E r \in Reqs : Provide(r) \/ Leave(r)
  BY <1>5, ProvideStep, LeaveStep
<1>6. CASE UNCHANGED <<streamVars, jobs, cur, crashed>>
  BY <1>6 DEF streamVars, AnswerInv, JobsOk
<1> QED
  BY <1>1, <1>2, <1>3, <1>4, <1>5, <1>6 DEF Next, Engine, GoesOn, Internal, Stops, vars

\* The inductive invariant of the streamed answers.
LEMMA AnswersHold ==
    ASSUME NEW C, Legible(C)
    PROVE  Spec => [](AnswerIntact /\ CleanIsComplete)
<1>1. Init => AnswerInv(C)
  BY AnswerInit
<1>2. AnswerInv(C) /\ MtpTypeOK' /\ [Next]_vars => AnswerInv(C)'
  BY AnswerStep
<1>3. AnswerInv(C) => AnswerIntact /\ CleanIsComplete
  BY AnswerInvIsEnough
<1>4. Spec => []MtpTypeOK
  BY ServesTheLoop, MtpTypeCorrect, PTL
<1>5. QED
  BY <1>1, <1>2, <1>3, <1>4, PTL DEF Spec

\* As long as no text closes a think block that is stripped, a client that
\* stays connected is sent exactly the visible text of its tokens, in order,
\* whatever the interleaving of the emitter, the queue and the provider, and
\* the filter never throws (cne-server.cpp:257).
THEOREM AnswersIntact ==
    ASSUME NEW C, Legible(C)
    PROVE  Spec => []AnswerIntact
BY AnswersHold, PTL

\* Under the same condition [DONE] is sent only behind the whole answer of a
\* job that succeeded.
THEOREM CleanEndsComplete ==
    ASSUME NEW C, Legible(C)
    PROVE  Spec => []CleanIsComplete
BY AnswersHold, PTL
=============================================================================
