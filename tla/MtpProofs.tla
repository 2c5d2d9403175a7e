----------------------------- MODULE MtpProofs -----------------------------
(***************************************************************************)
(* Proofs about the speculative loop for any vocabulary, target model,     *)
(* drafts, prompts, budgets and context size: types, what every round      *)
(* starts from, and that speculation is lossless.                          *)
(***************************************************************************)
EXTENDS Mtp, TLAPS, SequenceTheorems, WellFoundedInduction

\* A memory whose cells and recurrent state agree.
Mem(s) == [attn |-> s, state |-> s]

\* The conversation up to and with id_last.
Said == Append(promptTgt, idLast)

\* s continues c as the target itself would.
Path(c, s) == \A i \in 1 .. Len(s) : s[i] = Target(c \o SubSeq(s, 1, i - 1))

-----------------------------------------------------------------------------
(* Sequences and memories.                                                 *)

\* The target's best token is a token.
LEMMA TargetType ==
    ASSUME NEW c \in Seq(Tokens), Len(c) <= NCtx
    PROVE  Target(c) \in Tokens
<1>1. Len(c) \in 0 .. NCtx /\ c \in [1 .. Len(c) -> Tokens]
  BY MtpAssumption, LenProperties
<1>2. QED
  BY <1>1, TargetAssumption

\* The library's facts on concatenation, for tokens.
LEMMA Joined ==
    /\ \A s, t \in Seq(Tokens) : s \o t \in Seq(Tokens)
    /\ \A s, t \in Seq(Tokens) : Len(s \o t) = Len(s) + Len(t)
    /\ \A s, t, u \in Seq(Tokens) : (s \o t) \o u = s \o (t \o u)
    /\ \A s \in Seq(Tokens) : \A e \in Tokens : Append(s, e) = s \o <<e>>
    /\ \A e \in Tokens : <<e>> \in Seq(Tokens)
    /\ \A s \in Seq(Tokens) : \A e \in Tokens : Append(s, e) \in Seq(Tokens)
<1>1. \A s, t \in Seq(Tokens) : s \o t \in Seq(Tokens) /\ Len(s \o t) = Len(s) + Len(t)
  BY ConcatProperties
<1>2. \A s, t, u \in Seq(Tokens) : (s \o t) \o u = s \o (t \o u)
  BY ConcatAssociative
<1>3. \A s \in Seq(Tokens) : \A e \in Tokens :
          Append(s, e) = s \o <<e>> /\ Append(s, e) \in Seq(Tokens)
  BY AppendIsConcat, AppendProperties
<1>4. \A e \in Tokens : <<e>> \in Seq(Tokens)
  OBVIOUS
<1>5. QED
  BY <1>1, <1>2, <1>3, <1>4, Zenon

\* Appending a token and then a sequence is prepending the token to the sequence.
LEMMA Shift ==
    ASSUME NEW s \in Seq(Tokens), NEW e \in Tokens, NEW t \in Seq(Tokens)
    PROVE  /\ Append(s, e) \o t = s \o (<<e>> \o t)
           /\ Append(s, e) \o t \in Seq(Tokens)
           /\ Len(Append(s, e) \o t) = Len(s) + 1 + Len(t)
           /\ <<e>> \o t \in Seq(Tokens) /\ Len(<<e>> \o t) = 1 + Len(t)
<1>1. /\ Append(s, e) = s \o <<e>> /\ Append(s, e) \in Seq(Tokens)
      /\ <<e>> \in Seq(Tokens) /\ Len(Append(s, e)) = Len(s) + 1 /\ Len(<<e>>) = 1
  BY Joined
<1>2. (s \o <<e>>) \o t = s \o (<<e>> \o t)
  BY <1>1, ConcatAssociative
<1>3. /\ Append(s, e) \o t \in Seq(Tokens) /\ <<e>> \o t \in Seq(Tokens)
      /\ Len(Append(s, e) \o t) = Len(Append(s, e)) + Len(t)
      /\ Len(<<e>> \o t) = Len(<<e>>) + Len(t)
  BY <1>1, ConcatProperties
<1>4. QED
  BY <1>1, <1>2, <1>3

\* Appending to two joined sequences is appending to the second.
LEMMA AppendToLast ==
    ASSUME NEW s \in Seq(Tokens), NEW t \in Seq(Tokens), NEW e \in Tokens
    PROVE  Append(s \o t, e) = s \o Append(t, e)
<1>1. /\ Append(s \o t, e) = (s \o t) \o <<e>> /\ Append(t, e) = t \o <<e>>
      /\ <<e>> \in Seq(Tokens)
  BY Joined
<1>2. (s \o t) \o <<e>> = s \o (t \o <<e>>)
  BY <1>1, Joined
<1>3. QED
  BY <1>1, <1>2

\* Two sequences of tokens with the same tokens are the same.
LEMMA Same ==
    ASSUME NEW s \in Seq(Tokens), NEW t \in Seq(Tokens), Len(s) = Len(t),
           \A i \in 1 .. Len(s) : s[i] = t[i]
    PROVE  s = t
BY SeqEqual

\* A part of a sequence.
LEMMA PartOf ==
    ASSUME NEW s \in Seq(Tokens), NEW n \in 0 .. Len(s)
    PROVE  /\ SubSeq(s, 1, n) \in Seq(Tokens)
           /\ Len(SubSeq(s, 1, n)) = n
           /\ \A i \in 1 .. n : SubSeq(s, 1, n)[i] = s[i]
<1>1. \A i \in 1 .. n : s[i] \in Tokens
  BY ElementOfSeq
<1>2. QED
  BY <1>1, SubSeqProperties, LenProperties

\* A cut at the length of the first part leaves the first part.
LEMMA CutConcat ==
    ASSUME NEW s \in Seq(Tokens), NEW t \in Seq(Tokens)
    PROVE  Cut(s \o t, Len(s)) = s
<1>1. /\ s \o t \in Seq(Tokens) /\ Len(s \o t) = Len(s) + Len(t)
      /\ \A i \in 1 .. Len(s) : (s \o t)[i] = s[i]
      /\ Len(s) \in Nat /\ Len(t) \in Nat
  BY ConcatProperties, LenProperties
<1>2. Cut(s \o t, Len(s)) = SubSeq(s \o t, 1, Len(s))
  BY <1>1 DEF Cut
<1>3. /\ SubSeq(s \o t, 1, Len(s)) \in Seq(Tokens)
      /\ Len(SubSeq(s \o t, 1, Len(s))) = Len(s)
      /\ \A i \in 1 .. Len(s) : SubSeq(s \o t, 1, Len(s))[i] = s[i]
  BY <1>1, PartOf
<1>4. QED
  BY <1>2, <1>3, SeqEqual

\* A cut that is no shorter than the sequence changes nothing.
LEMMA CutWhole ==
    ASSUME NEW s \in Seq(Tokens), NEW n \in Nat, Len(s) <= n
    PROVE  Cut(s, n) = s
<1>1. Cut(s, n) = SubSeq(s, 1, Len(s))
  BY LenProperties DEF Cut
<1>2. QED
  BY <1>1, SubSeqFull

\* A cut below the length.
LEMMA CutPart ==
    ASSUME NEW s \in Seq(Tokens), NEW n \in Nat, n <= Len(s)
    PROVE  /\ Cut(s, n) = SubSeq(s, 1, n)
           /\ Cut(s, n) \in Seq(Tokens) /\ Len(Cut(s, n)) = n
           /\ \A i \in 1 .. n : Cut(s, n)[i] = s[i]
<1>1. Cut(s, n) = SubSeq(s, 1, n)
  BY LenProperties DEF Cut
<1>2. n \in 0 .. Len(s)
  BY LenProperties
<1>3. QED
  BY <1>1, <1>2, PartOf

\* Every cut is a sequence of tokens.
LEMMA CutType ==
    ASSUME NEW s \in Seq(Tokens), NEW n \in Nat
    PROVE  Cut(s, n) \in Seq(Tokens)
<1>1. CASE n <= Len(s)
  BY <1>1, CutPart
<1>2. CASE ~(n <= Len(s))
  BY <1>2, CutWhole, LenProperties
<1>3. QED
  BY <1>1, <1>2

\* What is fed to a memory in step goes to both of its halves.
LEMMA FeedMem ==
    ASSUME NEW s, NEW b
    PROVE  Feed(Mem(s), b) = Mem(s \o b)
BY DEF Feed, Mem

\* The checkpoint and the cut undo a decode, whatever the kind of memory: the
\* state comes back from the checkpoint or is cut with the cells.
LEMMA Restored ==
    ASSUME NEW s \in Seq(Tokens), NEW b \in Seq(Tokens), NEW full \in BOOLEAN
    PROVE  SeqRm(Load(Feed(Mem(s), b), full, s), full, Len(s)) = Mem(s)
<1>1. Cut(s \o b, Len(s)) = s /\ Len(s) \in Nat
  BY CutConcat, LenProperties
<1>2. CASE full
  <2> DEFINE m == Load(Feed(Mem(s), b), full, s)
  <2>1. m = [attn |-> s \o b, state |-> s]
    BY <1>2 DEF Load, Feed, Mem
  <2>2. ~(Len(m.state) > Len(s))
    BY <1>1, <2>1
  <2>3. SeqRm(m, full, Len(s)) = [m EXCEPT !.attn = Cut(m.attn, Len(s))]
    BY <1>2, <2>2 DEF SeqRm
  <2> HIDE DEF m
  <2>4. [m EXCEPT !.attn = Cut(m.attn, Len(s))] = [attn |-> s, state |-> s]
    BY <1>1, <2>1
  <2>5. QED
    BY <2>3, <2>4 DEF Mem, m
<1>3. CASE ~full
  BY <1>1, <1>3 DEF SeqRm, Load, Feed, Mem
<1>4. QED
  BY <1>2, <1>3

\* Two neighbouring parts of a sequence.
LEMMA Parts ==
    ASSUME NEW s \in Seq(Tokens), NEW m \in 0 .. Len(s), NEW k \in 0 .. m
    PROVE  /\ SubSeq(s, k + 1, m) \in Seq(Tokens) /\ Len(SubSeq(s, k + 1, m)) = m - k
           /\ SubSeq(s, 1, k) \o SubSeq(s, k + 1, m) = SubSeq(s, 1, m)
<1> DEFINE a == SubSeq(s, 1, k)
           b == SubSeq(s, k + 1, m)
<1>0. Len(s) \in Nat /\ k \in Nat /\ m \in Nat /\ k \in 0 .. Len(s) /\ m - k \in Nat
  BY LenProperties
<1>1. a \in Seq(Tokens) /\ Len(a) = k /\ \A i \in 1 .. k : a[i] = s[i]
  BY <1>0, PartOf
<1>2. \A i \in k + 1 .. m : s[i] \in Tokens
  BY <1>0, ElementOfSeq
<1>3. /\ b \in Seq(Tokens) /\ Len(b) = m - k
      /\ \A i \in 1 .. m - k : b[i] = s[k + i]
  <2>1. Len(b) = m - k /\ b \in Seq(Tokens)
    BY <1>0, <1>2, SubSeqProperties
  <2>2. ASSUME NEW i \in 1 .. m - k PROVE b[i] = s[k + i]
    <3>1. b[i] = s[(k + 1) + i - 1]
      BY <1>0, <2>1, <1>2, SubSeqProperties
    <3>2. (k + 1) + i - 1 = k + i
      BY <1>0
    <3>3. QED
      BY <3>1, <3>2
  <2>3. QED
    BY <2>1, <2>2
<1>4. /\ SubSeq(s, 1, m) \in Seq(Tokens) /\ Len(SubSeq(s, 1, m)) = m
      /\ \A i \in 1 .. m : SubSeq(s, 1, m)[i] = s[i]
  BY PartOf
<1> HIDE DEF a, b
<1>5. /\ a \o b \in Seq(Tokens) /\ Len(a \o b) = m
      /\ \A i \in 1 .. m : (a \o b)[i] = IF i <= k THEN a[i] ELSE b[i - k]
  BY <1>0, <1>1, <1>3, ConcatProperties
<1>6. ASSUME NEW i \in 1 .. m PROVE (a \o b)[i] = SubSeq(s, 1, m)[i]
  <2>1. CASE i <= k
    BY <1>1, <1>4, <1>5, <2>1
  <2>2. CASE ~(i <= k)
    <3>1. i - k \in 1 .. m - k /\ k + (i - k) = i
      BY <1>0, <2>2
    <3>2. b[i - k] = s[k + (i - k)]
      BY <1>3, <3>1
    <3>3. QED
      BY <1>4, <1>5, <2>2, <3>1, <3>2
  <2>3. QED
    BY <2>1, <2>2
<1>7. a \o b = SubSeq(s, 1, m)
  BY <1>4, <1>5, <1>6, Same
<1>8. QED
  BY <1>3, <1>7 DEF a, b

\* A trim of a memory in step, which the memory must be able to do.
LEMMA Trimmed ==
    ASSUME NEW w \in Seq(Tokens), NEW u \in Seq(Tokens), NEW full \in BOOLEAN,
           Len(u) <= Len(w), full => Len(w) = Len(u),
           \A i \in 1 .. Len(u) : w[i] = u[i]
    PROVE  SeqRm(Mem(w), full, Len(u)) = Mem(u)
<1>0. Len(u) \in Nat /\ Len(w) \in Nat
  BY LenProperties
<1>1. /\ Cut(w, Len(u)) \in Seq(Tokens) /\ Len(Cut(w, Len(u))) = Len(u)
      /\ \A i \in 1 .. Len(u) : Cut(w, Len(u))[i] = w[i]
  BY <1>0, CutPart
<1>2. Cut(w, Len(u)) = u
  BY <1>1, Same
<1>3. CASE full
  <2>1. w = u
    BY <1>3, Same
  <2>2. ~(Len(Mem(w).state) > Len(u))
    BY <1>0, <2>1 DEF Mem
  <2>3. SeqRm(Mem(w), full, Len(u)) = [Mem(w) EXCEPT !.attn = Cut(Mem(w).attn, Len(u))]
    BY <1>3, <2>2 DEF SeqRm
  <2>4. QED
    BY <1>2, <2>1, <2>3 DEF Mem
<1>4. CASE ~full
  BY <1>2, <1>4 DEF SeqRm, Mem
<1>5. QED
  BY <1>3, <1>4

\* The memories' operations keep their types.
LEMMA MemType ==
    ASSUME NEW m \in [attn : Seq(Tokens), state : Seq(Tokens)],
           NEW b \in Seq(Tokens), NEW full \in BOOLEAN, NEW p \in Nat
    PROVE  /\ Feed(m, b) \in [attn : Seq(Tokens), state : Seq(Tokens)]
           /\ Load(m, full, b) \in [attn : Seq(Tokens), state : Seq(Tokens)]
           /\ SeqRm(m, full, p) \in [attn : Seq(Tokens), state : Seq(Tokens)]
<1>1. m.attn \in Seq(Tokens) /\ m.state \in Seq(Tokens)
  OBVIOUS
<1>2. m.attn \o b \in Seq(Tokens) /\ m.state \o b \in Seq(Tokens)
  BY <1>1, ConcatProperties
<1>3. Cut(m.attn, p) \in Seq(Tokens) /\ Cut(m.state, p) \in Seq(Tokens)
  BY <1>1, CutType
<1>4. QED
  BY <1>1, <1>2, <1>3 DEF Feed, Load, SeqRm

-----------------------------------------------------------------------------
(* Sampling against a draft.                                               *)

\* sample_and_accept_n accepts the draft up to its first token that differs.
LEMMA AcceptedUpTo ==
    ASSUME NEW m, NEW d \in Seq(Tokens)
    PROVE  /\ Accepted(m, d) \in 0 .. Len(d)
           /\ \A i \in 1 .. Accepted(m, d) : d[i] = Row(m, d, i - 1)
           /\ Accepted(m, d) < Len(d) =>
                  d[Accepted(m, d) + 1] # Row(m, d, Accepted(m, d))
<1> DEFINE Fit(n) == /\ \A i \in 1 .. n : d[i] = Row(m, d, i - 1)
                     /\ n < Len(d) => d[n + 1] # Row(m, d, n)
           Differ == {i \in 1 .. Len(d) : d[i] # Row(m, d, i - 1)}
           Less == {p \in Nat \X Nat : p[1] < p[2]}
<1>0. Len(d) \in Nat
  BY LenProperties
<1>1. \E n \in 0 .. Len(d) : Fit(n)
  <2>1. CASE Differ = {}
    <3>1. Fit(Len(d))
      BY <1>0, <2>1
    <3>2. QED
      BY <1>0, <3>1
  <2>2. CASE Differ # {}
    <3>1. IsWellFoundedOn(Less, Nat)
      BY NatLessThanWellFounded DEF OpToRel
    <3>2. Differ \subseteq Nat
      BY <1>0
    <3> HIDE DEF Less
    <3>3. PICK k \in Differ : \A j \in Differ : ~(<<j, k>> \in Less)
      BY <2>2, <3>1, <3>2, WFMin
    <3>4. k \in 1 .. Len(d) /\ d[k] # Row(m, d, k - 1)
      OBVIOUS
    <3>5. ASSUME NEW i \in 1 .. k - 1 PROVE d[i] = Row(m, d, i - 1)
      <4>1. <<i, k>> \in Less /\ i \in 1 .. Len(d)
        BY <1>0, <3>4 DEF Less
      <4>2. QED
        BY <3>3, <4>1
    <3>6. k - 1 \in 0 .. Len(d) /\ (k - 1) + 1 = k
      BY <1>0, <3>4
    <3>7. Fit(k - 1)
      BY <3>4, <3>5, <3>6
    <3>8. QED
      BY <3>6, <3>7
  <2>3. QED
    BY <2>1, <2>2
<1>2. Accepted(m, d) = CHOOSE n \in 0 .. Len(d) : Fit(n)
  BY DEF Accepted
<1> HIDE DEF Fit
<1>3. Accepted(m, d) \in 0 .. Len(d) /\ Fit(Accepted(m, d))
  BY <1>1, <1>2
<1>4. QED
  BY <1>3 DEF Fit

\* What is sampled against a draft is the target's own path from id_last on,
\* and the accepted part of the draft with one more token.
LEMMA SampledPath ==
    ASSUME promptTgt \in Seq(Tokens), idLast \in Tokens, NEW d \in Seq(Tokens),
           Len(promptTgt) + 1 + Len(d) <= NCtx
    PROVE  LET s == Sampled(Mem(promptTgt), d)
               n == Accepted(Mem(promptTgt), d)
           IN /\ s \in Seq(Tokens) /\ Len(s) = n + 1
              /\ \A i \in 1 .. n : s[i] = d[i]
              /\ Path(Said, s)
<1> DEFINE m == Mem(promptTgt)
           n == Accepted(m, d)
           s == Sampled(m, d)
<1>0. Len(d) \in Nat /\ Len(promptTgt) \in Nat /\ NCtx \in Nat
  BY LenProperties, MtpAssumption
<1>1. n \in 0 .. Len(d) /\ \A i \in 1 .. n : d[i] = Row(m, d, i - 1)
  BY AcceptedUpTo
<1>2. ASSUME NEW i \in 0 .. Len(d)
      PROVE  /\ Row(m, d, i) = Target(Said \o SubSeq(d, 1, i))
             /\ Row(m, d, i) \in Tokens
  <2>1. SubSeq(d, 1, i) \in Seq(Tokens) /\ Len(SubSeq(d, 1, i)) = i
    BY PartOf
  <2>2. <<idLast>> \in Seq(Tokens) /\ Len(<<idLast>>) = 1
    OBVIOUS
  <2>3. promptTgt \o (<<idLast>> \o SubSeq(d, 1, i)) = Said \o SubSeq(d, 1, i)
    BY <2>1, Shift DEF Said
  <2>4. Row(m, d, i) = Best(Mem(promptTgt \o (<<idLast>> \o SubSeq(d, 1, i))))
    BY FeedMem DEF Row
  <2>5. /\ Said \in Seq(Tokens) /\ Len(Said) = Len(promptTgt) + 1
    BY AppendProperties DEF Said
  <2>6. /\ Said \o SubSeq(d, 1, i) \in Seq(Tokens)
        /\ Len(Said \o SubSeq(d, 1, i)) = Len(promptTgt) + 1 + i
    BY <2>1, Shift DEF Said
  <2>7. Len(Said \o SubSeq(d, 1, i)) <= NCtx
    BY <1>0, <2>6
  <2>8. Row(m, d, i) = Target(Said \o SubSeq(d, 1, i))
    BY <2>3, <2>4, <2>7 DEF Best, Mem
  <2>9. Target(Said \o SubSeq(d, 1, i)) \in Tokens
    BY <2>6, <2>7, TargetType
  <2>10. QED
    BY <2>8, <2>9
<1>3. s = [i \in 1 .. n + 1 |-> Row(m, d, i - 1)] /\ n + 1 \in Nat
  BY <1>1 DEF Sampled
<1> HIDE DEF s, n, m
<1>4. \A i \in 1 .. n + 1 : i - 1 \in 0 .. Len(d)
  BY <1>0, <1>1
<1>5. s \in [1 .. n + 1 -> Tokens] /\ \A i \in 1 .. n + 1 : s[i] = Row(m, d, i - 1)
  BY <1>2, <1>3, <1>4
<1>6. s \in Seq(Tokens) /\ Len(s) = n + 1
  <2>1. ASSUME NEW z \in Nat, s \in [1 .. z -> Tokens] PROVE s \in Seq(Tokens) /\ Len(s) = z
    BY <2>1
  <2>2. QED
    BY <1>3, <1>5, <2>1
<1>7. \A i \in 1 .. n : s[i] = d[i]
  BY <1>1, <1>5
<1>8. ASSUME NEW i \in 1 .. Len(s) PROVE s[i] = Target(Said \o SubSeq(s, 1, i - 1))
  <2>1. i - 1 \in 0 .. Len(d) /\ i - 1 \in 0 .. Len(s) /\ i - 1 <= n
    BY <1>1, <1>4, <1>6
  <2>2. /\ SubSeq(s, 1, i - 1) \in Seq(Tokens) /\ Len(SubSeq(s, 1, i - 1)) = i - 1
        /\ \A j \in 1 .. i - 1 : SubSeq(s, 1, i - 1)[j] = s[j]
    BY <1>6, <2>1, PartOf
  <2>3. /\ SubSeq(d, 1, i - 1) \in Seq(Tokens) /\ Len(SubSeq(d, 1, i - 1)) = i - 1
        /\ \A j \in 1 .. i - 1 : SubSeq(d, 1, i - 1)[j] = d[j]
    BY <2>1, PartOf
  <2>4. \A j \in 1 .. i - 1 : s[j] = d[j]
    BY <1>7, <2>1, <1>1
  <2>5. SubSeq(s, 1, i - 1) = SubSeq(d, 1, i - 1)
    BY <2>2, <2>3, <2>4, SeqEqual
  <2>6. s[i] = Row(m, d, i - 1)
    BY <1>5, <1>6
  <2>7. QED
    BY <1>2, <2>1, <2>5, <2>6
<1>9. QED
  BY <1>6, <1>7, <1>8 DEF Path, s, n, m

\* The path goes on behind its first token.
LEMMA PathTail ==
    ASSUME NEW c \in Seq(Tokens), NEW s \in Seq(Tokens), s # <<>>, Path(c, s)
    PROVE  /\ Head(s) = Target(c)
           /\ Path(Append(c, Head(s)), Tail(s))
           /\ Append(c, Head(s)) \o Tail(s) = c \o s
<1>1. /\ Head(s) \in Tokens /\ Tail(s) \in Seq(Tokens) /\ Len(Tail(s)) = Len(s) - 1
      /\ Len(s) \in Nat \ {0} /\ Head(s) = s[1]
      /\ \A i \in 1 .. Len(Tail(s)) : Tail(s)[i] = s[i + 1]
  BY HeadTailProperties, EmptySeq
<1>2. Append(c, Head(s)) \in Seq(Tokens) /\ Append(c, Head(s)) = c \o <<Head(s)>>
  BY <1>1, AppendProperties, AppendIsConcat
<1>3. <<Head(s)>> \in Seq(Tokens) /\ Len(<<Head(s)>>) = 1 /\ <<Head(s)>>[1] = Head(s)
  BY <1>1
<1>4. ASSUME NEW k \in 0 .. Len(Tail(s))
      PROVE  Append(c, Head(s)) \o SubSeq(Tail(s), 1, k) = c \o SubSeq(s, 1, k + 1)
  <2>1. /\ SubSeq(Tail(s), 1, k) \in Seq(Tokens) /\ Len(SubSeq(Tail(s), 1, k)) = k
        /\ \A i \in 1 .. k : SubSeq(Tail(s), 1, k)[i] = Tail(s)[i]
    BY <1>1, PartOf
  <2>2. k + 1 \in 0 .. Len(s)
    BY <1>1
  <2>3. /\ SubSeq(s, 1, k + 1) \in Seq(Tokens) /\ Len(SubSeq(s, 1, k + 1)) = k + 1
        /\ \A i \in 1 .. k + 1 : SubSeq(s, 1, k + 1)[i] = s[i]
    BY <2>2, PartOf
  <2> DEFINE t == <<Head(s)>> \o SubSeq(Tail(s), 1, k)
  <2>4. /\ t \in Seq(Tokens) /\ Len(t) = 1 + k
        /\ \A i \in 1 .. 1 + k :
              t[i] = IF i <= 1 THEN <<Head(s)>>[i] ELSE SubSeq(Tail(s), 1, k)[i - 1]
    BY <1>3, <2>1, ConcatProperties
  <2> HIDE DEF t
  <2>5. ASSUME NEW i \in 1 .. 1 + k PROVE t[i] = SubSeq(s, 1, k + 1)[i]
    <3>1. CASE i = 1
      BY <1>1, <1>3, <2>3, <2>4, <3>1
    <3>2. CASE i # 1
      <4>1. i - 1 \in 1 .. k /\ ~(i <= 1) /\ i - 1 \in 1 .. Len(Tail(s))
        BY <3>2
      <4>2. t[i] = Tail(s)[i - 1]
        BY <2>1, <2>4, <4>1
      <4>3. Tail(s)[i - 1] = s[(i - 1) + 1] /\ (i - 1) + 1 = i
        BY <1>1, <4>1
      <4>4. i \in 1 .. k + 1
        OBVIOUS
      <4>5. SubSeq(s, 1, k + 1)[i] = s[i]
        BY <2>3, <4>4
      <4>6. s[(i - 1) + 1] = s[i]
        BY <4>3
      <4>7. QED
        BY <4>2, <4>3, <4>5, <4>6
    <3>3. QED
      BY <3>1, <3>2
  <2>6. t = SubSeq(s, 1, k + 1)
    <3> DEFINE u == SubSeq(s, 1, k + 1)
    <3>1. u \in Seq(Tokens) /\ Len(u) = k + 1 /\ Len(t) = k + 1 /\ t \in Seq(Tokens)
      BY <2>3, <2>4
    <3>2. \A i \in 1 .. Len(t) : t[i] = u[i]
      BY <2>5, <3>1
    <3> HIDE DEF u
    <3>3. t = u
      BY <3>1, <3>2, Same
    <3> QED
      BY <3>3 DEF u
  <2>7. Append(c, Head(s)) \o SubSeq(Tail(s), 1, k) = c \o t
    BY <1>1, <2>1, Shift DEF t
  <2>8. QED
    BY <2>6, <2>7
<1>5. Head(s) = Target(c)
  <2>1. 1 \in 1 .. Len(s) /\ SubSeq(s, 1, 1 - 1) = <<>>
    BY <1>1, SubSeqEmpty
  <2>2. c \o <<>> = c
    BY ConcatEmptySeq
  <2>3. QED
    BY <1>1, <2>1, <2>2 DEF Path
<1>6. ASSUME NEW i \in 1 .. Len(Tail(s))
      PROVE  Tail(s)[i] = Target(Append(c, Head(s)) \o SubSeq(Tail(s), 1, i - 1))
  <2>1. i + 1 \in 1 .. Len(s) /\ i - 1 \in 0 .. Len(Tail(s)) /\ (i - 1) + 1 = i /\ (i + 1) - 1 = i
    BY <1>1
  <2>2. s[i + 1] = Target(c \o SubSeq(s, 1, i))
    BY <2>1 DEF Path
  <2>3. QED
    BY <1>1, <1>4, <2>1, <2>2
<1>7. Append(c, Head(s)) \o Tail(s) = c \o s
  <2>1. SubSeq(Tail(s), 1, Len(Tail(s))) = Tail(s) /\ SubSeq(s, 1, Len(s)) = s
    BY <1>1, SubSeqFull
  <2>2. Len(Tail(s)) \in 0 .. Len(Tail(s)) /\ Len(Tail(s)) + 1 = Len(s)
    BY <1>1
  <2>3. QED
    BY <1>4, <2>1, <2>2
<1>8. QED
  BY <1>5, <1>6, <1>7 DEF Path
-----------------------------------------------------------------------------
(* The inductive invariant, one part per stage of the loop.                *)

AtIdle == stage = "idle" => tgt = EmptyMem

AtPrefill ==
    stage = "prefill" =>
        /\ prompt # <<>> /\ nGen > 0 /\ out = <<>> /\ draft = <<>>
        /\ nPast < Len(prompt)
        /\ tgt = Mem(SubSeq(prompt, 1, nPast))

\* The checkpoint of a draft that is to be verified is where the loop stands.
Saved ==
    draft # <<>> => /\ ckpt.tokens = Len(promptTgt) /\ ckpt.pos = Len(promptTgt)
                    /\ ckpt.tgt = promptTgt

\* The next verify batch keeps within the budget.
Affordable ==
    stage = "verify" \/ draft # <<>> => Len(out) + Len(draft) + 1 <= nGen

AtRound ==
    stage \in {"loop", "verify"} =>
        /\ Said = prompt \o out
        /\ nPast = Len(promptTgt)
        /\ tgt = Mem(promptTgt)
        /\ Len(out) <= nGen
        /\ Saved /\ Affordable
        /\ stage = "loop" => Path(Said, draft)

\* While sampled tokens are handed on, the memory holds them behind what was
\* said, and possibly rejected drafts after that.
AtEmit ==
    stage = "emit" =>
        /\ Said = prompt \o out
        /\ Len(promptTgt) + Len(ids) = nPast
        /\ Len(out) + Len(ids) <= nGen
        /\ Path(Said, ids)
        /\ tgt = Mem(tgt.attn)
        /\ nPast <= Len(tgt.attn)
        /\ kind.tgt => Len(tgt.attn) = nPast
        /\ \A i \in 1 .. nPast : tgt.attn[i] = (Said \o ids)[i]

IInv == MtpTypeOK /\ AtIdle /\ AtPrefill /\ AtRound /\ AtEmit

\* The drafter's memory goes with the target's.
DrafterInStep ==
    /\ stage \in {"prefill", "loop", "verify", "emit"} => dft = tgt
    /\ stage \in {"loop", "verify"} /\ draft # <<>> => ckpt.dft = promptTgt

-----------------------------------------------------------------------------
(* Every action keeps the invariant.                                       *)

\* The request is taken: the target's memory is empty, the drafter is new.
LEMMA BeginKeeps ==
    ASSUME ~Retains, IInv, NEW p \in Prompts, NEW n \in NGen, Begin(p, n) \/ Refuse(p, n)
    PROVE  IInv' /\ DrafterInStep'
<1> USE DEF IInv
<1>1. /\ p \in Seq(Tokens) /\ n \in Nat /\ stage = "idle" /\ tgt = EmptyMem /\ Fresh(p, n)
      /\ Eog \in Tokens /\ tgt' = EmptyMem /\ dft' = EmptyMem
  BY MtpAssumption DEF Begin, Refuse, Fresh, AtIdle, Emptied
<1>2. stage' \in {"prefill", "ended"} /\ (stage' = "prefill" => p # <<>> /\ n > 0)
  BY DEF Begin, Refuse
<1>3. EmptyMem \in [attn : Seq(Tokens), state : Seq(Tokens)] /\ EmptyMem = Mem(<<>>)
  BY DEF EmptyMem, Mem
<1>4. probed' \in BOOLEAN
  BY DEF Begin, Refuse, MtpTypeOK
<1>5. MtpTypeOK'
  <2>1. NoCkpt \in [tokens : Nat, pos : Nat, tgt : Seq(Tokens), dft : Seq(Tokens)]
    BY DEF NoCkpt
  <2>2. /\ stage' \in {"idle", "prefill", "loop", "verify", "emit", "ended"}
        /\ kind' \in Kinds /\ stopped' \in BOOLEAN
    BY <1>1, <1>2 DEF MtpTypeOK, Fresh
  <2>3. /\ tgt' \in [attn : Seq(Tokens), state : Seq(Tokens)]
        /\ dft' \in [attn : Seq(Tokens), state : Seq(Tokens)]
    BY <1>1, <1>3 DEF Fresh
  <2>4. /\ prompt' \in Seq(Tokens) /\ nGen' \in Nat
        /\ promptTgt' \in Seq(Tokens) /\ idLast' \in Tokens /\ nPast' \in Nat
        /\ draft' \in Seq(Tokens) /\ ids' \in Seq(Tokens) /\ out' \in Seq(Tokens)
    BY <1>1 DEF Fresh
  <2>5. ckpt' \in [tokens : Nat, pos : Nat, tgt : Seq(Tokens), dft : Seq(Tokens)]
    BY <1>1, <2>1 DEF Fresh
  <2>6. QED
    BY <1>4, <2>2, <2>3, <2>4, <2>5 DEF MtpTypeOK
<1>6. AtPrefill'
  <2>1. SubSeq(p, 1, 0) = <<>> /\ (p # <<>> => 0 < Len(p))
    BY <1>1, SubSeqEmpty, EmptySeq, LenProperties
  <2>2. QED
    BY <1>1, <1>2, <1>3, <2>1 DEF AtPrefill, Fresh
<1>7. AtIdle' /\ AtRound' /\ AtEmit'
  BY <1>2 DEF AtIdle, AtRound, AtEmit
<1>8. DrafterInStep'
  BY <1>1, <1>2 DEF DrafterInStep, Fresh
<1>9. QED
  BY <1>5, <1>6, <1>7, <1>8

\* A chunk of the prompt goes behind the chunks before it.
LEMMA ChunkIsNext ==
    ASSUME prompt \in Seq(Tokens), nPast \in Nat, nPast + 1 < Len(prompt)
    PROVE  /\ Chunk \in Seq(Tokens) /\ nPast + Len(Chunk) \in Nat
           /\ nPast + Len(Chunk) < Len(prompt)
           /\ SubSeq(prompt, 1, nPast) \o Chunk = SubSeq(prompt, 1, nPast + Len(Chunk))
<1> DEFINE m == IF nPast + NBatch < Len(prompt) - 1 THEN nPast + NBatch ELSE Len(prompt) - 1
<1>1. Len(prompt) \in Nat /\ NBatch \in Nat
  BY LenProperties, MtpAssumption
<1>2. m \in 0 .. Len(prompt) /\ nPast \in 0 .. m /\ m < Len(prompt)
  BY <1>1
<1>3. Chunk = SubSeq(prompt, nPast + 1, m)
  BY DEF Chunk
<1> HIDE DEF m
<1>4. /\ Chunk \in Seq(Tokens) /\ Len(Chunk) = m - nPast
      /\ SubSeq(prompt, 1, nPast) \o Chunk = SubSeq(prompt, 1, m)
  BY <1>2, <1>3, Parts
<1>5. nPast + Len(Chunk) = m
  BY <1>2, <1>4
<1>6. QED
  BY <1>2, <1>4, <1>5

\* A chunk of the prompt goes into both memories.
LEMMA PrefillKeeps ==
    ASSUME IInv, Prefill
    PROVE  IInv' /\ (DrafterInStep => DrafterInStep')
<1> USE DEF IInv
<1>1. /\ stage = "prefill" /\ stage' = "prefill" /\ nPast + 1 < Len(prompt)
      /\ tgt' = Feed(tgt, Chunk) /\ dft' = Feed(dft, Chunk) /\ nPast' = nPast + Len(Chunk)
  BY DEF Prefill
<1>2. prompt \in Seq(Tokens) /\ nPast \in Nat
  BY DEF MtpTypeOK
<1>3. /\ Chunk \in Seq(Tokens) /\ nPast + Len(Chunk) \in Nat
      /\ nPast + Len(Chunk) < Len(prompt)
      /\ SubSeq(prompt, 1, nPast) \o Chunk = SubSeq(prompt, 1, nPast + Len(Chunk))
  BY <1>1, <1>2, ChunkIsNext
<1>4. /\ Feed(tgt, Chunk) \in [attn : Seq(Tokens), state : Seq(Tokens)]
      /\ Feed(dft, Chunk) \in [attn : Seq(Tokens), state : Seq(Tokens)]
  BY <1>3, MemType DEF MtpTypeOK
<1>5. MtpTypeOK'
  BY <1>1, <1>3, <1>4 DEF MtpTypeOK, Prefill, asking
<1>6. tgt' = Mem(SubSeq(prompt, 1, nPast'))
  <2>1. tgt = Mem(SubSeq(prompt, 1, nPast))
    BY <1>1 DEF AtPrefill
  <2>2. QED
    BY <1>1, <1>3, <2>1, FeedMem
<1>7. AtPrefill'
  BY <1>1, <1>3, <1>6 DEF AtPrefill, Prefill, asking
<1>8. AtIdle' /\ AtRound' /\ AtEmit'
  BY <1>1 DEF AtIdle, AtRound, AtEmit
<1>9. DrafterInStep => DrafterInStep'
  BY <1>1 DEF DrafterInStep
<1>10. QED
  BY <1>5, <1>7, <1>8, <1>9

\* The prompt is in and the loop starts.
LEMMA PrimedKeeps ==
    ASSUME IInv, Primed
    PROVE  IInv' /\ (DrafterInStep => DrafterInStep')
<1> USE DEF IInv
<1> DEFINE k == Len(prompt) - 1
<1>1. /\ stage = "prefill" /\ stage' = "loop" /\ nPast + 1 >= Len(prompt)
      /\ UNCHANGED <<prompt, nGen, out, tgt, dft, draft, ckpt>>
      /\ idLast' = prompt[Len(prompt)] /\ promptTgt' = Cut(prompt, k) /\ nPast' = k
  BY DEF Primed, asking
<1>2. /\ prompt \in Seq(Tokens) /\ nPast \in Nat /\ nGen \in Nat
      /\ prompt # <<>> /\ nGen > 0 /\ out = <<>> /\ draft = <<>> /\ nPast < Len(prompt)
      /\ tgt = Mem(SubSeq(prompt, 1, nPast))
  BY <1>1 DEF MtpTypeOK, AtPrefill
<1>3. /\ k \in Nat /\ k <= Len(prompt) /\ k + 1 = Len(prompt) /\ nPast = k
      /\ Len(prompt) \in 1 .. Len(prompt)
  BY <1>1, <1>2, LenProperties
<1> HIDE DEF k
<1>4. /\ promptTgt' = SubSeq(prompt, 1, k) /\ promptTgt' \in Seq(Tokens)
      /\ Len(promptTgt') = k /\ \A i \in 1 .. k : promptTgt'[i] = prompt[i]
  BY <1>1, <1>2, <1>3, CutPart
<1>5. idLast' \in Tokens
  BY <1>1, <1>2, <1>3, ElementOfSeq
<1>6. Said' = prompt
  <2>1. /\ Said' \in Seq(Tokens) /\ Len(Said') = k + 1
        /\ \A i \in 1 .. k : Said'[i] = promptTgt'[i]
        /\ Said'[k + 1] = idLast'
    BY <1>3, <1>4, <1>5, AppendProperties DEF Said
  <2>2. Len(Said') = Len(prompt) /\ k + 1 = Len(prompt)
    BY <1>3, <2>1
  <2>3. ASSUME NEW i \in 1 .. Len(Said') PROVE Said'[i] = prompt[i]
    <3>1. CASE i = k + 1
      BY <1>1, <2>1, <2>2, <3>1
    <3>2. CASE i # k + 1
      <4>1. i \in 1 .. k
        BY <1>3, <2>1, <3>2
      <4>2. QED
        BY <1>4, <2>1, <4>1
    <3>3. QED
      BY <3>1, <3>2
  <2>4. QED
    BY <1>2, <2>1, <2>2, <2>3, Same
<1>7. MtpTypeOK'
  BY <1>1, <1>3, <1>4, <1>5 DEF MtpTypeOK, Primed, asking
<1>8. AtRound'
  <2>1. prompt \o <<>> = prompt
    BY <1>2, ConcatEmptySeq
  <2>2. Said' = prompt' \o out'
    BY <1>1, <1>2, <1>6, <2>1
  <2>3. nPast' = Len(promptTgt') /\ tgt' = Mem(promptTgt')
    BY <1>1, <1>2, <1>3, <1>4
  <2>4. Len(out') <= nGen'
    BY <1>1, <1>2
  <2>5. Saved' /\ Affordable' /\ Path(Said, draft)'
    BY <1>1, <1>2 DEF Saved, Affordable, Path
  <2>6. QED
    BY <2>2, <2>3, <2>4, <2>5 DEF AtRound
<1>9. AtIdle' /\ AtPrefill' /\ AtEmit'
  BY <1>1 DEF AtIdle, AtPrefill, AtEmit
<1>10. DrafterInStep => DrafterInStep'
  BY <1>1, <1>2 DEF DrafterInStep
<1>11. QED
  BY <1>7, <1>8, <1>9, <1>10

\* A draft keeps within the budget, and drafting leaves no trace in the memories.
LEMMA DraftKeeps ==
    ASSUME IInv, NEW d \in Drafts, Draft(d)
    PROVE  IInv' /\ (DrafterInStep => DrafterInStep')
<1> USE DEF IInv
<1>1. /\ stage = "loop" /\ stage' = "verify" /\ Len(out) < nGen /\ draft = <<>>
      /\ Len(d) <= DraftMax /\ draft' = d
      /\ UNCHANGED <<prompt, nGen, out, tgt, promptTgt, idLast, nPast>>
  BY DEF Draft, asking
<1>2. d \in Seq(Tokens) /\ Len(d) \in Nat
  BY MtpAssumption, LenProperties DEF Drafts
<1>3. /\ promptTgt \in Seq(Tokens) /\ idLast \in Tokens /\ out \in Seq(Tokens)
      /\ nGen \in Nat /\ nPast \in Nat
      /\ dft \in [attn : Seq(Tokens), state : Seq(Tokens)]
      /\ kind \in Kinds
  BY DEF MtpTypeOK
<1>4. /\ Said = prompt \o out /\ nPast = Len(promptTgt) /\ tgt = Mem(promptTgt)
      /\ Len(out) <= nGen
  BY <1>1 DEF AtRound
<1>5. /\ tgt.attn = promptTgt /\ tgt.state = promptTgt
      /\ Len(promptTgt) \in Nat /\ Len(out) \in Nat
  BY <1>3, <1>4, LenProperties DEF Mem
<1>6. /\ ckpt'.tokens = Len(promptTgt) /\ ckpt'.pos = Len(promptTgt)
      /\ ckpt'.dft = dft.state /\ (d # <<>> => ckpt'.tgt = promptTgt)
      /\ ckpt' \in [tokens : Nat, pos : Nat, tgt : Seq(Tokens), dft : Seq(Tokens)]
  BY <1>3, <1>5 DEF Draft, MtpTypeOK
<1>7. kind.dft \in BOOLEAN
  BY <1>3, MtpAssumption
<1>8. <<idLast>> \o d \in Seq(Tokens)
  BY <1>2, <1>3, Shift
<1>9. dft' = SeqRm(Load(Feed(dft, <<idLast>> \o d), kind.dft, dft.state), kind.dft, Len(promptTgt))
  BY <1>5 DEF Draft
<1>10. dft' \in [attn : Seq(Tokens), state : Seq(Tokens)]
  <2>1. Feed(dft, <<idLast>> \o d) \in [attn : Seq(Tokens), state : Seq(Tokens)]
    BY <1>3, <1>8, MemType
  <2>2. dft.state \in Seq(Tokens)
    BY <1>3
  <2>3. Load(Feed(dft, <<idLast>> \o d), kind.dft, dft.state)
            \in [attn : Seq(Tokens), state : Seq(Tokens)]
    BY <1>7, <2>1, <2>2, MemType
  <2>4. QED
    BY <1>5, <1>7, <1>9, <2>3, MemType
<1>11. MtpTypeOK'
  BY <1>1, <1>2, <1>6, <1>10 DEF MtpTypeOK, Draft, asking
<1>12. Len(out) + Len(d) + 1 <= nGen
  BY <1>1, <1>2, <1>3, <1>5, MtpAssumption, SMTT(30) DEF DraftMax
<1>13. AtRound'
  <2>1. Said' = prompt' \o out' /\ nPast' = Len(promptTgt') /\ tgt' = Mem(promptTgt')
    BY <1>1, <1>4 DEF Said
  <2>2. Len(out') <= nGen'
    BY <1>1, <1>4
  <2>3. Saved'
    BY <1>1, <1>6 DEF Saved
  <2>4. Affordable'
    BY <1>1, <1>12 DEF Affordable
  <2>5. QED
    BY <1>1, <2>1, <2>2, <2>3, <2>4 DEF AtRound
<1>14. AtIdle' /\ AtPrefill' /\ AtEmit'
  BY <1>1 DEF AtIdle, AtPrefill, AtEmit
<1>15. ASSUME DrafterInStep PROVE DrafterInStep'
  <2>1. dft = Mem(promptTgt) /\ dft.state = promptTgt
    BY <1>1, <1>4, <1>5, <1>15 DEF DrafterInStep
  <2>2. dft' = Mem(promptTgt)
    <3> DEFINE b == <<idLast>> \o d
    <3>1. dft' = SeqRm(Load(Feed(Mem(promptTgt), b), kind.dft, promptTgt),
                       kind.dft, Len(promptTgt))
      BY <1>9, <2>1
    <3>2. b \in Seq(Tokens)
      BY <1>8
    <3> HIDE DEF b
    <3>3. QED
      BY <1>3, <1>7, <3>1, <3>2, Restored
  <2>3. dft' = tgt' /\ ckpt'.dft = promptTgt'
    BY <1>1, <1>4, <1>6, <2>1, <2>2
  <2>4. QED
    BY <2>3 DEF DrafterInStep
<1>16. QED
  BY <1>11, <1>13, <1>14, <1>15

\* What the verify batch and the sampling against it are, at a verify step.
LEMMA Verifying ==
    ASSUME IInv, stage = "verify", Fits
    PROVE  LET n == Accepted(tgt, draft)
               s == Sampled(tgt, draft)
           IN /\ n \in 0 .. Len(draft) /\ s \in Seq(Tokens) /\ Len(s) = n + 1
              /\ Len(draft) \in Nat /\ Len(promptTgt) \in Nat
              /\ \A i \in 1 .. n : s[i] = draft[i]
              /\ Path(Said, s)
              /\ Batch \in Seq(Tokens) /\ Len(Batch) = 1 + Len(draft)
              /\ promptTgt \o Batch = Said \o draft
              /\ kind.tgt \in BOOLEAN /\ kind.dft \in BOOLEAN
<1> USE DEF IInv
<1>1. /\ promptTgt \in Seq(Tokens) /\ idLast \in Tokens /\ draft \in Seq(Tokens)
      /\ kind \in Kinds
  BY DEF MtpTypeOK
<1>2. nPast = Len(promptTgt) /\ tgt = Mem(promptTgt)
  BY DEF AtRound
<1>3. Len(draft) \in Nat /\ Len(promptTgt) \in Nat /\ NCtx \in Nat
  BY <1>1, LenProperties, MtpAssumption
<1>4. /\ Batch \in Seq(Tokens) /\ Len(Batch) = 1 + Len(draft)
      /\ promptTgt \o Batch = Said \o draft
  BY <1>1, Shift DEF Batch, Said
<1>5. Len(promptTgt) + 1 + Len(draft) <= NCtx
  BY <1>2, <1>3, <1>4 DEF Fits
<1>6. Accepted(tgt, draft) \in 0 .. Len(draft)
  BY <1>1, AcceptedUpTo
<1>7. /\ Sampled(tgt, draft) \in Seq(Tokens)
      /\ Len(Sampled(tgt, draft)) = Accepted(tgt, draft) + 1
      /\ \A i \in 1 .. Accepted(tgt, draft) : Sampled(tgt, draft)[i] = draft[i]
      /\ Path(Said, Sampled(tgt, draft))
  BY <1>1, <1>2, <1>5, SampledPath
<1>8. kind.tgt \in BOOLEAN /\ kind.dft \in BOOLEAN
  BY <1>1, MtpAssumption
<1>9. QED
  BY <1>3, <1>4, <1>6, <1>7, <1>8

\* Back to the checkpoint: the memories hold what they held before the decode.
LEMMA RollBackKeeps ==
    ASSUME IInv, RollBack
    PROVE  IInv' /\ (DrafterInStep => DrafterInStep')
<1> USE DEF IInv
<1> DEFINE n == Accepted(tgt, draft)
           s == Sampled(tgt, draft)
<1>1. /\ stage = "verify" /\ stage' = "loop" /\ Fits /\ kind.tgt /\ n < Len(draft)
      /\ draft' = s /\ promptTgt' = Cut(promptTgt, ckpt.tokens) /\ nPast' = Len(promptTgt')
      /\ UNCHANGED <<prompt, nGen, out, idLast, ckpt>>
  BY DEF RollBack, asking, Rejects
<1>2. /\ promptTgt \in Seq(Tokens) /\ idLast \in Tokens /\ out \in Seq(Tokens)
      /\ draft \in Seq(Tokens) /\ nGen \in Nat
      /\ dft \in [attn : Seq(Tokens), state : Seq(Tokens)]
      /\ ckpt \in [tokens : Nat, pos : Nat, tgt : Seq(Tokens), dft : Seq(Tokens)]
  BY DEF MtpTypeOK
<1>3. /\ n \in 0 .. Len(draft) /\ s \in Seq(Tokens) /\ Len(s) = n + 1
      /\ Len(draft) \in Nat /\ Len(promptTgt) \in Nat
      /\ Path(Said, s) /\ Batch \in Seq(Tokens)
      /\ kind.tgt \in BOOLEAN /\ kind.dft \in BOOLEAN
  BY <1>1, Verifying
<1> HIDE DEF n, s
<1>4. draft # <<>>
  BY <1>1, <1>3
<1>5. /\ Said = prompt \o out /\ tgt = Mem(promptTgt) /\ Len(out) <= nGen
      /\ Len(out) + Len(draft) + 1 <= nGen
      /\ ckpt.tokens = Len(promptTgt) /\ ckpt.pos = Len(promptTgt) /\ ckpt.tgt = promptTgt
  BY <1>1, <1>4 DEF AtRound, Saved, Affordable
<1>6. promptTgt' = promptTgt
  <2>1. promptTgt' = Cut(promptTgt, Len(promptTgt))
    BY <1>1, <1>5
  <2>2. Len(promptTgt) \in Nat /\ Len(promptTgt) <= Len(promptTgt)
    BY <1>3
  <2> QED
    BY <1>2, <2>1, <2>2, CutWhole
<1>7. tgt' = Mem(promptTgt)
  <2>1. tgt' = SeqRm(Load(Feed(Mem(promptTgt), Batch), kind.tgt, promptTgt),
                     kind.tgt, Len(promptTgt))
    BY <1>5 DEF RollBack
  <2>2. QED
    BY <1>2, <1>3, <2>1, Restored
<1>8. dft' = SeqRm(Load(Feed(dft, Batch), kind.dft, ckpt.dft), kind.dft, Len(promptTgt))
  BY <1>5 DEF RollBack
<1>9. dft' \in [attn : Seq(Tokens), state : Seq(Tokens)]
  <2>1. Feed(dft, Batch) \in [attn : Seq(Tokens), state : Seq(Tokens)]
    BY <1>2, <1>3, MemType
  <2>2. ckpt.dft \in Seq(Tokens)
    BY <1>2
  <2>3. Load(Feed(dft, Batch), kind.dft, ckpt.dft) \in [attn : Seq(Tokens), state : Seq(Tokens)]
    BY <1>3, <2>1, <2>2, MemType
  <2>4. QED
    BY <1>3, <1>8, <2>3, MemType
<1>10. tgt' \in [attn : Seq(Tokens), state : Seq(Tokens)] /\ nPast' \in Nat
  BY <1>1, <1>2, <1>3, <1>6, <1>7 DEF Mem
<1>11. MtpTypeOK'
  BY <1>1, <1>3, <1>6, <1>9, <1>10 DEF MtpTypeOK, RollBack, asking
<1>12. AtRound'
  <2>1. Said' = Said
    BY <1>1, <1>6 DEF Said
  <2>2. Said' = prompt' \o out' /\ nPast' = Len(promptTgt') /\ tgt' = Mem(promptTgt')
    BY <1>1, <1>5, <1>6, <1>7, <2>1
  <2>3. Len(out') <= nGen'
    BY <1>1, <1>5
  <2>4. Saved'
    BY <1>1, <1>5, <1>6 DEF Saved
  <2>5. Affordable'
    <3>1. Len(out) \in Nat
      BY <1>2, LenProperties
    <3>2. Len(out) + Len(s) + 1 <= nGen
      BY <1>1, <1>2, <1>3, <1>5, <3>1
    <3>3. QED
      BY <1>1, <3>2 DEF Affordable
  <2>6. Path(Said, draft)'
    BY <1>1, <1>3, <2>1 DEF Path
  <2>7. QED
    BY <2>2, <2>3, <2>4, <2>5, <2>6 DEF AtRound
<1>13. AtIdle' /\ AtPrefill' /\ AtEmit'
  BY <1>1 DEF AtIdle, AtPrefill, AtEmit
<1>14. ASSUME DrafterInStep PROVE DrafterInStep'
  <2>1. dft = Mem(promptTgt) /\ ckpt.dft = promptTgt
    BY <1>1, <1>4, <1>5, <1>14 DEF DrafterInStep
  <2>2. dft' = Mem(promptTgt)
    BY <1>2, <1>3, <1>8, <2>1, Restored
  <2>3. QED
    BY <1>1, <1>6, <1>7, <2>1, <2>2 DEF DrafterInStep
<1>15. QED
  BY <1>11, <1>12, <1>13, <1>14

\* Accepted tokens stay in the memories, rejected ones behind them for now.
LEMMA AcceptKeeps ==
    ASSUME IInv, Accept
    PROVE  IInv' /\ (DrafterInStep => DrafterInStep')
<1> USE DEF IInv
<1> DEFINE n == Accepted(tgt, draft)
           s == Sampled(tgt, draft)
<1>1. /\ stage = "verify" /\ stage' = "emit" /\ Fits /\ ~(kind.tgt /\ n < Len(draft))
      /\ ids' = s /\ nPast' = nPast + Len(s)
      /\ tgt' = Feed(tgt, Batch) /\ dft' = Feed(dft, Batch)
      /\ UNCHANGED <<kind, prompt, nGen, out, idLast, promptTgt>>
  BY DEF Accept, asking, Rejects
<1>2. /\ promptTgt \in Seq(Tokens) /\ idLast \in Tokens /\ out \in Seq(Tokens)
      /\ draft \in Seq(Tokens) /\ nGen \in Nat
      /\ tgt \in [attn : Seq(Tokens), state : Seq(Tokens)]
      /\ dft \in [attn : Seq(Tokens), state : Seq(Tokens)]
  BY DEF MtpTypeOK
<1>3. /\ n \in 0 .. Len(draft) /\ s \in Seq(Tokens) /\ Len(s) = n + 1
      /\ Len(draft) \in Nat /\ Len(promptTgt) \in Nat
      /\ \A i \in 1 .. n : s[i] = draft[i]
      /\ Path(Said, s) /\ Batch \in Seq(Tokens) /\ promptTgt \o Batch = Said \o draft
  BY <1>1, Verifying
<1> HIDE DEF n, s
<1>4. /\ Said = prompt \o out /\ nPast = Len(promptTgt) /\ tgt = Mem(promptTgt)
      /\ Len(out) + Len(draft) + 1 <= nGen
  BY <1>1 DEF AtRound, Affordable
<1>5. MtpTypeOK'
  <2>1. /\ Feed(tgt, Batch) \in [attn : Seq(Tokens), state : Seq(Tokens)]
        /\ Feed(dft, Batch) \in [attn : Seq(Tokens), state : Seq(Tokens)]
    BY <1>2, <1>3, MemType
  <2>2. nPast' \in Nat
    BY <1>1, <1>3, <1>4
  <2>3. QED
    BY <1>1, <1>3, <2>1, <2>2 DEF MtpTypeOK, Accept, asking
<1>6. tgt' = Mem(Said \o draft)
  BY <1>1, <1>3, <1>4, FeedMem, ZenonT(30)
<1>7. AtEmit'
  <2> DEFINE w == Said \o draft
             u == Said \o s
  <2>1. Said \in Seq(Tokens) /\ Len(Said) = Len(promptTgt) + 1 /\ Said' = Said
    BY <1>1, <1>2, AppendProperties DEF Said
  <2>2. /\ w \in Seq(Tokens) /\ Len(w) = Len(promptTgt) + 1 + Len(draft)
        /\ \A i \in 1 .. Len(Said) + Len(draft) :
              w[i] = IF i <= Len(Said) THEN Said[i] ELSE draft[i - Len(Said)]
    <3>1. /\ w \in Seq(Tokens) /\ Len(w) = Len(Said) + Len(draft)
          /\ \A i \in 1 .. Len(Said) + Len(draft) :
                w[i] = IF i <= Len(Said) THEN Said[i] ELSE draft[i - Len(Said)]
      BY <1>2, <2>1, ConcatProperties
    <3> QED
      BY <2>1, <3>1
  <2>3. \A i \in 1 .. Len(Said) + Len(s) :
              u[i] = IF i <= Len(Said) THEN Said[i] ELSE s[i - Len(Said)]
    BY <1>3, <2>1, ConcatProperties
  <2>4. tgt'.attn = w /\ tgt' = Mem(tgt'.attn)
    BY <1>6 DEF Mem
  <2> HIDE DEF w, u
  <2>5. Len(promptTgt) + Len(s) = nPast' /\ nPast' = Len(Said) + n
    BY <1>1, <1>3, <1>4, <2>1
  <2>6. ASSUME NEW i \in 1 .. nPast' PROVE w[i] = u[i]
    <3>1. CASE i <= Len(Said)
      <4>1. i \in 1 .. Len(Said) + Len(draft) /\ i \in 1 .. Len(Said) + Len(s)
        BY <1>3, <2>1, <2>5, <3>1
      <4> QED
        BY <2>2, <2>3, <3>1, <4>1
    <3>2. CASE ~(i <= Len(Said))
      <4>1. i - Len(Said) \in 1 .. n
        BY <1>3, <2>1, <2>5, <3>2
      <4>2. w[i] = draft[i - Len(Said)] /\ u[i] = s[i - Len(Said)]
        BY <1>3, <2>1, <2>2, <2>3, <2>5, <3>2, SMTT(30)
      <4>3. QED
        BY <1>3, <4>1, <4>2
    <3>3. QED
      BY <3>1, <3>2
  <2>7. nPast' <= Len(w) /\ (kind.tgt => Len(w) = nPast')
    <3>1. nPast' = Len(promptTgt) + 1 + n /\ Len(w) = Len(promptTgt) + 1 + Len(draft)
      BY <1>3, <2>1, <2>2, <2>5
    <3>2. kind.tgt => ~(n < Len(draft))
      BY <1>1
    <3>3. n \in Nat /\ n <= Len(draft) /\ Len(draft) \in Nat /\ Len(promptTgt) \in Nat
      BY <1>3
    <3>4. n < Len(draft) \/ n = Len(draft)
      BY <3>3
    <3>5. nPast' <= Len(w)
      BY <3>1, <3>3
    <3>6. QED
      BY <3>1, <3>2, <3>4, <3>5
  <2>8. Len(out) + Len(s) <= nGen
    BY <1>2, <1>3, <1>4, LenProperties
  <2>9. Path(Said, ids)'
    BY <1>1, <1>3, <2>1 DEF Path
  <2>10. Said' = prompt' \o out'
    BY <1>1, <1>4, <2>1
  <2>11. \A i \in 1 .. nPast' : tgt'.attn[i] = (Said' \o ids')[i]
    BY <1>1, <2>1, <2>4, <2>6 DEF u
  <2>12. QED
    BY <1>1, <2>4, <2>5, <2>7, <2>8, <2>9, <2>10, <2>11 DEF AtEmit
<1>8. AtIdle' /\ AtPrefill' /\ AtRound'
  BY <1>1 DEF AtIdle, AtPrefill, AtRound
<1>9. DrafterInStep => DrafterInStep'
  BY <1>1 DEF DrafterInStep
<1>10. QED
  BY <1>5, <1>7, <1>8, <1>9

\* Handing a token on: it is the target's next token, and what the memory
\* holds is still what is said and to be said.
LEMMA EmitSays ==
    ASSUME IInv, Emit
    PROVE  /\ IInv' /\ (DrafterInStep => DrafterInStep')
           /\ Head(ids) = Target(prompt \o out) /\ Len(out) < nGen
<1> USE DEF IInv
<1>1. /\ stage = "emit" /\ ids # <<>> /\ promptTgt' = Said
      /\ idLast' = Head(ids) /\ ids' = Tail(ids)
      /\ UNCHANGED <<kind, probed, prompt, nGen, tgt, dft, nPast, draft, ckpt, stopped>>
      /\ stage' \in {"ended", "emit"}
      /\ stage' = "emit" => out' = Append(out, Head(ids))
      /\ out' \in {out, Append(out, Head(ids))}
  BY DEF Emit, asking, Said
<1>2. /\ promptTgt \in Seq(Tokens) /\ idLast \in Tokens /\ out \in Seq(Tokens)
      /\ ids \in Seq(Tokens) /\ prompt \in Seq(Tokens) /\ nGen \in Nat /\ nPast \in Nat
  BY DEF MtpTypeOK
<1>3. /\ Said = prompt \o out /\ Len(promptTgt) + Len(ids) = nPast
      /\ Len(out) + Len(ids) <= nGen /\ Path(Said, ids)
      /\ tgt = Mem(tgt.attn) /\ nPast <= Len(tgt.attn) /\ (kind.tgt => Len(tgt.attn) = nPast)
      /\ \A i \in 1 .. nPast : tgt.attn[i] = (Said \o ids)[i]
  BY <1>1 DEF AtEmit
<1>4. /\ Head(ids) \in Tokens /\ Tail(ids) \in Seq(Tokens)
      /\ Len(Tail(ids)) = Len(ids) - 1 /\ Len(ids) \in Nat \ {0} /\ Len(out) \in Nat
      /\ Len(promptTgt) \in Nat
  BY <1>1, <1>2, HeadTailProperties, EmptySeq, LenProperties
<1>5. Said \in Seq(Tokens) /\ Len(Said) = Len(promptTgt) + 1
  BY <1>2, AppendProperties DEF Said
<1>6. /\ Head(ids) = Target(Said)
      /\ Path(Append(Said, Head(ids)), Tail(ids))
      /\ Append(Said, Head(ids)) \o Tail(ids) = Said \o ids
  BY <1>1, <1>2, <1>3, <1>5, PathTail
<1>7. Append(out, Head(ids)) \in Seq(Tokens) /\ Len(Append(out, Head(ids))) = Len(out) + 1
  BY <1>2, <1>4, AppendProperties
<1>8. MtpTypeOK'
  BY <1>1, <1>2, <1>4, <1>5, <1>7 DEF MtpTypeOK
<1>9. Said' = Append(Said, Head(ids))
  BY <1>1 DEF Said
<1>10. AtEmit'
  <2> SUFFICES ASSUME stage' = "emit" PROVE AtEmit'
    BY DEF AtEmit
  <2>1. out' = Append(out, Head(ids))
    BY <1>1
  <2>2. Said' = prompt' \o out'
    <3>1. Append(prompt \o out, Head(ids)) = prompt \o Append(out, Head(ids))
      BY <1>2, <1>4, AppendToLast
    <3>2. QED
      BY <1>1, <1>3, <1>9, <2>1, <3>1
  <2>3. Len(promptTgt') + Len(ids') = nPast'
    <3>1. Len(Said) + Len(Tail(ids)) = Len(promptTgt) + Len(ids)
      BY <1>4, <1>5
    <3>2. QED
      BY <1>1, <1>3, <3>1
  <2>4. Len(out') + Len(ids') <= nGen'
    BY <1>1, <1>2, <1>3, <1>4, <1>7, <2>1
  <2>5. Path(Said, ids)'
    BY <1>1, <1>6, <1>9 DEF Path
  <2>6. \A i \in 1 .. nPast' : tgt'.attn[i] = (Said' \o ids')[i]
    BY <1>1, <1>3, <1>6, <1>9
  <2>7. tgt' = Mem(tgt'.attn) /\ nPast' <= Len(tgt'.attn) /\ (kind'.tgt => Len(tgt'.attn) = nPast')
    BY <1>1, <1>3
  <2>8. QED
    BY <2>2, <2>3, <2>4, <2>5, <2>6, <2>7 DEF AtEmit
<1>11. AtIdle' /\ AtPrefill' /\ AtRound'
  BY <1>1 DEF AtIdle, AtPrefill, AtRound
<1>12. DrafterInStep => DrafterInStep'
  BY <1>1 DEF DrafterInStep
<1>13. Head(ids) = Target(prompt \o out) /\ Len(out) < nGen
  BY <1>2, <1>3, <1>4, <1>6
<1>14. QED
  BY <1>8, <1>10, <1>11, <1>12, <1>13

\* The rejected drafts leave the memories, and nothing else does.  The
\* drafter's memory must be able to drop them: it is recurrent only if the
\* target's is, and then nothing was rejected.
LEMMA TrimKeeps ==
    ASSUME IInv, Trim
    PROVE  IInv' /\ ((kind.dft => kind.tgt) /\ DrafterInStep => DrafterInStep')
<1> USE DEF IInv
<1>1. /\ stage = "emit" /\ ids = <<>> /\ stage' = "loop" /\ draft' = <<>>
      /\ tgt' = SeqRm(tgt, kind.tgt, nPast) /\ dft' = SeqRm(dft, kind.dft, nPast)
      /\ UNCHANGED <<kind, prompt, nGen, promptTgt, idLast, nPast, out>>
  BY DEF Trim, asking
<1>2. /\ promptTgt \in Seq(Tokens) /\ idLast \in Tokens /\ out \in Seq(Tokens)
      /\ tgt \in [attn : Seq(Tokens), state : Seq(Tokens)]
      /\ dft \in [attn : Seq(Tokens), state : Seq(Tokens)]
      /\ nPast \in Nat /\ nGen \in Nat
      /\ kind.tgt \in BOOLEAN /\ kind.dft \in BOOLEAN
  BY MtpAssumption DEF MtpTypeOK
<1>3. /\ Said = prompt \o out /\ nPast = Len(promptTgt) /\ Len(out) <= nGen
      /\ tgt = Mem(tgt.attn) /\ nPast <= Len(tgt.attn) /\ (kind.tgt => Len(tgt.attn) = nPast)
      /\ \A i \in 1 .. nPast : tgt.attn[i] = (Said \o <<>>)[i]
  <2>1. Len(promptTgt) + Len(ids) = nPast /\ Len(out) + Len(ids) <= nGen
    BY <1>1 DEF AtEmit
  <2>2. Len(ids) = 0 /\ Len(promptTgt) \in Nat /\ Len(out) \in Nat
    BY <1>1, <1>2, LenProperties
  <2>3. nPast = Len(promptTgt) /\ Len(out) <= nGen
    BY <1>2, <2>1, <2>2
  <2>4. QED
    BY <1>1, <2>3 DEF AtEmit
<1>4. \A i \in 1 .. Len(promptTgt) : tgt.attn[i] = promptTgt[i]
  <2>1. /\ Said \in Seq(Tokens) /\ \A i \in 1 .. Len(promptTgt) : Said[i] = promptTgt[i]
    BY <1>2, AppendProperties DEF Said
  <2>2. Said \o <<>> = Said
    BY <2>1, ConcatEmptySeq
  <2>3. QED
    BY <1>3, <2>1, <2>2
<1>5. tgt.attn \in Seq(Tokens)
  BY <1>2
<1>6. tgt' = Mem(promptTgt)
  <2>1. SeqRm(Mem(tgt.attn), kind.tgt, Len(promptTgt)) = Mem(promptTgt)
    BY <1>2, <1>3, <1>4, <1>5, Trimmed
  <2>2. QED
    BY <1>1, <1>3, <2>1
<1>7. MtpTypeOK'
  <2>1. /\ tgt' \in [attn : Seq(Tokens), state : Seq(Tokens)]
        /\ dft' \in [attn : Seq(Tokens), state : Seq(Tokens)]
    BY <1>1, <1>2, MemType
  <2>2. QED
    BY <1>1, <2>1 DEF MtpTypeOK, Trim, asking
<1>8. AtRound'
  <2>1. Said' = prompt' \o out' /\ nPast' = Len(promptTgt') /\ tgt' = Mem(promptTgt')
    BY <1>1, <1>3, <1>6 DEF Said
  <2>2. Len(out') <= nGen'
    BY <1>1, <1>3
  <2>3. Saved' /\ Affordable' /\ Path(Said, draft)'
    BY <1>1 DEF Saved, Affordable, Path
  <2>4. QED
    BY <2>1, <2>2, <2>3 DEF AtRound
<1>9. AtIdle' /\ AtPrefill' /\ AtEmit'
  BY <1>1 DEF AtIdle, AtPrefill, AtEmit
<1>10. ASSUME kind.dft => kind.tgt, DrafterInStep PROVE DrafterInStep'
  <2>1. dft = Mem(tgt.attn)
    BY <1>1, <1>3, <1>10 DEF DrafterInStep
  <2>2. SeqRm(Mem(tgt.attn), kind.dft, Len(promptTgt)) = Mem(promptTgt)
    BY <1>2, <1>3, <1>4, <1>5, <1>10, Trimmed
  <2>3. dft' = Mem(promptTgt)
    BY <1>1, <1>3, <2>1, <2>2
  <2>4. QED
    BY <1>1, <1>6, <2>3 DEF DrafterInStep
<1>11. QED
  BY <1>7, <1>8, <1>9, <1>10

\* The steps that end a request, and the one that verifies what is left.
LEMMA EndKeeps ==
    ASSUME ~Retains, IInv, PrefillFails \/ VerifyFails \/ PollStop \/ Spent \/ Clear
    PROVE  IInv' /\ DrafterInStep'
<1> USE DEF IInv
<1>1. stage' \in {"ended", "idle"} /\ (stage' = "idle" => tgt' = EmptyMem)
  BY DEF PrefillFails, VerifyFails, PollStop, Spent, Clear, Emptied
<1>2. AtIdle' /\ AtPrefill' /\ AtRound' /\ AtEmit' /\ DrafterInStep'
  BY <1>1 DEF AtIdle, AtPrefill, AtRound, AtEmit, DrafterInStep
<1>3. MtpTypeOK'
  <2>1. CASE PrefillFails
    <3>1. Chunk \in Seq(Tokens)
      BY <2>1, ChunkIsNext DEF PrefillFails, MtpTypeOK
    <3>2. Feed(tgt, Chunk) \in [attn : Seq(Tokens), state : Seq(Tokens)]
      BY <3>1, MemType DEF MtpTypeOK
    <3>3. QED
      BY <2>1, <3>2 DEF PrefillFails, MtpTypeOK, asking
  <2>2. CASE VerifyFails
    <3>1. Batch \in Seq(Tokens)
      BY Shift DEF Batch, MtpTypeOK
    <3>2. Feed(tgt, Batch) \in [attn : Seq(Tokens), state : Seq(Tokens)]
      BY <3>1, MemType DEF MtpTypeOK
    <3>3. tgt' \in [attn : Seq(Tokens), state : Seq(Tokens)]
      BY <2>2, <3>2 DEF VerifyFails, MtpTypeOK
    <3>4. nPast' \in Nat
      BY <2>2 DEF VerifyFails, MtpTypeOK
    <3>5. QED
      BY <2>2, <3>3, <3>4 DEF VerifyFails, MtpTypeOK, asking
  <2>3. CASE PollStop
    BY <2>3 DEF PollStop, MtpTypeOK, asking
  <2>4. CASE Spent
    BY <2>4 DEF Spent, MtpTypeOK, asking
  <2>5. CASE Clear
    <3>1. EmptyMem \in [attn : Seq(Tokens), state : Seq(Tokens)]
      BY DEF EmptyMem
    <3>2. QED
      BY <2>5, <3>1 DEF Clear, Emptied, MtpTypeOK, asking
  <2>6. QED
    BY <2>1, <2>2, <2>3, <2>4, <2>5
<1>4. QED
  BY <1>2, <1>3

\* A shortened draft is verified once more.
LEMMA ReplayKeeps ==
    ASSUME IInv, Replay
    PROVE  IInv' /\ (DrafterInStep => DrafterInStep')
<1> USE DEF IInv
<1>1. /\ stage = "loop" /\ stage' = "verify" /\ draft # <<>>
      /\ UNCHANGED <<kind, probed, tgt, dft, prompt, nGen, promptTgt, idLast, nPast, draft, ckpt,
                     ids, out, stopped>>
  BY DEF Replay, asking
<1>2. MtpTypeOK'
  BY <1>1 DEF MtpTypeOK
<1>3. AtRound'
  BY <1>1 DEF AtRound, Said, Saved, Affordable
<1>4. AtIdle' /\ AtPrefill' /\ AtEmit'
  BY <1>1 DEF AtIdle, AtPrefill, AtEmit
<1>5. DrafterInStep => DrafterInStep'
  BY <1>1 DEF DrafterInStep
<1>6. QED
  BY <1>2, <1>3, <1>4, <1>5

\* The loop starts with empty memories.
LEMMA InitIInv ==
    ASSUME MtpInit
    PROVE  IInv /\ DrafterInStep
<1>1. MtpTypeOK
  <2>1. /\ EmptyMem \in [attn : Seq(Tokens), state : Seq(Tokens)] /\ Eog \in Tokens
        /\ NoCkpt \in [tokens : Nat, pos : Nat, tgt : Seq(Tokens), dft : Seq(Tokens)]
    BY MtpAssumption DEF EmptyMem, NoCkpt
  <2>2. /\ stage \in {"idle", "prefill", "loop", "verify", "emit", "ended"}
        /\ kind \in Kinds /\ probed \in BOOLEAN /\ stopped \in BOOLEAN
    BY DEF MtpInit
  <2>3. /\ prompt \in Seq(Tokens) /\ nGen \in Nat
        /\ promptTgt \in Seq(Tokens) /\ nPast \in Nat
        /\ draft \in Seq(Tokens) /\ ids \in Seq(Tokens) /\ out \in Seq(Tokens)
    BY DEF MtpInit
  <2>4. QED
    BY <2>1, <2>2, <2>3 DEF MtpInit, MtpTypeOK
<1>2. AtIdle /\ AtPrefill /\ AtRound /\ AtEmit /\ DrafterInStep
  BY DEF MtpInit, AtIdle, AtPrefill, AtRound, AtEmit, DrafterInStep
<1>3. QED
  BY <1>1, <1>2 DEF IInv

\* Every step keeps the invariant, and the drafter in step with the target.
LEMMA NextIInv ==
    ASSUME ~Retains, IInv, [MtpNext]_mtpVars
    PROVE  IInv' /\ ((kind.dft => kind.tgt) /\ DrafterInStep => DrafterInStep')
<1>1. CASE \E p \in Prompts, n \in NGen : Begin(p, n) \/ Refuse(p, n)
  BY <1>1, BeginKeeps
<1>2. CASE Prefill
  BY <1>2, PrefillKeeps
<1>3. CASE Primed
  BY <1>3, PrimedKeeps
<1>4. CASE \E d \in Drafts : Draft(d)
  BY <1>4, DraftKeeps
<1>5. CASE Replay
  BY <1>5, ReplayKeeps
<1>6. CASE PrefillFails \/ VerifyFails \/ PollStop \/ Spent \/ Clear
  BY <1>6, EndKeeps
<1>7. CASE RollBack
  BY <1>7, RollBackKeeps
<1>8. CASE Accept
  BY <1>8, AcceptKeeps
<1>9. CASE Emit
  BY <1>9, EmitSays
<1>10. CASE Trim
  BY <1>10, TrimKeeps
<1>11. CASE UNCHANGED mtpVars
  <2>1. MtpTypeOK' /\ AtIdle' /\ AtPrefill'
    BY <1>11 DEF IInv, MtpTypeOK, AtIdle, AtPrefill, mtpVars
  <2>2. AtRound' /\ AtEmit'
    BY <1>11 DEF IInv, AtRound, AtEmit, Said, Saved, Affordable, Path, mtpVars
  <2>3. DrafterInStep => DrafterInStep'
    BY <1>11 DEF DrafterInStep, mtpVars
  <2>4. QED
    BY <2>1, <2>2, <2>3 DEF IInv
<1>12. QED
  BY <1>1, <1>2, <1>3, <1>4, <1>5, <1>6, <1>7, <1>8, <1>9, <1>10, <1>11
     DEF MtpNext, Step

\* The inductive invariant holds in every state of the loop, if what is
\* cleared is gone.
LEMMA Inductive ==
    ASSUME ~Retains
    PROVE  MtpSpec => []IInv
<1>1. MtpInit => IInv
  BY InitIInv
<1>2. IInv /\ [MtpNext]_mtpVars => IInv'
  BY NextIInv
<1>3. QED
  BY <1>1, <1>2, PTL DEF MtpSpec

-----------------------------------------------------------------------------
(* Results.                                                                *)

\* Whatever the memories hold, what is sampled against a draft is tokens.
LEMMA SampledType ==
    ASSUME NEW m \in [attn : Seq(Tokens), state : Seq(Tokens)], NEW d \in Seq(Tokens),
           idLast \in Tokens
    PROVE  /\ Sampled(m, d) \in Seq(Tokens) \ {<<>>}
<1> DEFINE n == Accepted(m, d)
           s == Sampled(m, d)
<1>1. n \in 0 .. Len(d) /\ Len(d) \in Nat
  BY AcceptedUpTo, LenProperties
<1>2. ASSUME NEW i \in 0 .. Len(d) PROVE Row(m, d, i) \in Tokens
  <2>1. <<idLast>> \o SubSeq(d, 1, i) \in Seq(Tokens)
    BY PartOf, Shift
  <2>2. Feed(m, <<idLast>> \o SubSeq(d, 1, i)) \in [attn : Seq(Tokens), state : Seq(Tokens)]
    BY <2>1, MemType
  <2>3. ASSUME NEW c \in [attn : Seq(Tokens), state : Seq(Tokens)] PROVE Best(c) \in Tokens
    BY TargetType, MtpAssumption DEF Best
  <2>4. QED
    BY <2>2, <2>3 DEF Row
<1>3. s = [i \in 1 .. n + 1 |-> Row(m, d, i - 1)] /\ n + 1 \in Nat
  BY <1>1 DEF Sampled
<1> HIDE DEF s, n
<1>4. \A i \in 1 .. n + 1 : i - 1 \in 0 .. Len(d)
  BY <1>1
<1>5. s \in [1 .. n + 1 -> Tokens]
  BY <1>2, <1>3, <1>4
<1>6. ASSUME NEW z \in Nat, s \in [1 .. z -> Tokens], z > 0 PROVE s \in Seq(Tokens) \ {<<>>}
  BY <1>6
<1>7. n + 1 > 0
  BY <1>1
<1>8. QED
  BY <1>3, <1>5, <1>6, <1>7 DEF s

\* What a clear leaves is a memory.
LEMMA EmptiedType ==
    ASSUME NEW m \in [attn : Seq(Tokens), state : Seq(Tokens)]
    PROVE  Emptied(m) \subseteq [attn : Seq(Tokens), state : Seq(Tokens)]
<1>1. EmptyMem = [attn |-> <<>>, state |-> <<>>] /\ <<>> \in Seq(Tokens) /\ m.state \in Seq(Tokens)
  BY DEF EmptyMem
<1>2. [EmptyMem EXCEPT !.state = m.state] = [attn |-> <<>>, state |-> m.state]
  BY <1>1
<1>3. /\ EmptyMem \in [attn : Seq(Tokens), state : Seq(Tokens)]
      /\ [EmptyMem EXCEPT !.state = m.state] \in [attn : Seq(Tokens), state : Seq(Tokens)]
  BY <1>1, <1>2
<1>4. \A e \in Emptied(m) : e = EmptyMem \/ e = [EmptyMem EXCEPT !.state = m.state]
  BY Zenon DEF Emptied
<1>5. QED
  BY <1>3, <1>4, Zenon

\* Types are kept by every step, whatever earlier requests left in the memories:
\* a prompt that is primed has a last token.
HasPrompt == stage = "prefill" => prompt # <<>>

\* The steps in front of the first round.
LEMMA StartTypes ==
    ASSUME MtpTypeOK, HasPrompt,
           \/ \E p \in Prompts, n \in NGen : Begin(p, n) \/ Refuse(p, n)
           \/ Prefill \/ PrefillFails \/ Primed
    PROVE  MtpTypeOK' /\ HasPrompt'
<1>1. CASE \E p \in Prompts, n \in NGen : Begin(p, n) \/ Refuse(p, n)
  <2>1. PICK p \in Prompts, n \in NGen : Begin(p, n) \/ Refuse(p, n)
    BY <1>1
  <2>2. /\ p \in Seq(Tokens) /\ n \in Nat /\ Fresh(p, n) /\ Eog \in Tokens
        /\ stage' \in {"prefill", "ended"} /\ (stage' = "prefill" => p # <<>>)
        /\ probed' \in BOOLEAN /\ tgt' \in {tgt, EmptyMem}
    BY <2>1, MtpAssumption DEF Begin, Refuse, MtpTypeOK
  <2>3. NoCkpt \in [tokens : Nat, pos : Nat, tgt : Seq(Tokens), dft : Seq(Tokens)]
    BY DEF NoCkpt
  <2>4. EmptyMem \in [attn : Seq(Tokens), state : Seq(Tokens)]
    BY DEF EmptyMem
  <2>5. Emptied(dft) \subseteq [attn : Seq(Tokens), state : Seq(Tokens)]
    BY EmptiedType DEF MtpTypeOK
  <2>6. /\ tgt' \in [attn : Seq(Tokens), state : Seq(Tokens)]
        /\ dft' \in [attn : Seq(Tokens), state : Seq(Tokens)]
    BY <2>2, <2>4, <2>5 DEF Fresh, MtpTypeOK
  <2>7. /\ prompt' \in Seq(Tokens) /\ nGen' \in Nat
        /\ promptTgt' \in Seq(Tokens) /\ idLast' \in Tokens /\ nPast' \in Nat
        /\ draft' \in Seq(Tokens) /\ ids' \in Seq(Tokens) /\ out' \in Seq(Tokens)
    BY <2>2 DEF Fresh
  <2>8. /\ ckpt' \in [tokens : Nat, pos : Nat, tgt : Seq(Tokens), dft : Seq(Tokens)]
        /\ kind' \in Kinds /\ stopped' \in BOOLEAN
    BY <2>2, <2>3 DEF Fresh, MtpTypeOK
  <2>9. QED
    BY <2>2, <2>6, <2>7, <2>8 DEF MtpTypeOK, HasPrompt, Fresh
<1>2. CASE Prefill \/ PrefillFails
  <2>1. Chunk \in Seq(Tokens) /\ Len(Chunk) \in Nat
    BY <1>2, ChunkIsNext, LenProperties DEF Prefill, PrefillFails, MtpTypeOK
  <2>2. /\ Feed(tgt, Chunk) \in [attn : Seq(Tokens), state : Seq(Tokens)]
        /\ Feed(dft, Chunk) \in [attn : Seq(Tokens), state : Seq(Tokens)]
    BY <2>1, MemType DEF MtpTypeOK
  <2>3. nPast + Len(Chunk) \in Nat
    BY <2>1 DEF MtpTypeOK
  <2>4. CASE Prefill
    BY <2>2, <2>3, <2>4 DEF Prefill, MtpTypeOK, HasPrompt, asking
  <2>5. CASE PrefillFails
    BY <2>2, <2>5 DEF PrefillFails, MtpTypeOK, HasPrompt, asking
  <2>6. QED
    BY <1>2, <2>4, <2>5
<1>3. CASE Primed
  <2>1. prompt \in Seq(Tokens) /\ prompt # <<>> /\ Len(prompt) \in Nat \ {0}
    BY <1>3, EmptySeq, LenProperties DEF Primed, MtpTypeOK, HasPrompt
  <2>2. prompt[Len(prompt)] \in Tokens /\ Len(prompt) - 1 \in Nat
    BY <2>1
  <2>3. Cut(prompt, Len(prompt) - 1) \in Seq(Tokens)
    BY <2>1, <2>2, CutType
  <2>4. QED
    BY <1>3, <2>2, <2>3 DEF Primed, MtpTypeOK, HasPrompt, asking
<1>4. QED
  BY <1>1, <1>2, <1>3

\* The steps of a round.
LEMMA RoundTypes ==
    ASSUME MtpTypeOK, HasPrompt,
           (\E d \in Drafts : Draft(d)) \/ RollBack \/ Accept
    PROVE  MtpTypeOK' /\ HasPrompt'
<1> DEFINE Mems == [attn : Seq(Tokens), state : Seq(Tokens)]
<1>0. /\ tgt \in Mems /\ dft \in Mems /\ tgt.state \in Seq(Tokens) /\ dft.state \in Seq(Tokens)
      /\ tgt.attn \in Seq(Tokens) /\ Len(tgt.attn) \in Nat /\ Len(promptTgt) \in Nat
      /\ idLast \in Tokens /\ draft \in Seq(Tokens) /\ promptTgt \in Seq(Tokens)
      /\ ckpt.tgt \in Seq(Tokens) /\ ckpt.dft \in Seq(Tokens) /\ ckpt.pos \in Nat
      /\ ckpt.tokens \in Nat
  BY LenProperties DEF MtpTypeOK
<1>k. kind.tgt \in BOOLEAN /\ kind.dft \in BOOLEAN
  BY MtpAssumption DEF MtpTypeOK
<1>b. Batch \in Seq(Tokens)
  BY <1>0, Shift DEF Batch
<1>f. Feed(tgt, Batch) \in Mems /\ Feed(dft, Batch) \in Mems
  BY <1>0, <1>b, MemType
<1>s. Sampled(tgt, draft) \in Seq(Tokens) \ {<<>>}
  BY <1>0, SampledType
<1>1. CASE \E d \in Drafts : Draft(d)
  <2>1. PICK d \in Drafts : Draft(d)
    BY <1>1
  <2>2. d \in Seq(Tokens)
    BY MtpAssumption DEF Drafts
  <2>3. <<idLast>> \o d \in Seq(Tokens)
    BY <1>0, <2>2, Shift
  <2>4. Feed(dft, <<idLast>> \o d) \in Mems
    BY <1>0, <2>3, MemType
  <2>5. Load(Feed(dft, <<idLast>> \o d), kind.dft, dft.state) \in Mems
    BY <1>0, <1>k, <2>4, MemType
  <2>6. SeqRm(Load(Feed(dft, <<idLast>> \o d), kind.dft, dft.state), kind.dft, Len(tgt.attn))
            \in Mems
    BY <1>0, <1>k, <2>5, MemType
  <2>7. ckpt' \in [tokens : Nat, pos : Nat, tgt : Seq(Tokens), dft : Seq(Tokens)]
    BY <1>0, <2>1 DEF Draft
  <2>8. /\ dft' \in Mems /\ draft' \in Seq(Tokens) /\ stage' = "verify"
        /\ UNCHANGED <<kind, probed, tgt, prompt, nGen, promptTgt, idLast, nPast, ids, out,
                       stopped>>
    BY <2>1, <2>2, <2>6 DEF Draft, asking
  <2>9. QED
    BY <2>7, <2>8 DEF MtpTypeOK, HasPrompt
<1>2. CASE RollBack
  <2>1. /\ Load(Feed(tgt, Batch), kind.tgt, ckpt.tgt) \in Mems
        /\ Load(Feed(dft, Batch), kind.dft, ckpt.dft) \in Mems
    BY <1>0, <1>k, <1>f, MemType
  <2>2. /\ SeqRm(Load(Feed(tgt, Batch), kind.tgt, ckpt.tgt), kind.tgt, ckpt.pos) \in Mems
        /\ SeqRm(Load(Feed(dft, Batch), kind.dft, ckpt.dft), kind.dft, ckpt.pos) \in Mems
    BY <1>0, <1>k, <2>1, MemType
  <2>3. Cut(promptTgt, ckpt.tokens) \in Seq(Tokens)
    BY <1>0, CutType
  <2>4. /\ tgt' \in Mems /\ dft' \in Mems /\ draft' \in Seq(Tokens)
        /\ promptTgt' \in Seq(Tokens) /\ nPast' = Len(promptTgt') /\ stage' = "loop"
        /\ UNCHANGED <<kind, probed, prompt, nGen, idLast, ckpt, ids, out, stopped>>
    BY <1>2, <1>s, <2>2, <2>3 DEF RollBack, asking
  <2>5. nPast' \in Nat
    BY <2>4, LenProperties
  <2>6. QED
    BY <2>4, <2>5 DEF MtpTypeOK, HasPrompt
<1>3. CASE Accept
  <2>1. /\ tgt' \in Mems /\ dft' \in Mems /\ ids' \in Seq(Tokens) /\ nPast' = nPast + Len(ids')
        /\ stage' = "emit"
        /\ UNCHANGED <<kind, probed, prompt, nGen, promptTgt, idLast, draft, ckpt, out, stopped>>
    BY <1>3, <1>s, <1>f DEF Accept, asking
  <2>2. nPast' \in Nat
    BY <2>1, LenProperties DEF MtpTypeOK
  <2>3. QED
    BY <2>1, <2>2 DEF MtpTypeOK, HasPrompt
<1>4. QED
  BY <1>1, <1>2, <1>3

\* The steps behind it, and the end of a request.
LEMMA EndTypes ==
    ASSUME MtpTypeOK, HasPrompt,
           \/ Replay \/ Spent \/ PollStop \/ VerifyFails \/ Emit \/ Trim \/ Clear
           \/ UNCHANGED mtpVars
    PROVE  MtpTypeOK' /\ HasPrompt'
<1>1. CASE Replay \/ Spent \/ PollStop
  BY <1>1 DEF Replay, Spent, PollStop, MtpTypeOK, HasPrompt, asking
<1>2. CASE VerifyFails
  <2>1. Batch \in Seq(Tokens)
    BY Shift DEF Batch, MtpTypeOK
  <2>2. Feed(tgt, Batch) \in [attn : Seq(Tokens), state : Seq(Tokens)]
    BY <2>1, MemType DEF MtpTypeOK
  <2>3. tgt' \in [attn : Seq(Tokens), state : Seq(Tokens)]
    BY <1>2, <2>2 DEF VerifyFails, MtpTypeOK
  <2>4. nPast' \in Nat
    BY <1>2 DEF VerifyFails, MtpTypeOK
  <2>5. QED
    BY <1>2, <2>3, <2>4 DEF VerifyFails, MtpTypeOK, HasPrompt, asking
<1>3. CASE Emit
  <2>1. /\ ids \in Seq(Tokens) /\ ids # <<>> /\ promptTgt \in Seq(Tokens) /\ idLast \in Tokens
        /\ out \in Seq(Tokens)
    BY <1>3 DEF Emit, MtpTypeOK
  <2>2. Head(ids) \in Tokens /\ Tail(ids) \in Seq(Tokens) /\ Append(promptTgt, idLast) \in Seq(Tokens)
    BY <2>1, HeadTailProperties, AppendProperties
  <2>3. Append(out, Head(ids)) \in Seq(Tokens)
    BY <2>1, <2>2, AppendProperties
  <2>4. /\ promptTgt' \in Seq(Tokens) /\ idLast' \in Tokens /\ ids' \in Seq(Tokens)
        /\ out' \in Seq(Tokens) /\ stage' \in {"emit", "ended"}
        /\ UNCHANGED <<kind, probed, tgt, dft, prompt, nGen, nPast, draft, ckpt, stopped>>
    BY <1>3, <2>1, <2>2, <2>3 DEF Emit, asking
  <2>5. QED
    BY <2>4 DEF MtpTypeOK, HasPrompt
<1>4. CASE Trim
  <2>1. kind.tgt \in BOOLEAN /\ kind.dft \in BOOLEAN
    BY MtpAssumption DEF MtpTypeOK
  <2>2. /\ SeqRm(tgt, kind.tgt, nPast) \in [attn : Seq(Tokens), state : Seq(Tokens)]
        /\ SeqRm(dft, kind.dft, nPast) \in [attn : Seq(Tokens), state : Seq(Tokens)]
    <3>1. /\ tgt \in [attn : Seq(Tokens), state : Seq(Tokens)]
          /\ dft \in [attn : Seq(Tokens), state : Seq(Tokens)]
          /\ nPast \in Nat /\ <<>> \in Seq(Tokens)
      BY DEF MtpTypeOK
    <3>2. QED
      BY <2>1, <3>1, MemType
  <2>3. /\ tgt' \in [attn : Seq(Tokens), state : Seq(Tokens)]
        /\ dft' \in [attn : Seq(Tokens), state : Seq(Tokens)]
        /\ draft' \in Seq(Tokens) /\ stage' = "loop"
        /\ UNCHANGED <<kind, probed, prompt, nGen, promptTgt, idLast, nPast, ckpt, ids, out,
                       stopped>>
    BY <1>4, <2>2 DEF Trim, asking
  <2>4. MtpTypeOK'
    BY <2>3 DEF MtpTypeOK
  <2>5. QED
    BY <2>3, <2>4 DEF HasPrompt
<1>5. CASE Clear
  <2>1. Emptied(tgt) \subseteq [attn : Seq(Tokens), state : Seq(Tokens)]
    BY EmptiedType DEF MtpTypeOK
  <2>2. QED
    BY <1>5, <2>1 DEF Clear, MtpTypeOK, HasPrompt, asking
<1>6. CASE UNCHANGED mtpVars
  BY <1>6 DEF MtpTypeOK, HasPrompt, mtpVars
<1>7. QED
  BY <1>1, <1>2, <1>3, <1>4, <1>5, <1>6

\* Types hold in every behaviour of the loop, failed decodes, rollbacks and
\* whatever a clear leaves behind included; above all, what is sampled is tokens
\* and no position is negative.
THEOREM MtpTypeCorrect == MtpSpec => []MtpTypeOK
<1>1. MtpInit => MtpTypeOK /\ HasPrompt
  BY InitIInv DEF IInv, MtpInit, HasPrompt
<1>2. ASSUME MtpTypeOK, HasPrompt, [MtpNext]_mtpVars PROVE MtpTypeOK' /\ HasPrompt'
  BY <1>2, StartTypes, RoundTypes, EndTypes DEF MtpNext, Step
<1>3. QED
  BY <1>1, <1>2, PTL DEF MtpSpec

\* At the top of every round the memories of the target and of the drafter
\* hold the conversation and nothing rejected, and a draft left by a rollback
\* is the target's own path, provided the drafter's context is recurrent only
\* if the target's is: the rollback is decided by the target's kind alone
\* (cne_stream_spec.cpp:129, :207); and provided the clears behind the requests
\* leave nothing, which the server denies of some models (cne-server.cpp:1314).
THEOREM RoundsStartClean ==
    ASSUME ~Retains, \A k \in Kinds : k.dft => k.tgt
    PROVE  MtpSpec => []LoopInvariant
<1>1. MtpInit => DrafterInStep
  BY InitIInv
<1>2. IInv => (kind.dft => kind.tgt)
  BY DEF IInv, MtpTypeOK
<1>3. IInv /\ DrafterInStep /\ [MtpNext]_mtpVars => DrafterInStep'
  BY <1>2, NextIInv
<1>4. IInv /\ DrafterInStep => LoopInvariant
  <2> SUFFICES ASSUME IInv, DrafterInStep, stage = "loop" PROVE LoopInvariant
    BY DEF LoopInvariant, MemoriesInStep, ReplayIsTarget
  <2>1. promptTgt \in Seq(Tokens) /\ idLast \in Tokens
    BY DEF IInv, MtpTypeOK
  <2>2. Said = promptTgt \o <<idLast>>
    BY <2>1, Joined DEF Said
  <2>3. /\ Said = prompt \o out /\ nPast = Len(promptTgt) /\ tgt = Mem(promptTgt)
        /\ Path(Said, draft) /\ dft = tgt
    BY DEF IInv, AtRound, DrafterInStep
  <2>4. MemoriesInStep
    BY <2>2, <2>3 DEF MemoriesInStep, Mem
  <2>5. ReplayIsTarget
    BY <2>2, <2>3 DEF ReplayIsTarget, Path
  <2>6. QED
    BY <2>4, <2>5 DEF LoopInvariant
<1>5. QED
  BY <1>1, <1>3, <1>4, Inductive, PTL DEF MtpSpec

\* Speculation is lossless (cne_stream_spec.cpp:2): the loop implements greedy
\* decoding by the target alone, for any drafts, kinds of memory, failures and
\* stops: a request starts it, an emitted token is its next token, and every
\* other step of the loop is invisible.  The hypothesis is that the clears behind
\* the requests leave nothing, the upstream defect of cne-server.cpp:1314 apart.
THEOREM Lossless ==
    ASSUME ~Retains
    PROVE  MtpSpec => ImplementsGreedy
<1>1. MtpInit => Greedy!Init
  BY DEF MtpInit, Greedy!Init
<1>2. ASSUME IInv, [MtpNext]_mtpVars PROVE [Greedy!Next]_(Greedy!gvars)
  <2>1. CASE \E p \in Prompts, n \in NGen : Begin(p, n) \/ Refuse(p, n)
    <3>1. stage = "idle" /\ stage' \in {"prefill", "ended"} /\ out' = <<>>
      BY <2>1 DEF Begin, Refuse, Fresh
    <3>2. Greedy!Start
      BY <3>1 DEF Greedy!Start
    <3>3. QED
      BY <3>2 DEF Greedy!Next
  <2>2. CASE Emit
    <3>1. /\ stage = "emit" /\ stage' \in {"emit", "ended"} /\ UNCHANGED <<prompt, nGen>>
          /\ out' = out \/ (Head(ids) # Eog /\ out' = Append(out, Head(ids)))
      BY <2>2 DEF Emit, asking
    <3>2. Head(ids) = Target(prompt \o out) /\ Len(out) < nGen
      BY <1>2, <2>2, EmitSays
    <3>3. CASE out' = out
      BY <3>1, <3>3 DEF Greedy!gvars
    <3>4. CASE Head(ids) # Eog /\ out' = Append(out, Head(ids))
      <4>1. Greedy!Say
        BY <3>1, <3>2, <3>4 DEF Greedy!Say
      <4>2. QED
        BY <4>1 DEF Greedy!Next
    <3>5. QED
      BY <3>1, <3>3, <3>4
  <2>3. CASE Clear
    <3>1. Greedy!End
      BY <2>3 DEF Clear, asking, Greedy!End
    <3>2. QED
      BY <3>1 DEF Greedy!Next
  <2>4. CASE \/ Prefill \/ PrefillFails \/ Primed \/ (\E d \in Drafts : Draft(d)) \/ Replay
             \/ Spent \/ VerifyFails \/ RollBack \/ Accept \/ Trim \/ PollStop
             \/ UNCHANGED mtpVars
    <3>1. UNCHANGED <<prompt, nGen, out>> /\ ((stage # "idle")' <=> stage # "idle")
      BY <2>4 DEF Prefill, PrefillFails, Primed, Draft, Replay, Spent, VerifyFails,
                  RollBack, Accept, Trim, PollStop, asking, mtpVars
    <3>2. QED
      BY <3>1 DEF Greedy!gvars
  <2>5. QED
    BY <1>2, <2>1, <2>2, <2>3, <2>4 DEF MtpNext, Step
<1>3. QED
  BY <1>1, <1>2, Inductive, PTL DEF MtpSpec, ImplementsGreedy, Greedy!Spec
=============================================================================
