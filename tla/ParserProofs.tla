----------------------------- MODULE ParserProofs -----------------------------
(***************************************************************************)
(* Proofs about the parser, for every set of names, limit, token size and  *)
(* input: what was too large stays refused, the stack has a builder for    *)
(* every element that is open and no index is out of range unless an       *)
(* </open> came inside a stanza, the stanza that is returned is the one    *)
(* that has ended, and one that is read at once keeps the limit.           *)
(***************************************************************************)
EXTENDS ParserInput, FiniteSetTheorems, SequenceTheorems, WellFoundedInduction, TLAPS

Tags     == Names \cup Headers
Pieces   == Names \cup Texts \cup {"/"}
Builders == [name : Names, text : Seq(Pieces), kids : Seq(Pieces)]

TypeOK ==
    /\ maxStanzaSize \in Nat /\ off \in Nat /\ lastOffset \in Nat /\ began \in Nat
    /\ stack \in Seq(Builders)
    /\ pIndex \in Int /\ pIndex >= -1
    /\ open \in Seq(Tags)
    /\ inElement \in BOOLEAN /\ whole \in BOOLEAN /\ ended \in BOOLEAN /\ torn \in BOOLEAN

\* The elements among the first n tags.
Among(op, n) == Cardinality({i \in 1 .. n : op[i] \notin Headers})

\* There is a builder for every element, in their order.
Fits(st, op) ==
    /\ Len(st) = Among(op, Len(op))
    /\ \A i \in DOMAIN op : op[i] \notin Headers => st[Among(op, i)].name = op[i]

\* A text is only put into an element that is there, unless the stack is torn,
\* and an index that is out of range is one past the end of a torn stack.
Matching ==
    /\ inElement => pIndex >= 0
    /\ ~torn => /\ Fits(stack, open) /\ pIndex = Len(stack) - 1
                /\ ret # Panic

\* What the limit is compared with is never ahead of what was read, a stanza
\* that is read at once began at it or later, and what was too large still is.
Limiting ==
    /\ lastOffset <= off
    /\ whole /\ Level > 0 => lastOffset <= began
    /\ ret = ErrTooLargeStanza => maxStanzaSize > 0 /\ off - lastOffset > maxStanzaSize

PInv == TypeOK /\ Matching /\ Limiting /\ ReadAtOnceIsLimited

-----------------------------------------------------------------------------
(* Counting the elements that are open *)

\* The elements are a finite set.
LEMMA AmongNat ==
    ASSUME NEW op, NEW n \in Nat
    PROVE  IsFiniteSet({i \in 1 .. n : op[i] \notin Headers}) /\ Among(op, n) \in Nat
  <1>1. IsFiniteSet(1 .. n)
    BY FS_Interval
  <1>2. {i \in 1 .. n : op[i] \notin Headers} \in SUBSET (1 .. n)
    OBVIOUS
  <1>3. IsFiniteSet({i \in 1 .. n : op[i] \notin Headers})
    BY <1>1, <1>2, FS_Subset
  <1>. QED
    BY <1>3, FS_CardinalityType DEF Among

\* One more tag is one more element, if it is one.
LEMMA AmongNext ==
    ASSUME NEW op, NEW n \in Nat
    PROVE  Among(op, n + 1) = IF op[n + 1] \in Headers THEN Among(op, n) ELSE Among(op, n) + 1
  <1>. DEFINE A == {i \in 1 .. n : op[i] \notin Headers}
              B == {i \in 1 .. n + 1 : op[i] \notin Headers}
  <1>0. n + 1 \notin A
    OBVIOUS
  <1>1. IsFiniteSet(A)
    BY AmongNat
  <1>2. CASE op[n + 1] \in Headers
    <2>1. A = B
      BY <1>2
    <2>. QED
      BY <1>2, <2>1 DEF Among
  <1>3. CASE op[n + 1] \notin Headers
    <2>1. B = A \cup {n + 1}
      BY <1>3
    <2>2. Cardinality(A \cup {n + 1}) = Cardinality(A) + 1
      BY <1>0, <1>1, FS_AddElement
    <2>. QED
      BY <1>3, <2>1, <2>2 DEF Among
  <1>. QED
    BY <1>2, <1>3

\* Tags count the same wherever they are.
LEMMA AmongSame ==
    ASSUME NEW op, NEW oq, NEW n \in Nat, \A i \in 1 .. n : op[i] = oq[i]
    PROVE  Among(op, n) = Among(oq, n)
  <1>1. {i \in 1 .. n : op[i] \notin Headers} = {i \in 1 .. n : oq[i] \notin Headers}
    OBVIOUS
  <1>. QED
    BY <1>1 DEF Among

\* Later tags count more, and an element counts itself.
LEMMA AmongGrows ==
    ASSUME NEW op, NEW n \in Nat, NEW i \in 1 .. n
    PROVE  Among(op, i) <= Among(op, n) /\ (op[i] \notin Headers => Among(op, i) >= 1)
  <1>1. IsFiniteSet({j \in 1 .. n : op[j] \notin Headers})
    BY AmongNat
  <1>2. {j \in 1 .. i : op[j] \notin Headers} \subseteq {j \in 1 .. n : op[j] \notin Headers}
    OBVIOUS
  <1>3. Among(op, i) <= Among(op, n)
    BY <1>1, <1>2, FS_Subset DEF Among
  <1>4. ASSUME op[i] \notin Headers
        PROVE  Among(op, i) >= 1
    <2>1. i - 1 \in Nat /\ (i - 1) + 1 = i
      OBVIOUS
    <2>2. Among(op, i) = Among(op, i - 1) + 1 /\ Among(op, i - 1) \in Nat
      BY <1>4, <2>1, AmongNext, AmongNat
    <2>. QED
      BY <2>2
  <1>. QED
    BY <1>3, <1>4

-----------------------------------------------------------------------------
(* Builders and tags *)

\* What counts for Fits are the names of the builders.
LEMMA FitsNames ==
    ASSUME NEW st \in Seq(Builders), NEW su \in Seq(Builders), NEW op \in Seq(Tags),
           Fits(st, op), Len(su) = Len(st), \A k \in 1 .. Len(st) : su[k].name = st[k].name
    PROVE  Fits(su, op)
  <1>1. Len(op) \in Nat /\ DOMAIN op = 1 .. Len(op) /\ Len(st) \in Nat
    BY LenProperties
  <1>2. ASSUME NEW i \in DOMAIN op, op[i] \notin Headers
        PROVE  su[Among(op, i)].name = op[i]
    <2>0. Len(st) = Among(op, Len(op))
      BY DEF Fits
    <2>1. Among(op, i) <= Len(st) /\ Among(op, i) >= 1
      BY <1>1, <1>2, <2>0, AmongGrows
    <2>2. Among(op, i) \in Nat
      <3>1. i \in Nat
        BY <1>1
      <3>. QED
        BY <3>1, AmongNat
    <2>3. Among(op, i) \in 1 .. Len(st)
      BY <1>1, <2>1, <2>2
    <2>. QED
      BY <1>2, <2>3 DEF Fits
  <1>. QED
    BY <1>2 DEF Fits

\* A start tag and its builder.
LEMMA FitsPush ==
    ASSUME NEW st \in Seq(Builders), NEW op \in Seq(Tags), Fits(st, op),
           NEW n \in Names, NEW b \in Builders, b.name = n
    PROVE  Fits(Append(st, b), Append(op, n)) /\ Among(Append(op, n), Len(op) + 1) = Among(op, Len(op)) + 1
  <1>. DEFINE oq == Append(op, n)
              su == Append(st, b)
  <1>1. n \in Tags /\ n \notin Headers
    BY ParserAssumption DEF Tags
  <1>2. /\ Len(op) \in Nat /\ DOMAIN op = 1 .. Len(op)
        /\ oq \in Seq(Tags) /\ Len(oq) = Len(op) + 1
        /\ \A i \in 1 .. Len(op) : oq[i] = op[i]
        /\ oq[Len(op) + 1] = n
    BY <1>1, LenProperties, AppendProperties
  <1>3. /\ Len(st) \in Nat /\ Len(su) = Len(st) + 1
        /\ \A i \in 1 .. Len(st) : su[i] = st[i]
        /\ su[Len(st) + 1] = b
    BY LenProperties, AppendProperties
  <1>4. DOMAIN oq = 1 .. Len(op) + 1
    BY <1>2, LenProperties
  <1>. HIDE DEF oq, su
  <1>5. \A i \in 0 .. Len(op) : Among(oq, i) = Among(op, i)
    BY <1>2, AmongSame
  <1>6. Among(oq, Len(op) + 1) = Among(op, Len(op)) + 1
    <2>1. oq[Len(op) + 1] \notin Headers /\ Len(op) \in 0 .. Len(op)
      BY <1>1, <1>2
    <2>2. Among(oq, Len(op) + 1) = Among(oq, Len(op)) + 1
      BY <1>2, <2>1, AmongNext
    <2>. QED
      BY <1>5, <2>1, <2>2
  <1>0. Len(st) = Among(op, Len(op))
    BY DEF Fits
  <1>7. Len(su) = Among(oq, Len(oq))
    BY <1>0, <1>2, <1>3, <1>6
  <1>8. ASSUME NEW i \in DOMAIN oq, oq[i] \notin Headers
        PROVE  su[Among(oq, i)].name = oq[i]
    <2>1. CASE i = Len(op) + 1
      BY <1>0, <1>2, <1>3, <1>6, <2>1
    <2>2. CASE i \in 1 .. Len(op)
      <3>1. op[i] \notin Headers /\ Among(oq, i) = Among(op, i)
        BY <1>2, <1>5, <1>8, <2>2
      <3>2. Among(op, i) <= Len(st) /\ Among(op, i) >= 1
        BY <1>0, <1>2, <2>2, <3>1, AmongGrows
      <3>3. Among(op, i) \in Nat
        <4>1. i \in Nat
          BY <1>2, <2>2
        <4>. QED
          BY <4>1, AmongNat
      <3>4. Among(op, i) \in 1 .. Len(st)
        BY <1>3, <3>2, <3>3
      <3>5. st[Among(op, i)].name = op[i]
        BY <1>2, <2>2, <3>1 DEF Fits
      <3>. QED
        BY <1>2, <1>3, <2>2, <3>1, <3>4, <3>5
    <2>3. i = Len(op) + 1 \/ i \in 1 .. Len(op)
      BY <1>2, <1>4
    <2>. QED
      BY <2>1, <2>2, <2>3
  <1>. QED
    BY <1>6, <1>7, <1>8 DEF Fits, oq, su

\* A header changes nothing.
LEMMA FitsHeader ==
    ASSUME NEW st \in Seq(Builders), NEW op \in Seq(Tags), Fits(st, op), NEW h \in Headers
    PROVE  Fits(st, Append(op, h)) /\ Among(Append(op, h), Len(op) + 1) = Among(op, Len(op))
  <1>. DEFINE oq == Append(op, h)
  <1>1. h \in Tags
    BY DEF Tags
  <1>2. /\ Len(op) \in Nat /\ DOMAIN op = 1 .. Len(op)
        /\ oq \in Seq(Tags) /\ Len(oq) = Len(op) + 1
        /\ \A i \in 1 .. Len(op) : oq[i] = op[i]
        /\ oq[Len(op) + 1] = h
    BY <1>1, LenProperties, AppendProperties
  <1>3. DOMAIN oq = 1 .. Len(op) + 1
    BY <1>2, LenProperties
  <1>. HIDE DEF oq
  <1>4. \A i \in 0 .. Len(op) : Among(oq, i) = Among(op, i)
    BY <1>2, AmongSame
  <1>5. Among(oq, Len(op) + 1) = Among(op, Len(op))
    <2>1. oq[Len(op) + 1] \in Headers /\ Len(op) \in 0 .. Len(op)
      BY <1>2
    <2>2. Among(oq, Len(op) + 1) = Among(oq, Len(op))
      BY <1>2, <2>1, AmongNext
    <2>. QED
      BY <1>4, <2>1, <2>2
  <1>6. Len(st) = Among(oq, Len(oq))
    BY <1>2, <1>5 DEF Fits
  <1>7. ASSUME NEW i \in DOMAIN oq, oq[i] \notin Headers
        PROVE  st[Among(oq, i)].name = oq[i]
    <2>1. i \in 1 .. Len(op) /\ op[i] = oq[i]
      BY <1>2, <1>3, <1>7
    <2>2. Among(oq, i) = Among(op, i)
      BY <1>2, <1>4, <2>1
    <2>. QED
      BY <1>2, <1>7, <2>1, <2>2 DEF Fits
  <1>. QED
    BY <1>5, <1>6, <1>7 DEF Fits, oq

\* What is left when the last tag is gone.
LEMMA FrontOf ==
    ASSUME NEW op \in Seq(Tags), op # <<>>
    PROVE  /\ Len(op) \in Nat \ {0} /\ DOMAIN op = 1 .. Len(op)
           /\ Front(op) \in Seq(Tags) /\ Len(Front(op)) = Len(op) - 1
           /\ DOMAIN Front(op) = 1 .. Len(op) - 1
           /\ \A i \in 1 .. Len(op) - 1 : Front(op)[i] = op[i]
           /\ \A i \in 0 .. Len(op) - 1 : Among(Front(op), i) = Among(op, i)
           /\ Among(op, Len(op)) = IF Last(op) \in Headers THEN Among(op, Len(op) - 1)
                                                          ELSE Among(op, Len(op) - 1) + 1
           /\ Among(op, Len(op) - 1) \in Nat
  <1>1. Len(op) \in Nat \ {0} /\ DOMAIN op = 1 .. Len(op)
    BY LenProperties, EmptySeq
  <1>2. \A i \in 1 .. Len(op) - 1 : op[i] \in Tags
    BY <1>1, ElementOfSeq
  <1>. DEFINE m == Len(op) - 1
              oq == SubSeq(op, 1, m)
  <1>3. m \in Nat /\ m + 1 = Len(op)
    BY <1>1
  <1>. HIDE DEF m
  <1>4. oq \in Seq(Tags) /\ Len(oq) = m /\ \A i \in 1 .. m : oq[i] = op[i]
    <2>1. \A i \in 1 .. m : op[i] \in Tags
      BY <1>2 DEF m
    <2>2. /\ oq \in Seq(Tags)
          /\ Len(oq) = IF 1 <= m THEN m - 1 + 1 ELSE 0
          /\ \A i \in 1 .. m - 1 + 1 : oq[i] = op[1 + i - 1]
      BY <1>3, <2>1, SubSeqProperties
    <2>. QED
      BY <1>3, <2>2
  <1>5. oq = Front(op)
    BY DEF Front, m
  <1>. HIDE DEF oq
  <1>6. \A i \in 0 .. m : Among(oq, i) = Among(op, i)
    BY <1>3, <1>4, AmongSame
  <1>7. Among(op, m + 1) = IF op[m + 1] \in Headers THEN Among(op, m) ELSE Among(op, m) + 1
    BY <1>3, AmongNext
  <1>8. Among(op, m) \in Nat
    BY <1>3, AmongNat
  <1>9. DOMAIN oq = 1 .. m
    BY <1>4, LenProperties
  <1>10. Last(op) = op[m + 1]
    BY <1>3 DEF Last
  <1>11. m = Len(op) - 1
    BY DEF m
  <1>12. Front(op) \in Seq(Tags) /\ Len(Front(op)) = Len(op) - 1 /\ DOMAIN Front(op) = 1 .. Len(op) - 1
    BY <1>4, <1>5, <1>9, <1>11
  <1>13. /\ \A i \in 1 .. Len(op) - 1 : Front(op)[i] = op[i]
         /\ \A i \in 0 .. Len(op) - 1 : Among(Front(op), i) = Among(op, i)
    BY <1>4, <1>5, <1>6, <1>11
  <1>14. /\ Among(op, Len(op)) = IF Last(op) \in Headers THEN Among(op, Len(op) - 1)
                                                          ELSE Among(op, Len(op) - 1) + 1
         /\ Among(op, Len(op) - 1) \in Nat
    BY <1>3, <1>7, <1>8, <1>10, <1>11
  <1>. QED
    BY <1>1, <1>12, <1>13, <1>14

\* The end of a header changes nothing.
LEMMA FitsPopHeader ==
    ASSUME NEW st \in Seq(Builders), NEW op \in Seq(Tags), op # <<>>, Fits(st, op),
           Last(op) \in Headers
    PROVE  Fits(st, Front(op))
  <1>. DEFINE oq == Front(op)
  <1>1. /\ Len(op) \in Nat \ {0} /\ DOMAIN op = 1 .. Len(op)
        /\ Len(oq) = Len(op) - 1 /\ DOMAIN oq = 1 .. Len(op) - 1
        /\ \A i \in 1 .. Len(op) - 1 : oq[i] = op[i]
    BY FrontOf
  <1>2. /\ \A i \in 0 .. Len(op) - 1 : Among(oq, i) = Among(op, i)
        /\ Among(op, Len(op)) = Among(op, Len(op) - 1)
    BY FrontOf
  <1>. HIDE DEF oq
  <1>3. Len(st) = Among(oq, Len(oq))
    BY <1>1, <1>2 DEF Fits
  <1>4. ASSUME NEW i \in DOMAIN oq, oq[i] \notin Headers
        PROVE  st[Among(oq, i)].name = oq[i]
    BY <1>1, <1>2, <1>4 DEF Fits
  <1>. QED
    BY <1>3, <1>4 DEF Fits, oq

\* With the last element goes its builder.
LEMMA FitsPop ==
    ASSUME NEW st \in Seq(Builders), NEW su \in Seq(Builders), NEW op \in Seq(Tags), op # <<>>,
           Fits(st, op), Last(op) \notin Headers, Len(su) = Len(st) - 1,
           \A k \in 1 .. Len(su) : su[k].name = st[k].name
    PROVE  Fits(su, Front(op)) /\ st[Len(st)].name = Last(op) /\ Len(st) > 0
  <1>. DEFINE oq == Front(op)
  <1>1. /\ Len(op) \in Nat \ {0} /\ DOMAIN op = 1 .. Len(op)
        /\ Len(oq) = Len(op) - 1 /\ DOMAIN oq = 1 .. Len(op) - 1
        /\ \A i \in 1 .. Len(op) - 1 : oq[i] = op[i]
    BY FrontOf
  <1>2. /\ \A i \in 0 .. Len(op) - 1 : Among(oq, i) = Among(op, i)
        /\ Among(op, Len(op)) = Among(op, Len(op) - 1) + 1
        /\ Among(op, Len(op) - 1) \in Nat
    BY FrontOf
  <1>3. Len(st) = Among(op, Len(op))
    BY DEF Fits
  <1>. HIDE DEF oq
  <1>4. Len(su) = Among(oq, Len(oq))
    BY <1>1, <1>2, <1>3
  <1>5. ASSUME NEW i \in DOMAIN oq, oq[i] \notin Headers
        PROVE  su[Among(oq, i)].name = oq[i]
    <2>1. i \in 1 .. Len(op) - 1 /\ i \in 0 .. Len(op) - 1 /\ op[i] = oq[i] /\ i \in DOMAIN op
      BY <1>1
    <2>2. Among(op, i) <= Among(op, Len(op) - 1) /\ Among(op, i) >= 1
      <3>1. Len(op) - 1 \in Nat /\ op[i] \notin Headers
        BY <1>1, <1>5, <2>1
      <3>. QED
        BY <2>1, <3>1, AmongGrows
    <2>3. Among(op, i) \in Nat
      <3>1. i \in Nat
        BY <2>1
      <3>. QED
        BY <3>1, AmongNat
    <2>4. Among(op, i) \in 1 .. Len(su)
      BY <1>2, <1>3, <2>2, <2>3
    <2>5. st[Among(op, i)].name = op[i]
      BY <1>5, <2>1 DEF Fits
    <2>. QED
      BY <1>2, <2>1, <2>4, <2>5
  <1>6. st[Len(st)].name = Last(op)
    BY <1>1, <1>3 DEF Fits, Last
  <1>. QED
    BY <1>2, <1>3, <1>4, <1>5, <1>6 DEF Fits, oq

-----------------------------------------------------------------------------
(* What the steps of the parser make of its stack *)

\* Builders stay builders, and keep their names.
LEMMA Building ==
    ASSUME NEW b \in Builders
    PROVE  /\ \A t \in Texts : WithText(b, t) \in Builders /\ WithText(b, t).name = b.name
           /\ \A e \in Seq(Pieces) : WithChild(b, e) \in Builders /\ WithChild(b, e).name = b.name
           /\ Build(b) \in Seq(Pieces)
  <1>1. \A t \in Texts : <<t>> \in Seq(Pieces)
    BY DEF Pieces
  <1>2. \A e \in Seq(Pieces) : b.kids \o e \in Seq(Pieces)
    BY ConcatProperties DEF Builders
  <1>3. Build(b) \in Seq(Pieces)
    <2>1. <<b.name>> \in Seq(Pieces) /\ <<"/">> \in Seq(Pieces)
      BY DEF Builders, Pieces
    <2>2. <<b.name>> \o b.text \in Seq(Pieces)
      BY <2>1, ConcatProperties DEF Builders
    <2>3. <<b.name>> \o b.text \o b.kids \in Seq(Pieces)
      BY <2>2, ConcatProperties DEF Builders
    <2>. QED
      BY <2>1, <2>3, ConcatProperties DEF Build
  <1>. QED
    BY <1>1, <1>2, <1>3 DEF WithText, WithChild, Builders

\* The beginning of a stack.
LEMMA Beginning ==
    ASSUME NEW st \in Seq(Builders), NEW m \in Nat, m <= Len(st)
    PROVE  /\ SubSeq(st, 1, m) \in Seq(Builders) /\ Len(SubSeq(st, 1, m)) = m
           /\ \A k \in 1 .. m : SubSeq(st, 1, m)[k] = st[k]
  <1>1. \A k \in 1 .. m : st[k] \in Builders
    BY LenProperties, ElementOfSeq
  <1>2. /\ SubSeq(st, 1, m) \in Seq(Builders)
        /\ Len(SubSeq(st, 1, m)) = IF 1 <= m THEN m - 1 + 1 ELSE 0
        /\ \A k \in 1 .. m - 1 + 1 : SubSeq(st, 1, m)[k] = st[1 + k - 1]
    BY <1>1, SubSeqProperties
  <1>. QED
    BY <1>2

\* closeElement gives the element on top to its parent.
LEMMA ClosingInto ==
    ASSUME TypeOK, pIndex > 0, ~Torn, Closes
    PROVE  /\ stack' \in Seq(Builders) /\ Len(stack') = pIndex
           /\ \A k \in 1 .. pIndex - 1 : stack'[k] = stack[k]
           /\ stack'[pIndex] = WithChild(stack[pIndex], Build(Top))
  <1>1. pIndex \in Nat /\ pIndex \in 1 .. Len(stack) /\ pIndex + 1 \in 1 .. Len(stack) /\ Len(stack) \in Nat
    BY LenProperties DEF TypeOK, Torn
  <1>. DEFINE c == WithChild(stack[pIndex], Build(Top))
              st == [stack EXCEPT ![pIndex] = c]
  <1>2. Top \in Builders /\ stack[pIndex] \in Builders
    BY <1>1, ElementOfSeq DEF Top, TypeOK
  <1>3. c \in Builders
    BY <1>2, Building
  <1>4. stack' = SubSeq(st, 1, pIndex)
    BY <1>1 DEF Closes
  <1>. HIDE DEF c
  <1>5. /\ st \in Seq(Builders) /\ Len(st) = Len(stack)
        /\ \A j \in 1 .. Len(stack) : st[j] = IF j = pIndex THEN c ELSE stack[j]
    BY <1>1, <1>3, ExceptSeq DEF TypeOK
  <1>. HIDE DEF st
  <1>6. pIndex <= Len(st)
    BY <1>1, <1>5
  <1>7. /\ stack' \in Seq(Builders) /\ Len(stack') = pIndex
        /\ \A k \in 1 .. pIndex : stack'[k] = st[k]
    BY <1>1, <1>4, <1>5, <1>6, Beginning
  <1>8. /\ pIndex \in 1 .. pIndex /\ \A k \in 1 .. pIndex - 1 :
                                        k \in 1 .. pIndex /\ k \in 1 .. Len(stack) /\ k # pIndex
    BY <1>1
  <1>. QED
    BY <1>1, <1>5, <1>7, <1>8 DEF c

\* closeElement takes the top off the stack and keeps the names below it.
LEMMA Closing ==
    ASSUME TypeOK, pIndex >= 0, ~Torn, Closes
    PROVE  /\ stack' \in Seq(Builders) /\ Len(stack') = pIndex /\ pIndex' = pIndex - 1
           /\ \A k \in 1 .. pIndex : stack'[k].name = stack[k].name
           /\ inElement' = FALSE
  <1>1. pIndex \in Nat /\ pIndex + 1 \in 1 .. Len(stack) /\ Len(stack) \in Nat
    BY LenProperties DEF TypeOK, Torn
  <1>2. CASE pIndex = 0
    BY <1>2, EmptySeq DEF Closes
  <1>3. CASE pIndex # 0
    <2>1. pIndex > 0
      BY <1>1, <1>3
    <2>2. /\ stack' \in Seq(Builders) /\ Len(stack') = pIndex
          /\ \A k \in 1 .. pIndex - 1 : stack'[k] = stack[k]
          /\ stack'[pIndex] = WithChild(stack[pIndex], Build(Top))
      BY <2>1, ClosingInto
    <2>3. WithChild(stack[pIndex], Build(Top)).name = stack[pIndex].name
      <3>1. pIndex \in 1 .. Len(stack)
        BY <1>1, <1>3
      <3>2. Top \in Builders /\ stack[pIndex] \in Builders
        BY <1>1, <3>1, ElementOfSeq DEF Top, TypeOK
      <3>. QED
        BY <3>2, Building
    <2>4. \A k \in 1 .. pIndex : k \in 1 .. pIndex - 1 \/ k = pIndex
      BY <1>1
    <2>. QED
      BY <2>2, <2>3, <2>4 DEF Closes
  <1>. QED
    BY <1>2, <1>3

\* A text changes the top of the stack and no name.
LEMMA Texting ==
    ASSUME TypeOK, pIndex >= 0, ~Torn, NEW t \in Texts, stack' = WithTop(WithText(Top, t))
    PROVE  /\ stack' \in Seq(Builders) /\ Len(stack') = Len(stack)
           /\ \A k \in 1 .. Len(stack) : stack'[k].name = stack[k].name
  <1>. DEFINE c == WithText(Top, t)
  <1>1. pIndex + 1 \in 1 .. Len(stack) /\ Len(stack) \in Nat
    BY LenProperties DEF TypeOK, Torn
  <1>2. Top \in Builders /\ Top = stack[pIndex + 1]
    BY <1>1, ElementOfSeq DEF Top, TypeOK
  <1>3. c \in Builders /\ c.name = stack[pIndex + 1].name
    BY <1>2, Building
  <1>4. stack' = [stack EXCEPT ![pIndex + 1] = c]
    BY DEF WithTop
  <1>. HIDE DEF c
  <1>5. /\ stack' \in Seq(Builders) /\ Len(stack') = Len(stack)
        /\ \A j \in 1 .. Len(stack) : stack'[j] = IF j = pIndex + 1 THEN c ELSE stack[j]
    BY <1>1, <1>3, <1>4, ExceptSeq DEF TypeOK
  <1>. QED
    BY <1>3, <1>5

-----------------------------------------------------------------------------
(* The steps *)

\* The level, now and after a step.
LEMMA LevelIs == Level = Among(open, Len(open)) /\ Level' = Among(open', Len(open'))
  BY DEF Level, Elements, Among

\* What a step does to the offset and the limit, whichever token it reads.
Offsets ==
    /\ maxStanzaSize' = maxStanzaSize
    /\ off' \in Nat /\ off' >= off
    /\ lastOffset' \in {lastOffset, off'}
    /\ ret' = ErrTooLargeStanza => TooLarge /\ lastOffset' = lastOffset

\* The limit is kept up when a stanza goes on or begins.
LEMMA LimitKept ==
    ASSUME PInv, Offsets,
           whole' /\ Level' > 0 =>
               /\ lastOffset' = lastOffset
               /\ began' = off \/ (began' = began /\ whole /\ Level > 0)
    PROVE  Limiting'
  <1>0. off \in Nat /\ lastOffset \in Nat /\ lastOffset <= off
    BY DEF PInv, TypeOK, Limiting
  <1>1. lastOffset' <= off'
    BY <1>0 DEF Offsets
  <1>2. whole' /\ Level' > 0 => lastOffset' <= began'
    BY <1>0 DEF PInv, Limiting
  <1>3. ret' = ErrTooLargeStanza => maxStanzaSize' > 0 /\ off' - lastOffset' > maxStanzaSize'
    BY DEF Offsets, TooLarge
  <1>. QED
    BY <1>1, <1>2, <1>3 DEF Limiting, ErrTooLargeStanza, Token

\* A token of n bytes that is within the limit.
LEMMA Consuming ==
    ASSUME PInv, NEW n \in Sizes, Consumes(n), maxStanzaSize' = maxStanzaSize,
           lastOffset' \in {lastOffset, off'}, ret' # ErrTooLargeStanza
    PROVE  Offsets /\ ret # ErrTooLargeStanza
  <1>1. n \in Nat
    BY InputAssumption
  <1>2. off' \in Nat /\ off' >= off /\ ~TooLarge
    BY <1>1 DEF Consumes, PInv, TypeOK
  <1>3. ASSUME ret = ErrTooLargeStanza
        PROVE  FALSE
    <2>0. Limiting
      BY DEF PInv
    <2>1. maxStanzaSize > 0 /\ off - lastOffset > maxStanzaSize
      BY <1>3, <2>0, Zenon DEF Limiting
    <2>2. {maxStanzaSize, off, off', lastOffset} \subseteq Nat /\ off' >= off
      BY <1>2 DEF PInv, TypeOK
    <2>3. ~(maxStanzaSize > 0 /\ off' - lastOffset > maxStanzaSize)
      BY <1>2, Zenon DEF TooLarge
    <2>. QED
      BY <2>1, <2>2, <2>3
  <1>. QED
    BY <1>2, <1>3 DEF Offsets

\* Tokens that leave the stack, the tags and the stanza as they are.
LEMMA Passing ==
    ASSUME PInv, Offsets, ret' # Panic, Kept, ended' = FALSE,
           UNCHANGED <<parser, open, began, torn>>,
           ret' = Going => lastOffset' = lastOffset
    PROVE  PInv'
  <1>1. Level' = Level
    BY LevelIs
  <1>2. whole' => whole /\ lastOffset' = lastOffset
    BY DEF Kept
  <1>3. whole' \in BOOLEAN
    BY DEF Kept, PInv, TypeOK
  <1>4. Limiting'
    BY <1>1, <1>2, LimitKept
  <1>5. TypeOK'
    BY <1>3 DEF PInv, TypeOK, Offsets, parser
  <1>6. Matching'
    BY DEF PInv, Matching, parser, Fits, Among
  <1>. QED
    BY <1>4, <1>5, <1>6 DEF PInv, ReadAtOnceIsLimited

\* At first nothing is read.
LEMMA InitPInv == Init => PInv
  <1>. SUFFICES ASSUME Init PROVE PInv
    OBVIOUS
  <1>1. stack \in Seq(Builders) /\ Len(stack) = 0 /\ open \in Seq(Tags) /\ Len(open) = 0
    BY EmptySeq DEF Init, NewParser
  <1>2. Among(open, 0) = 0
    <2>1. {i \in 1 .. 0 : open[i] \notin Headers} = {}
      OBVIOUS
    <2>. QED
      BY <2>1, FS_EmptySet DEF Among
  <1>3. Limits \subseteq Nat
    BY ParserAssumption
  <1>4. TypeOK
    <2>1. maxStanzaSize \in Limits /\ off = 0 /\ lastOffset = 0 /\ began = 0 /\ pIndex = -1
      BY DEF Init, NewParser, rootElementIndex
    <2>2. inElement \in BOOLEAN /\ whole \in BOOLEAN /\ ended \in BOOLEAN /\ torn \in BOOLEAN
      BY DEF Init, NewParser
    <2>. QED
      BY <1>1, <1>3, <2>1, <2>2 DEF TypeOK
  <1>5. Fits(stack, open) /\ pIndex = Len(stack) - 1 /\ ret # Panic /\ ret # ErrTooLargeStanza
    <2>1. DOMAIN open = 1 .. 0
      BY <1>1, LenProperties
    <2>2. Fits(stack, open)
      BY <1>1, <1>2, <2>1 DEF Fits
    <2>3. ret.kind = "going" /\ Panic.kind = "panic" /\ ErrTooLargeStanza.kind = "too large"
      BY DEF Init, NewParser, Going, Panic, ErrTooLargeStanza, Token
    <2>4. pIndex = -1
      BY DEF Init, NewParser, rootElementIndex
    <2>5. pIndex = Len(stack) - 1
      BY <1>1, <2>4
    <2>. QED
      BY <2>2, <2>3, <2>5
  <1>6. Level = 0
    BY <1>1, <1>2, LevelIs
  <1>. QED
    BY <1>4, <1>5, <1>6 DEF PInv, Matching, Limiting, ReadAtOnceIsLimited, Init, NewParser

\* What Next returns is told apart.
LEMMA Results ==
    /\ Going \notin {Panic, ErrTooLargeStanza}
    /\ Panic # ErrTooLargeStanza
    /\ \A k \in {"procinst", "header", "space", "end", "no element", "unexpected end", "decoder error"} :
           Token(k) \notin {Going, Panic, ErrTooLargeStanza}
    /\ \A e : Element(e) \notin {Going, Panic, ErrTooLargeStanza}
    /\ Token("decoder error").kind # "element"
  <1>1. /\ Going.kind = "going" /\ Panic.kind = "panic" /\ ErrTooLargeStanza.kind = "too large"
        /\ \A k : Token(k).kind = k
        /\ \A e : Element(e).kind = "element"
    BY DEF Going, Panic, ErrTooLargeStanza, Token, Element
  <1>. HIDE DEF Token, Element
  <1>. QED
    BY <1>1

\* A token that is refused.
LEMMA Refusing ==
    ASSUME PInv, maxStanzaSize' = maxStanzaSize, NEW n \in Sizes, ReadsTooMuch(n)
    PROVE  PInv' /\ ret' = ErrTooLargeStanza
  <1>0. n \in Nat
    BY InputAssumption
  <1>1. /\ off' = off + n /\ TooLarge /\ ret' = ErrTooLargeStanza /\ UNCHANGED lastOffset
        /\ UNCHANGED parser /\ UNCHANGED <<open, began, torn>> /\ ended' = FALSE /\ Kept
    BY DEF ReadsTooMuch, Refuses, Fails
  <1>2. Offsets
    BY <1>0, <1>1 DEF Offsets, PInv, TypeOK
  <1>. QED
    BY <1>1, <1>2, Results, Passing

\* The end of the input, or what the decoder does not take.
LEMMA Breaking ==
    ASSUME PInv, maxStanzaSize' = maxStanzaSize, InputEnds
    PROVE  PInv' /\ ret' = DecoderError
  <1>1. /\ off' = off /\ ret' = DecoderError /\ UNCHANGED lastOffset
        /\ UNCHANGED parser /\ UNCHANGED <<open, began, torn>> /\ ended' = FALSE /\ Kept
    BY DEF InputEnds, Breaks, Fails, Goes
  <1>2. ret' \notin {Going, Panic, ErrTooLargeStanza}
    BY <1>1, Results DEF DecoderError
  <1>3. Offsets
    BY <1>1, <1>2 DEF Offsets, PInv, TypeOK
  <1>. QED
    BY <1>1, <1>2, <1>3, Passing

\* White space, declarations, comments, and what is not a stanza.
LEMMA Ignoring ==
    ASSUME PInv, maxStanzaSize' = maxStanzaSize, NEW n \in Sizes,
           ReadsProcInst(n) \/ ReadsComment(n)
    PROVE  PInv' /\ ret # ErrTooLargeStanza
  <1>1. /\ Consumes(n) /\ UNCHANGED parser /\ UNCHANGED <<open, began, torn>> /\ ended' = FALSE /\ Kept
        /\ lastOffset' \in {lastOffset, off'} /\ (ret' = Going => lastOffset' = lastOffset)
        /\ ret' \in {ErrNoElement, Token("procinst"), Going}
    <2>1. CASE ReadsProcInst(n)
      BY <2>1, Results DEF ReadsProcInst, ProcInst, Fails, Returns, Goes, ErrNoElement
    <2>2. CASE ReadsComment(n)
      BY <2>2 DEF ReadsComment, Ignores, GoesOn, Goes
    <2>. QED
      BY <2>1, <2>2
  <1>2. ret' \notin {Panic, ErrTooLargeStanza}
    BY <1>1, Results DEF ErrNoElement
  <1>3. Offsets /\ ret # ErrTooLargeStanza
    BY <1>1, <1>2, Consuming
  <1>. QED
    BY <1>1, <1>2, <1>3, Passing

\* Texts: one that meets a torn stack ends the process.
LEMMA ReadingText ==
    ASSUME PInv, maxStanzaSize' = maxStanzaSize, NEW n \in Sizes, ReadsText(n)
    PROVE  PInv' /\ ret # ErrTooLargeStanza
  <1>1. PICK t \in Texts : CharData(t, n)
    BY DEF ReadsText
  <1>2. Consumes(n) /\ UNCHANGED <<open, began, torn>> /\ ended' = FALSE /\ Kept
    BY <1>1 DEF ReadsText, CharData, Goes
  <1>3. CASE inElement /\ ~Torn /\ stack' = WithTop(WithText(Top, t))
             /\ UNCHANGED <<pIndex, inElement>> /\ GoesOn
    <2>1. ret' = Going /\ lastOffset' = lastOffset /\ ret' \notin {Panic, ErrTooLargeStanza}
      BY <1>3, Results DEF GoesOn
    <2>2. Offsets /\ ret # ErrTooLargeStanza
      BY <1>2, <2>1, Consuming
    <2>3. pIndex >= 0
      BY <1>3 DEF PInv, Matching
    <2>4. /\ stack' \in Seq(Builders) /\ Len(stack') = Len(stack)
          /\ \A k \in 1 .. Len(stack) : stack'[k].name = stack[k].name
      BY <1>3, <2>3, Texting DEF PInv
    <2>5. Limiting'
      <3>1. Level' = Level /\ (whole' => whole)
        BY <1>2, LevelIs DEF Kept
      <3>. QED
        BY <1>2, <2>1, <2>2, <3>1, LimitKept
    <2>6. TypeOK'
      <3>1. whole' \in BOOLEAN
        BY <1>2 DEF Kept, PInv, TypeOK
      <3>. QED
        BY <1>2, <1>3, <2>2, <2>4, <3>1 DEF PInv, TypeOK, Offsets
    <2>7. Matching'
      <3>1. ~torn => Fits(stack', open)
        BY <2>4, FitsNames DEF PInv, Matching, TypeOK
      <3>. QED
        BY <1>2, <1>3, <2>1, <2>4, <3>1 DEF PInv, Matching, Fits, Among
    <2>. QED
      BY <1>2, <2>2, <2>5, <2>6, <2>7 DEF PInv, ReadAtOnceIsLimited
  <1>4. CASE UNCHANGED parser /\ ~(inElement /\ Torn)
             /\ ret' \in {Token("space"), ErrNoElement} /\ lastOffset' \in {lastOffset, off'}
    <2>1. ret' \notin {Going, Panic, ErrTooLargeStanza}
      BY <1>4, Results DEF ErrNoElement
    <2>2. Offsets /\ ret # ErrTooLargeStanza
      BY <1>2, <1>4, <2>1, Consuming
    <2>. QED
      BY <1>2, <1>4, <2>1, <2>2, Passing
  <1>5. CASE inElement /\ Torn /\ ret' = Panic /\ UNCHANGED <<parser, lastOffset>>
    <2>1. ret' # ErrTooLargeStanza /\ ret' # Going
      BY <1>5, Results
    <2>2. Offsets /\ ret # ErrTooLargeStanza
      BY <1>2, <1>5, <2>1, Consuming
    <2>3. torn
      <3>1. Len(stack) \in Nat
        BY LenProperties DEF PInv, TypeOK
      <3>. QED
        BY <1>5, <3>1 DEF PInv, Matching, Torn, TypeOK
    <2>4. Limiting'
      <3>1. Level' = Level /\ ~whole'
        BY <1>2, <2>1, LevelIs DEF Kept
      <3>. QED
        BY <2>2, <3>1, LimitKept
    <2>5. TypeOK'
      <3>1. whole' \in BOOLEAN
        BY <1>2 DEF Kept, PInv, TypeOK
      <3>. QED
        BY <1>2, <1>5, <2>2, <3>1 DEF PInv, TypeOK, Offsets, parser
    <2>6. Matching'
      BY <1>2, <1>5, <2>3 DEF PInv, Matching, TypeOK, parser
    <2>. QED
      BY <1>2, <2>2, <2>4, <2>5, <2>6 DEF PInv, ReadAtOnceIsLimited
  <1>. QED
    BY <1>1, <1>3, <1>4, <1>5 DEF CharData, Returns, Fails, GoesOn

\* <stream> and <open>.
LEMMA ReadingHeader ==
    ASSUME PInv, maxStanzaSize' = maxStanzaSize, NEW n \in Sizes, ReadsHeader(n)
    PROVE  PInv' /\ ret # ErrTooLargeStanza
  <1>1. PICK name \in Headers : open' = Append(open, name)
    BY DEF ReadsHeader
  <1>2. /\ Consumes(n) /\ ret' = Token("header") /\ lastOffset' = off' /\ UNCHANGED parser
        /\ ended' = FALSE /\ Kept /\ UNCHANGED <<began, torn>>
    BY DEF ReadsHeader, Header, Returns
  <1>3. ret' \notin {Going, Panic, ErrTooLargeStanza}
    BY <1>2, Results
  <1>4. Offsets /\ ret # ErrTooLargeStanza
    BY <1>2, <1>3, Consuming
  <1>5. Limiting'
    BY <1>2, <1>3, <1>4, LimitKept DEF Kept
  <1>6. TypeOK'
    <2>1. open' \in Seq(Tags)
      BY <1>1, AppendProperties DEF Tags, PInv, TypeOK
    <2>. QED
      BY <1>2, <1>3, <1>4, <2>1 DEF PInv, TypeOK, Offsets, parser, Kept
  <1>7. Matching'
    <2>1. ~torn => Fits(stack, open')
      BY <1>1, FitsHeader DEF PInv, Matching, TypeOK
    <2>. QED
      BY <1>2, <1>3, <2>1 DEF PInv, Matching, parser, Fits, Among
  <1>. QED
    BY <1>2, <1>4, <1>5, <1>6, <1>7 DEF PInv, ReadAtOnceIsLimited

\* The start of an element.
LEMMA ReadingStart ==
    ASSUME PInv, maxStanzaSize' = maxStanzaSize, NEW n \in Sizes, ReadsStart(n)
    PROVE  PInv' /\ ret # ErrTooLargeStanza
  <1>1. PICK name \in Names : startElement(name, n) /\ open' = Append(open, name)
    BY DEF ReadsStart
  <1>2. /\ Consumes(n) /\ ret' = Going /\ lastOffset' = lastOffset
        /\ stack' = Append(stack, Builder(name)) /\ pIndex' = Len(stack') - 1 /\ inElement' = TRUE
        /\ began' = (IF Level = 0 THEN off ELSE began)
        /\ whole' = (IF Level = 0 THEN TRUE ELSE whole)
        /\ ended' = FALSE /\ torn' = torn
    BY <1>1 DEF ReadsStart, startElement, GoesOn
  <1>3. ret' \notin {Panic, ErrTooLargeStanza}
    BY <1>2, Results
  <1>4. Offsets /\ ret # ErrTooLargeStanza
    BY <1>2, <1>3, Consuming
  <1>5. Limiting'
    <2>1. Level \in Nat
      <3>1. Len(open) \in Nat
        BY LenProperties DEF PInv, TypeOK
      <3>. QED
        BY <3>1, AmongNat, LevelIs
    <2>2. Level = 0 \/ Level > 0
      BY <2>1
    <2>3. CASE Level = 0
      <3>1. began' = off
        BY <1>2, <2>3, Zenon
      <3>. QED
        BY <1>2, <1>4, <3>1, LimitKept
    <2>4. CASE Level > 0
      <3>1. Level # 0
        BY <2>1, <2>4
      <3>2. began' = began /\ whole' = whole
        BY <1>2, <3>1, Zenon
      <3>. QED
        BY <1>2, <1>4, <2>4, <3>2, LimitKept
    <2>. QED
      BY <2>2, <2>3, <2>4
  <1>6. Builder(name) \in Builders /\ Builder(name).name = name
    <2>1. <<>> \in Seq(Pieces)
      BY EmptySeq
    <2>. QED
      BY <2>1 DEF Builder, Builders
  <1>7. stack' \in Seq(Builders) /\ Len(stack') = Len(stack) + 1 /\ Len(stack) \in Nat
    BY <1>2, <1>6, AppendProperties, LenProperties DEF PInv, TypeOK
  <1>8. TypeOK'
    <2>1. open' \in Seq(Tags)
      BY <1>1, AppendProperties DEF Tags, PInv, TypeOK
    <2>2. off \in Nat /\ began \in Nat /\ whole \in BOOLEAN /\ torn \in BOOLEAN
      BY DEF PInv, TypeOK
    <2>3. began' \in Nat /\ whole' \in BOOLEAN
      BY <1>2, <2>2, Zenon
    <2>4. inElement' \in BOOLEAN /\ ended' \in BOOLEAN /\ torn' \in BOOLEAN
      BY <1>2, <2>2, Zenon
    <2>5. pIndex' = Len(stack') - 1
      BY <1>2, Zenon
    <2>6. pIndex' \in Int /\ pIndex' >= -1
      BY <1>7, <2>5
    <2>7. maxStanzaSize' \in Nat /\ off' \in Nat /\ lastOffset' \in Nat
      BY <1>4 DEF PInv, TypeOK, Offsets
    <2>. QED
      BY <1>7, <2>1, <2>3, <2>4, <2>6, <2>7 DEF TypeOK
  <1>9. Matching'
    <2>1. ~torn => Fits(stack', open')
      BY <1>1, <1>2, <1>6, FitsPush DEF PInv, Matching, TypeOK
    <2>2. pIndex' = Len(stack') - 1 /\ torn' = torn
      BY <1>2, Zenon
    <2>3. pIndex' >= 0
      BY <1>7, <2>2
    <2>. QED
      BY <1>3, <2>1, <2>2, <2>3 DEF PInv, Matching, Fits, Among
  <1>10. ~ended'
    BY <1>2, Zenon
  <1>. QED
    BY <1>4, <1>5, <1>8, <1>9, <1>10 DEF PInv, ReadAtOnceIsLimited

\* What endElement does on any stack, and on one that is not torn.
LEMMA EndElement ==
    ASSUME PInv, NEW name, NEW n, endElement(name, n)
    PROVE  /\ Consumes(n)
           /\ stack' \in Seq(Builders) /\ pIndex' \in Int /\ pIndex' >= -1
           /\ inElement' \in BOOLEAN /\ (inElement' => pIndex' >= 0)
           /\ ret' # ErrTooLargeStanza /\ lastOffset' \in {lastOffset, off'}
           /\ ret' = Going => lastOffset' = lastOffset
           /\ pIndex = -1 => UNCHANGED parser /\ ret' # Panic
           /\ pIndex >= 0 /\ ~Torn /\ Top.name = name => Closes /\ ret' # Panic
  <1>0. /\ Consumes(n) /\ stack \in Seq(Builders) /\ Len(stack) \in Nat
        /\ pIndex \in Int /\ pIndex >= -1 /\ inElement \in BOOLEAN
        /\ inElement => pIndex >= 0
    BY LenProperties DEF endElement, PInv, TypeOK, Matching
  <1>1. CASE UNCHANGED <<parser, lastOffset>> /\ pIndex = -1 /\ ret' = ErrUnexpectedEnd
    <2>1. ret' \notin {Going, Panic, ErrTooLargeStanza}
      BY <1>1, Results DEF ErrUnexpectedEnd
    <2>2. stack' = stack /\ pIndex' = pIndex /\ inElement' = inElement /\ UNCHANGED parser
      BY <1>1 DEF parser
    <2>. QED
      BY <1>0, <1>1, <2>1, <2>2
  <1>2. CASE UNCHANGED <<parser, lastOffset>> /\ pIndex # -1 /\ Torn /\ ret' = Panic
    <2>1. ret' \notin {Going, ErrTooLargeStanza}
      BY <1>2, Results
    <2>2. stack' = stack /\ pIndex' = pIndex /\ inElement' = inElement /\ UNCHANGED parser
      BY <1>2 DEF parser
    <2>. QED
      BY <1>0, <1>2, <2>1, <2>2
  <1>3. CASE /\ UNCHANGED <<pIndex, inElement, lastOffset>> /\ pIndex # -1 /\ ~Torn
             /\ Top.name # name /\ stack' = SubSeq(stack, 1, pIndex) /\ ret' = ErrUnexpectedEnd
    <2>1. pIndex \in Nat /\ pIndex <= Len(stack)
      BY <1>0, <1>3 DEF Torn
    <2>2. stack' \in Seq(Builders)
      BY <1>0, <1>3, <2>1, Beginning
    <2>. QED
      <3>1. ret' \notin {Going, Panic, ErrTooLargeStanza}
        BY <1>3, Results DEF ErrUnexpectedEnd
      <3>. QED
        BY <1>0, <1>3, <2>2, <3>1
  <1>4. CASE pIndex # -1 /\ ~Torn /\ Top.name = name /\ Closes
    <2>0. pIndex >= 0
      BY <1>0, <1>4
    <2>1. stack' \in Seq(Builders) /\ pIndex' = pIndex - 1 /\ ~inElement' /\ inElement' \in BOOLEAN
      BY <1>4, <2>0, Closing DEF PInv
    <2>2. /\ ret' \notin {Panic, ErrTooLargeStanza} /\ lastOffset' \in {lastOffset, off'}
          /\ ret' = Going => lastOffset' = lastOffset
      BY <1>4, Results, Zenon DEF Closes, Returns, GoesOn
    <2>. QED
      BY <1>0, <1>4, <2>0, <2>1, <2>2
  <1>. QED
    BY <1>1, <1>2, <1>3, <1>4 DEF endElement, Fails, rootElementIndex

\* Unless the stack is torn, an end tag is that of the builder on top.
LEMMA EndsTop ==
    ASSUME PInv, ~torn, NEW n \in Sizes, ReadsEnd(n)
    PROVE  /\ Level = Len(stack) /\ Len(stack) \in Nat \ {0} /\ pIndex = Len(stack) - 1
           /\ pIndex >= 0 /\ ~Torn /\ Closes /\ ret' # Panic
  <1>1. open # <<>> /\ Last(open) \in Names /\ endElement(Last(open), n) /\ open \in Seq(Tags)
    BY DEF ReadsEnd, PInv, TypeOK
  <1>2. Last(open) \notin Headers
    BY <1>1, ParserAssumption
  <1>3. Fits(stack, open) /\ pIndex = Len(stack) - 1 /\ Len(stack) \in Nat
    BY LenProperties DEF PInv, Matching, TypeOK
  <1>4. Len(stack) = Level /\ Level > 0
    <2>1. Len(stack) = Level
      BY <1>3, LevelIs DEF Fits
    <2>2. Among(open, Len(open)) = Among(open, Len(open) - 1) + 1 /\ Among(open, Len(open) - 1) \in Nat
      BY <1>1, <1>2, FrontOf
    <2>. QED
      BY <2>1, <2>2, LevelIs
  <1>5. pIndex >= 0 /\ ~Torn
    BY <1>3, <1>4 DEF Torn
  <1>6. Top.name = Last(open)
    <2>1. Top = stack[Among(open, Len(open))]
      BY <1>3, <1>4, LevelIs DEF Top
    <2>2. Len(open) \in DOMAIN open
      BY <1>1, FrontOf
    <2>. QED
      BY <1>2, <1>3, <2>1, <2>2 DEF Fits, Last
  <1>7. Closes /\ ret' # Panic
    BY <1>1, <1>5, <1>6, EndElement
  <1>. QED
    BY <1>3, <1>4, <1>5, <1>7

\* The end of an element: that of the last builder, unless the stack is torn.
LEMMA ReadingEnd ==
    ASSUME PInv, maxStanzaSize' = maxStanzaSize, NEW n \in Sizes, ReadsEnd(n)
    PROVE  PInv' /\ ret # ErrTooLargeStanza
  <1>1. /\ open # <<>> /\ Last(open) \in Names /\ endElement(Last(open), n) /\ open' = Front(open)
        /\ ended' = (Level = 1) /\ whole' = (whole /\ (ret' = Going \/ Level = 1))
        /\ UNCHANGED <<began, torn>>
    BY DEF ReadsEnd
  <1>2. Last(open) \notin Headers
    BY <1>1, ParserAssumption
  <1>12. /\ whole' => whole /\ (ret' = Going \/ Level = 1)
         /\ ended' => Level = 1
         /\ whole' \in BOOLEAN /\ ended' \in BOOLEAN
         /\ open' = Front(open) /\ torn' = torn /\ began' = began
    <2>1. whole \in BOOLEAN
      BY DEF PInv, TypeOK
    <2>. QED
      BY <1>1, <2>1, Zenon
  <1>3. /\ Consumes(n)
        /\ stack' \in Seq(Builders) /\ pIndex' \in Int /\ pIndex' >= -1
        /\ inElement' \in BOOLEAN /\ (inElement' => pIndex' >= 0)
        /\ ret' # ErrTooLargeStanza /\ lastOffset' \in {lastOffset, off'}
        /\ ret' = Going => lastOffset' = lastOffset
    BY <1>1, EndElement
  <1>4. Offsets /\ ret # ErrTooLargeStanza
    BY <1>3, Consuming
  <1>5. open \in Seq(Tags)
    BY DEF PInv, TypeOK
  <1>6. open' \in Seq(Tags) /\ Level' = Level - 1 /\ Level \in Nat /\ Level > 0
    <2>1. /\ Front(open) \in Seq(Tags) /\ Len(Front(open)) = Len(open) - 1 /\ Len(open) \in Nat \ {0}
          /\ \A i \in 0 .. Len(open) - 1 : Among(Front(open), i) = Among(open, i)
          /\ Among(open, Len(open)) = Among(open, Len(open) - 1) + 1
          /\ Among(open, Len(open) - 1) \in Nat
      BY <1>1, <1>2, <1>5, FrontOf
    <2>2. Among(Front(open), Len(Front(open))) = Among(open, Len(open) - 1)
      BY <2>1
    <2>3. Level' = Among(open, Len(open) - 1) /\ Level = Among(open, Len(open))
      BY <1>12, <2>2, LevelIs, Zenon
    <2>4. open' \in Seq(Tags)
      BY <1>12, <2>1, Zenon
    <2>. QED
      BY <2>1, <2>3, <2>4
  <1>7. Limiting'
    <2>1. whole' /\ Level' > 0 => lastOffset' = lastOffset /\ whole /\ Level > 0
      BY <1>3, <1>6, <1>12
    <2>. QED
      BY <1>4, <1>12, <2>1, LimitKept
  <1>8. TypeOK'
    BY <1>3, <1>4, <1>6, <1>12 DEF PInv, TypeOK, Offsets
  <1>9. ReadAtOnceIsLimited'
    <2>. SUFFICES ASSUME ended', whole', maxStanzaSize' > 0
                  PROVE  off' - began' <= maxStanzaSize'
      BY DEF ReadAtOnceIsLimited
    <2>1. whole /\ Level > 0
      BY <1>6, <1>12
    <2>2. lastOffset <= began
      BY <2>1 DEF PInv, Limiting
    <2>3. ~(maxStanzaSize > 0 /\ off' - lastOffset > maxStanzaSize)
      BY <1>3, Zenon DEF Consumes, TooLarge
    <2>4. {maxStanzaSize, off', lastOffset, began} \subseteq Nat
      BY <1>4 DEF Offsets, PInv, TypeOK
    <2>5. began' = began /\ maxStanzaSize' = maxStanzaSize
      BY <1>12
    <2>. QED
      BY <2>2, <2>3, <2>4, <2>5
  <1>10. Matching'
    <2>. SUFFICES ASSUME ~torn
                  PROVE  Fits(stack', open') /\ pIndex' = Len(stack') - 1 /\ ret' # Panic
      BY <1>3, <1>12 DEF Matching, Fits, Among
    <2>1. Fits(stack, open) /\ pIndex = Len(stack) - 1 /\ stack \in Seq(Builders) /\ Len(stack) \in Nat
      BY LenProperties DEF PInv, Matching, TypeOK
    <2>5. pIndex >= 0 /\ ~Torn /\ Closes /\ ret' # Panic
      BY EndsTop
    <2>6. /\ Len(stack') = pIndex /\ pIndex' = pIndex - 1
          /\ \A k \in 1 .. pIndex : stack'[k].name = stack[k].name
      BY <2>5, Closing DEF PInv
    <2>7. Fits(stack', Front(open))
      <3>1. Len(stack') = Len(stack) - 1 /\ \A k \in 1 .. Len(stack') : stack'[k].name = stack[k].name
        BY <2>1, <2>6
      <3>. QED
        BY <1>1, <1>2, <1>3, <1>5, <2>1, <3>1, FitsPop
    <2>. QED
      BY <1>12, <2>5, <2>6, <2>7
  <1>. QED
    BY <1>4, <1>7, <1>8, <1>9, <1>10 DEF PInv

\* The end of a header: </stream> is handed out, </open> is taken for the end
\* of the element on top, if there is one.
LEMMA ReadingEndHeader ==
    ASSUME PInv, maxStanzaSize' = maxStanzaSize, NEW n \in Sizes, ReadsEndHeader(n)
    PROVE  PInv' /\ ret # ErrTooLargeStanza
  <1>1. /\ open # <<>> /\ Last(open) \in Headers /\ open' = Front(open)
        /\ torn' = (torn \/ (Last(open) = "open" /\ Level > 0))
        /\ ended' = FALSE /\ Kept /\ began' = began
        /\ IF Last(open) = "stream" THEN EndStream(n) ELSE endElement("open", n)
    BY DEF ReadsEndHeader
  <1>2. /\ torn' \in BOOLEAN /\ whole' \in BOOLEAN /\ ~ended' /\ ended' \in BOOLEAN
        /\ ~torn' => ~torn /\ (Last(open) = "stream" \/ ~(Level > 0))
        /\ whole' => whole /\ ret' = Going
        /\ open' = Front(open) /\ began' = began
    <2>1. torn \in BOOLEAN /\ whole \in BOOLEAN
      BY DEF PInv, TypeOK
    <2>2. Last(open) = "stream" \/ Last(open) = "open"
      BY <1>1 DEF Headers
    <2>. QED
      BY <1>1, <2>1, <2>2, Zenon DEF Kept
  <1>3. open \in Seq(Tags)
    BY DEF PInv, TypeOK
  <1>4. open' \in Seq(Tags) /\ Level' = Level /\ Level \in Nat
    <2>1. /\ Front(open) \in Seq(Tags) /\ Len(Front(open)) = Len(open) - 1 /\ Len(open) \in Nat \ {0}
          /\ \A i \in 0 .. Len(open) - 1 : Among(Front(open), i) = Among(open, i)
          /\ Among(open, Len(open)) = Among(open, Len(open) - 1)
          /\ Among(open, Len(open) - 1) \in Nat
      BY <1>1, <1>3, FrontOf
    <2>2. Among(Front(open), Len(Front(open))) = Among(open, Len(open) - 1)
      BY <2>1
    <2>3. Level' = Among(open, Len(open) - 1) /\ Level = Among(open, Len(open))
      BY <1>2, <2>2, LevelIs, Zenon
    <2>4. open' \in Seq(Tags)
      BY <1>2, <2>1, Zenon
    <2>. QED
      BY <2>1, <2>3, <2>4
  <1>5. /\ Consumes(n)
        /\ stack' \in Seq(Builders) /\ pIndex' \in Int /\ pIndex' >= -1
        /\ inElement' \in BOOLEAN /\ (inElement' => pIndex' >= 0)
        /\ ret' # ErrTooLargeStanza /\ lastOffset' \in {lastOffset, off'}
        /\ ret' = Going => lastOffset' = lastOffset
        /\ Last(open) = "stream" \/ pIndex = -1 => UNCHANGED parser /\ ret' # Panic
    <2>1. CASE Last(open) = "stream"
      <3>1. Consumes(n) /\ ret' = Token("end") /\ lastOffset' = off' /\ UNCHANGED parser
        BY <1>1, <2>1 DEF EndStream, Returns
      <3>2. ret' \notin {Going, Panic, ErrTooLargeStanza}
        BY <3>1, Results
      <3>3. stack' = stack /\ pIndex' = pIndex /\ inElement' = inElement
        BY <3>1 DEF parser
      <3>4. /\ stack \in Seq(Builders) /\ pIndex \in Int /\ pIndex >= -1
            /\ inElement \in BOOLEAN /\ (inElement => pIndex >= 0)
        BY DEF PInv, TypeOK, Matching
      <3>. QED
        BY <3>1, <3>2, <3>3, <3>4
    <2>2. CASE Last(open) # "stream"
      <3>1. endElement("open", n)
        BY <1>1, <2>2
      <3>. QED
        BY <2>2, <3>1, EndElement
    <2>. QED
      BY <2>1, <2>2
  <1>6. Offsets /\ ret # ErrTooLargeStanza
    BY <1>5, Consuming
  <1>7. Limiting'
    <2>1. whole' /\ Level' > 0 => lastOffset' = lastOffset /\ whole /\ Level > 0
      BY <1>2, <1>4, <1>5
    <2>. QED
      BY <1>2, <1>6, <2>1, LimitKept
  <1>8. TypeOK'
    BY <1>2, <1>4, <1>5, <1>6 DEF PInv, TypeOK, Offsets
  <1>9. Matching'
    <2>. SUFFICES ASSUME ~torn'
                  PROVE  Fits(stack', open') /\ pIndex' = Len(stack') - 1 /\ ret' # Panic
      BY <1>5 DEF Matching, Fits, Among
    <2>1. Fits(stack, open) /\ pIndex = Len(stack) - 1 /\ stack \in Seq(Builders)
      BY <1>2 DEF PInv, Matching, TypeOK
    <2>2. Len(stack) = Level
      BY <2>1, LevelIs DEF Fits
    <2>3. Last(open) = "stream" \/ pIndex = -1
      BY <1>2, <1>4, <2>1, <2>2
    <2>4. stack' = stack /\ pIndex' = pIndex /\ ret' # Panic
      BY <1>5, <2>3 DEF parser
    <2>5. Fits(stack, Front(open))
      BY <1>1, <1>3, <2>1, FitsPopHeader
    <2>. QED
      BY <1>2, <2>1, <2>4, <2>5
  <1>. QED
    BY <1>2, <1>6, <1>7, <1>8, <1>9 DEF PInv, ReadAtOnceIsLimited

-----------------------------------------------------------------------------
(* Stanzas without their texts *)

Less == {ss \in Nat \X Nat : ss[1] < ss[2]}

\* A set of numbers has a least one.
LEMMA Least ==
    ASSUME NEW T \in SUBSET Nat, T # {}
    PROVE  \E x \in T : \A y \in T : x <= y
  <1>1. IsWellFoundedOn(Less, Nat)
    BY NatLessThanWellFounded DEF OpToRel, Less
  <1>2. PICK x \in T : \A y \in T : ~(<<y, x>> \in Less)
    BY <1>1, WFMin
  <1>3. ASSUME NEW y \in T
        PROVE  x <= y
    <2>1. x \in Nat /\ y \in Nat /\ ~(<<y, x>> \in Less)
      BY <1>2
    <2>. QED
      BY <2>1 DEF Less
  <1>. QED
    BY <1>3

\* m[i] is what the first i of s are without their texts.
Without(s, n, m) ==
    m = [i \in 0 .. n |-> IF i = 0 THEN <<>>
                          ELSE IF s[i] \in Texts THEN m[i - 1]
                          ELSE Append(m[i - 1], s[i])]

\* There is such a function,
LEMMA WithoutIsThere ==
    ASSUME NEW s, NEW n \in Nat
    PROVE  \E m : Without(s, n, m)
  <1>. DEFINE T == {i \in Nat : ~\E m : Without(s, i, m)}
  <1>. SUFFICES ASSUME T # {}
                PROVE  FALSE
    OBVIOUS
  <1>1. PICK k \in T : \A i \in T : k <= i
    <2>1. T \in SUBSET Nat
      OBVIOUS
    <2>. QED
      BY <2>1, Least
  <1>2. k # 0
    <2>1. Without(s, 0, [i \in 0 .. 0 |-> <<>>])
      BY DEF Without
    <2>. QED
      BY <1>1, <2>1
  <1>3. k \in Nat /\ k - 1 \in Nat /\ k - 1 \notin T
    BY <1>1, <1>2
  <1>4. PICK m : Without(s, k - 1, m)
    BY <1>3
  <1>. DEFINE q == [i \in 0 .. k |->
                       IF i < k THEN m[i]
                       ELSE IF s[k] \in Texts THEN m[k - 1] ELSE Append(m[k - 1], s[k])]
  <1>5. ASSUME NEW i \in 0 .. k
        PROVE  q[i] = IF i = 0 THEN <<>>
                      ELSE IF s[i] \in Texts THEN q[i - 1] ELSE Append(q[i - 1], s[i])
    <2>1. CASE i = k
      <3>1. k - 1 \in 0 .. k /\ k - 1 < k /\ ~(k < k)
        BY <1>3
      <3>2. q[k - 1] = m[k - 1]
        BY <3>1
      <3>. QED
        BY <1>2, <2>1, <3>1, <3>2
    <2>2. CASE i = 0
      <3>1. 0 < k /\ 0 \in 0 .. k - 1
        BY <1>2, <1>3
      <3>2. m[0] = <<>>
        BY <1>4, <3>1 DEF Without
      <3>. QED
        BY <2>2, <3>1, <3>2
    <2>3. CASE i # k /\ i # 0
      <3>1. i \in 0 .. k - 1 /\ i < k /\ i - 1 \in 0 .. k /\ i - 1 < k
        BY <1>3, <2>3
      <3>2. q[i] = m[i] /\ q[i - 1] = m[i - 1]
        BY <3>1
      <3>3. m[i] = IF i = 0 THEN <<>>
                   ELSE IF s[i] \in Texts THEN m[i - 1] ELSE Append(m[i - 1], s[i])
        BY <1>4, <3>1 DEF Without
      <3>. QED
        BY <3>2, <3>3
    <2>. QED
      BY <2>1, <2>2, <2>3
  <1>6. Without(s, k, q)
    <2>1. q = [i \in 0 .. k |-> q[i]]
      OBVIOUS
    <2>. HIDE DEF q
    <2>2. [i \in 0 .. k |-> q[i]]
            = [i \in 0 .. k |-> IF i = 0 THEN <<>>
                                ELSE IF s[i] \in Texts THEN q[i - 1] ELSE Append(q[i - 1], s[i])]
      BY <1>5
    <2>. QED
      BY <2>1, <2>2 DEF Without
  <1>7. k \notin T
    BY <1>6
  <1>. QED
    BY <1>1, <1>7

\* whose values are those of any other on what the two have in common.
LEMMA WithoutIsOne ==
    ASSUME NEW s, NEW t, NEW n \in Nat, NEW k \in Nat, k <= n, NEW f, NEW g,
           Without(s, k, f), Without(t, n, g), \A i \in 1 .. k : s[i] = t[i]
    PROVE  \A i \in 0 .. k : f[i] = g[i]
  <1>. DEFINE T == {i \in 0 .. k : f[i] # g[i]}
  <1>. SUFFICES ASSUME T # {}
                PROVE  FALSE
    OBVIOUS
  <1>1. PICK i \in T : \A j \in T : i <= j
    <2>1. T \in SUBSET Nat
      OBVIOUS
    <2>. QED
      BY <2>1, Least
  <1>2. /\ f[i] = IF i = 0 THEN <<>> ELSE IF s[i] \in Texts THEN f[i - 1] ELSE Append(f[i - 1], s[i])
        /\ g[i] = IF i = 0 THEN <<>> ELSE IF t[i] \in Texts THEN g[i - 1] ELSE Append(g[i - 1], t[i])
    <2>1. i \in 0 .. k /\ i \in 0 .. n
      BY <1>1
    <2>2. f[i] = IF i = 0 THEN <<>> ELSE IF s[i] \in Texts THEN f[i - 1] ELSE Append(f[i - 1], s[i])
      BY <2>1 DEF Without
    <2>3. g[i] = IF i = 0 THEN <<>> ELSE IF t[i] \in Texts THEN g[i - 1] ELSE Append(g[i - 1], t[i])
      BY <2>1 DEF Without
    <2>. QED
      BY <2>2, <2>3
  <1>3. i # 0
    BY <1>1, <1>2
  <1>4. i - 1 \in 0 .. k /\ i \in 1 .. k /\ ~(i <= i - 1)
    BY <1>1, <1>3
  <1>5. f[i - 1] = g[i - 1]
    BY <1>1, <1>4
  <1>. QED
    BY <1>1, <1>2, <1>4, <1>5

\* Markup is its last value.
LEMMA MarkupIs ==
    ASSUME NEW s, Len(s) \in Nat
    PROVE  \E m : Without(s, Len(s), m) /\ Markup(s) = m[Len(s)]
  <1>. DEFINE c == CHOOSE m : Without(s, Len(s), m)
  <1>1. Without(s, Len(s), c)
    BY WithoutIsThere
  <1>2. Markup(s) = c[Len(s)]
    BY DEF Markup, Without
  <1>. QED
    BY <1>1, <1>2

\* One more tag or text.
LEMMA MarkupOfOneMore ==
    ASSUME NEW s \in Seq(Pieces), NEW x \in Pieces
    PROVE  Markup(Append(s, x)) = IF x \in Texts THEN Markup(s) ELSE Append(Markup(s), x)
  <1>. DEFINE t == Append(s, x)
              n == Len(s)
  <1>1. /\ n \in Nat /\ Len(t) = n + 1 /\ t[n + 1] = x
        /\ \A i \in 1 .. n : s[i] = t[i]
    BY LenProperties, AppendProperties
  <1>. HIDE DEF t, n
  <1>2. PICK f : Without(s, n, f) /\ Markup(s) = f[n]
    BY <1>1, MarkupIs DEF n
  <1>3. PICK g : Without(t, n + 1, g) /\ Markup(t) = g[n + 1]
    <2>1. Len(t) \in Nat
      BY <1>1
    <2>. QED
      BY <1>1, <2>1, MarkupIs
  <1>4. f[n] = g[n]
    <2>1. n + 1 \in Nat /\ n <= n + 1 /\ n \in 0 .. n
      BY <1>1
    <2>. QED
      BY <1>1, <1>2, <1>3, <2>1, WithoutIsOne
  <1>5. g[n + 1] = IF x \in Texts THEN g[n] ELSE Append(g[n], x)
    <2>1. n + 1 \in 0 .. n + 1 /\ n + 1 # 0 /\ (n + 1) - 1 = n
      BY <1>1
    <2>2. g[n + 1] = IF n + 1 = 0 THEN <<>>
                     ELSE IF t[n + 1] \in Texts THEN g[(n + 1) - 1] ELSE Append(g[(n + 1) - 1], t[n + 1])
      BY <1>3, <2>1 DEF Without
    <2>. QED
      BY <1>1, <2>1, <2>2
  <1>. QED
    BY <1>2, <1>3, <1>4, <1>5 DEF t

\* Nothing is left of nothing.
LEMMA MarkupOfNone == Markup(<<>>) = <<>>
  <1>1. <<>> \in Seq(Pieces) /\ Len(<<>>) = 0
    BY EmptySeq
  <1>2. PICK m : Without(<<>>, 0, m) /\ Markup(<<>>) = m[0]
    BY <1>1, MarkupIs
  <1>3. 0 \in 0 .. 0
    OBVIOUS
  <1>. QED
    BY <1>2, <1>3 DEF Without

\* Sequences one after the other.
LEMMA Regrouped ==
    /\ \A s, t \in Seq(Pieces) : s \o t \in Seq(Pieces)
    /\ \A s, t, v \in Seq(Pieces) : (s \o t) \o v = s \o (t \o v)
  BY ConcatProperties, ConcatAssociative

\* A sequence without its last.
LEMMA Shorter ==
    ASSUME NEW s \in Seq(Pieces)
    PROVE  /\ SubSeq(s, 1, 0) = <<>> /\ SubSeq(s, 1, Len(s)) = s
           /\ \A k \in 1 .. Len(s) :
                  /\ s[k] \in Pieces /\ SubSeq(s, 1, k - 1) \in Seq(Pieces)
                  /\ SubSeq(s, 1, k) = Append(SubSeq(s, 1, k - 1), s[k])
  <1>1. SubSeq(s, 1, 0) = <<>>
    BY SubSeqEmpty
  <1>2. ASSUME NEW k \in 1 .. Len(s)
        PROVE  /\ s[k] \in Pieces /\ SubSeq(s, 1, k - 1) \in Seq(Pieces)
               /\ SubSeq(s, 1, k) = Append(SubSeq(s, 1, k - 1), s[k])
    <2>1. Len(s) \in Nat /\ \A i \in 1 .. Len(s) : s[i] \in Pieces
      BY LenProperties, ElementOfSeq
    <2>2. k - 1 \in Int /\ \A i \in 1 .. k - 1 : s[i] \in Pieces
      BY <2>1
    <2>3. SubSeq(s, 1, k - 1) \in Seq(Pieces)
      BY <2>2, SubSeqProperties
    <2>4. SubSeq(s, 1, k) = SubSeq(s, 1, k - 1) \o <<s[k]>>
      <3>1. 1 \in 1 .. Len(s)
        BY <2>1
      <3>. QED
        BY <3>1, SubSeqRecursiveSecond
    <2>. QED
      BY <2>1, <2>3, <2>4, AppendIsConcat
  <1>. QED
    BY <1>1, <1>2, SubSeqFull

\* What is left is a sequence again.
LEMMA MarkupIsText ==
    ASSUME NEW s \in Seq(Pieces)
    PROVE  Markup(s) \in Seq(Pieces)
  <1>. DEFINE T == {k \in 0 .. Len(s) : Markup(SubSeq(s, 1, k)) \notin Seq(Pieces)}
  <1>0. Len(s) \in Nat
    BY LenProperties
  <1>. SUFFICES ASSUME T # {}
                PROVE  FALSE
    <2>1. Len(s) \in 0 .. Len(s)
      BY <1>0
    <2>2. SubSeq(s, 1, Len(s)) = s
      BY Shorter
    <2>. QED
      BY <2>1, <2>2
  <1>1. PICK k \in T : \A i \in T : k <= i
    <2>1. T \in SUBSET Nat
      OBVIOUS
    <2>. QED
      BY <2>1, Least
  <1>2. k # 0
    <2>1. SubSeq(s, 1, 0) = <<>> /\ <<>> \in Seq(Pieces)
      BY Shorter, EmptySeq
    <2>. QED
      BY <1>1, <2>1, MarkupOfNone
  <1>3. k \in 1 .. Len(s) /\ k - 1 \in 0 .. Len(s) /\ ~(k <= k - 1)
    BY <1>0, <1>1, <1>2
  <1>4. /\ s[k] \in Pieces /\ SubSeq(s, 1, k - 1) \in Seq(Pieces)
        /\ SubSeq(s, 1, k) = Append(SubSeq(s, 1, k - 1), s[k])
    BY <1>3, Shorter
  <1>5. Markup(SubSeq(s, 1, k - 1)) \in Seq(Pieces)
    BY <1>1, <1>3
  <1>6. Markup(SubSeq(s, 1, k)) \in Seq(Pieces)
    <2>1. Append(Markup(SubSeq(s, 1, k - 1)), s[k]) \in Seq(Pieces)
      BY <1>4, <1>5, AppendProperties
    <2>2. Markup(SubSeq(s, 1, k)) \in {Markup(SubSeq(s, 1, k - 1)), Append(Markup(SubSeq(s, 1, k - 1)), s[k])}
      BY <1>4, MarkupOfOneMore
    <2>. QED
      BY <1>5, <2>1, <2>2
  <1>. QED
    BY <1>1, <1>6

\* Of two sequences one after the other, what is left of the one and then what
\* is left of the other.
LEMMA MarkupOfBoth ==
    ASSUME NEW s \in Seq(Pieces), NEW t \in Seq(Pieces)
    PROVE  Markup(s \o t) = Markup(s) \o Markup(t)
  <1>. DEFINE pre(k) == SubSeq(t, 1, k)
              T == {k \in 0 .. Len(t) : Markup(s \o pre(k)) # Markup(s) \o Markup(pre(k))}
  <1>0. Len(t) \in Nat /\ Markup(s) \in Seq(Pieces)
    BY LenProperties, MarkupIsText
  <1>. SUFFICES ASSUME T # {}
                PROVE  FALSE
    <2>1. Len(t) \in 0 .. Len(t)
      BY <1>0
    <2>2. SubSeq(t, 1, Len(t)) = t
      BY Shorter
    <2>. QED
      BY <2>1, <2>2
  <1>1. PICK k \in T : \A i \in T : k <= i
    <2>1. T \in SUBSET Nat
      OBVIOUS
    <2>. QED
      BY <2>1, Least
  <1>2. k # 0
    <2>1. pre(0) = <<>>
      BY Shorter
    <2>2. s \o <<>> = s /\ Markup(s) \o <<>> = Markup(s)
      BY <1>0, ConcatEmptySeq
    <2>. QED
      BY <1>1, <2>1, <2>2, MarkupOfNone
  <1>3. k \in 1 .. Len(t) /\ k - 1 \in 0 .. Len(t) /\ ~(k <= k - 1)
    BY <1>0, <1>1, <1>2
  <1>. DEFINE u == pre(k - 1)
              x == t[k]
  <1>4. x \in Pieces /\ u \in Seq(Pieces) /\ pre(k) = Append(u, x)
    BY <1>3, Shorter
  <1>5. Markup(s \o u) = Markup(s) \o Markup(u)
    BY <1>1, <1>3
  <1>6. Markup(s \o pre(k)) # Markup(s) \o Markup(pre(k))
    BY <1>1
  <1>. HIDE DEF pre, u, x
  <1>7. <<x>> \in Seq(Pieces) /\ s \o u \in Seq(Pieces) /\ Markup(u) \in Seq(Pieces)
    BY <1>4, ConcatProperties, MarkupIsText
  <1>8. s \o Append(u, x) = Append(s \o u, x)
    <2>1. Append(u, x) = u \o <<x>> /\ Append(s \o u, x) = (s \o u) \o <<x>>
      BY <1>4, <1>7, AppendIsConcat
    <2>2. (s \o u) \o <<x>> = s \o (u \o <<x>>)
      <3>1. s \in Seq(Pieces) /\ u \in Seq(Pieces) /\ <<x>> \in Seq(Pieces)
        BY <1>4, <1>7
      <3>. QED
        BY <3>1, Regrouped, Zenon
    <2>. QED
      BY <2>1, <2>2, Zenon
  <1>9. Markup(s) \o Append(Markup(u), x) = Append(Markup(s) \o Markup(u), x)
    <2>1. Markup(s) \o Markup(u) \in Seq(Pieces)
      BY <1>0, <1>7, ConcatProperties
    <2>2. /\ Append(Markup(u), x) = Markup(u) \o <<x>>
          /\ Append(Markup(s) \o Markup(u), x) = (Markup(s) \o Markup(u)) \o <<x>>
      BY <1>4, <1>7, <2>1, AppendIsConcat
    <2>3. (Markup(s) \o Markup(u)) \o <<x>> = Markup(s) \o (Markup(u) \o <<x>>)
      BY <1>0, <1>7, Regrouped, Zenon
    <2>. QED
      BY <2>2, <2>3, Zenon
  <1>10. CASE x \in Texts
    <2>1. Markup(pre(k)) = Markup(u) /\ Markup(s \o pre(k)) = Markup(s \o u)
      BY <1>4, <1>7, <1>8, <1>10, MarkupOfOneMore
    <2>. QED
      BY <1>5, <1>6, <2>1
  <1>11. CASE x \notin Texts
    <2>1. /\ Markup(pre(k)) = Append(Markup(u), x)
          /\ Markup(s \o pre(k)) = Append(Markup(s \o u), x)
      BY <1>4, <1>7, <1>8, <1>11, MarkupOfOneMore
    <2>. QED
      BY <1>5, <1>6, <1>9, <2>1
  <1>. QED
    BY <1>10, <1>11

\* A text leaves nothing, and a tag or text more is one that comes after.
LEMMA MarkupOfOne ==
    ASSUME NEW x \in Pieces
    PROVE  /\ <<x>> \in Seq(Pieces) /\ Markup(<<x>>) \in Seq(Pieces)
           /\ x \in Texts => Markup(<<x>>) = <<>>
           /\ \A s \in Seq(Pieces) : Append(s, x) \in Seq(Pieces)
                                     /\ Markup(Append(s, x)) = Markup(s) \o Markup(<<x>>)
  <1>1. <<x>> \in Seq(Pieces) /\ <<x>> = Append(<<>>, x) /\ <<>> \in Seq(Pieces)
    BY EmptySeq
  <1>2. x \in Texts => Markup(<<x>>) = <<>>
    BY <1>1, MarkupOfOneMore, MarkupOfNone
  <1>3. \A s \in Seq(Pieces) : Append(s, x) \in Seq(Pieces) /\ Append(s, x) = s \o <<x>>
    BY AppendProperties, AppendIsConcat
  <1>4. \A s \in Seq(Pieces) : Markup(s \o <<x>>) = Markup(s) \o Markup(<<x>>)
    BY <1>1, MarkupOfBoth
  <1>. QED
    BY <1>1, <1>2, <1>3, <1>4, MarkupIsText

-----------------------------------------------------------------------------
(* What the builders hold *)

\* A builder holds its tag and its children, apart from the texts.
Of(b) == Markup(<<b.name>> \o b.kids)

\* What the builders hold, one after the other, is all that was heard.
Holds(st, s) ==
    \E p \in [0 .. Len(st) -> Seq(Pieces)] :
        /\ p[0] = <<>> /\ p[Len(st)] = Markup(s)
        /\ \A k \in 1 .. Len(st) : p[k] = p[k - 1] \o Of(st[k])

\* An element is what its builder holds and the end tag, a child is what its
\* parent holds in addition, and a text is nothing.
LEMMA OfBuilder ==
    ASSUME NEW b \in Builders
    PROVE  /\ Of(b) \in Seq(Pieces)
           /\ Markup(b.text) = <<>> => Markup(Build(b)) = Of(b) \o Markup(<<"/">>)
           /\ \A e \in Seq(Pieces) : Of(WithChild(b, e)) = Of(b) \o Markup(e)
           /\ \A t : Of(WithText(b, t)) = Of(b)
  <1>. DEFINE n == <<b.name>>
              x == b.text
              s == b.kids
              z == <<"/">>
  <1>1. /\ n \in Seq(Pieces) /\ x \in Seq(Pieces) /\ s \in Seq(Pieces) /\ z \in Seq(Pieces)
        /\ Markup(n) \in Seq(Pieces) /\ Markup(x) \in Seq(Pieces)
        /\ Markup(s) \in Seq(Pieces) /\ Markup(z) \in Seq(Pieces)
    <2>1. b.name \in Pieces /\ "/" \in Pieces /\ x \in Seq(Pieces) /\ s \in Seq(Pieces)
      BY DEF Builders, Pieces
    <2>. QED
      BY <2>1, MarkupOfOne, MarkupIsText
  <1>2. Of(b) = Markup(n) \o Markup(s)
    BY <1>1, MarkupOfBoth DEF Of
  <1>3. /\ Build(b) = ((n \o x) \o s) \o z
        /\ \A e : WithChild(b, e).name = b.name /\ WithChild(b, e).kids = s \o e
        /\ \A t : WithText(b, t).name = b.name /\ WithText(b, t).kids = s
    BY DEF Build, WithChild, WithText, Builders
  <1>. HIDE DEF x, s, z, Build
  <1>4. Of(b) \in Seq(Pieces)
    BY <1>1, <1>2, Regrouped
  <1>5. ASSUME Markup(x) = <<>>
        PROVE  Markup(Build(b)) = Of(b) \o Markup(z)
    <2>. HIDE DEF n
    <2>1. n \o x \in Seq(Pieces) /\ (n \o x) \o s \in Seq(Pieces)
      BY <1>1, Regrouped
    <2>2. Markup(n \o x) = Markup(n)
      <3>1. Markup(n \o x) = Markup(n) \o Markup(x)
        BY <1>1, MarkupOfBoth
      <3>. QED
        BY <1>1, <1>5, <3>1, ConcatEmptySeq
    <2>3. Markup((n \o x) \o s) = Markup(n) \o Markup(s)
      <3>1. Markup((n \o x) \o s) = Markup(n \o x) \o Markup(s)
        BY <1>1, <2>1, MarkupOfBoth
      <3>. QED
        BY <2>2, <3>1
    <2>4. Markup(((n \o x) \o s) \o z) = Markup((n \o x) \o s) \o Markup(z)
      BY <1>1, <2>1, MarkupOfBoth
    <2>. QED
      BY <1>2, <1>3, <2>3, <2>4
  <1>6. ASSUME NEW e \in Seq(Pieces)
        PROVE  Of(WithChild(b, e)) = Of(b) \o Markup(e)
    <2>0. Of(WithChild(b, e)) = Markup(n \o (s \o e))
      BY <1>3 DEF Of
    <2>. HIDE DEF n
    <2>1. n \o (s \o e) = (n \o s) \o e /\ n \o s \in Seq(Pieces)
      <3>1. n \in Seq(Pieces) /\ s \in Seq(Pieces) /\ e \in Seq(Pieces)
        BY <1>1
      <3>. QED
        BY <3>1, Regrouped, Zenon
    <2>2. Markup((n \o s) \o e) = Markup(n \o s) \o Markup(e)
      BY <2>1, MarkupOfBoth
    <2>3. Markup(n \o s) = Of(b)
      BY <1>1, <1>2, MarkupOfBoth
    <2>. QED
      BY <2>0, <2>1, <2>2, <2>3, Zenon
  <1>7. \A t : Of(WithText(b, t)) = Of(b)
    BY <1>3 DEF Of, s
  <1>. QED
    BY <1>4, <1>5, <1>6, <1>7 DEF x, z

\* A new builder holds its tag.
LEMMA OfNewBuilder ==
    ASSUME NEW n \in Names
    PROVE  Of(Builder(n)) = Markup(<<n>>)
  <1>1. <<n>> \in Seq(Pieces)
    BY DEF Pieces
  <1>2. <<n>> \o <<>> = <<n>>
    BY <1>1, ConcatEmptySeq
  <1>. QED
    BY <1>2 DEF Of, Builder

\* Nothing has been heard of nothing.
LEMMA HoldsNone == Holds(<<>>, <<>>)
  <1>. DEFINE p == [k \in 0 .. 0 |-> <<>>]
  <1>1. <<>> \in Seq(Pieces) /\ Len(<<>>) = 0
    BY EmptySeq
  <1>2. p \in [0 .. Len(<<>>) -> Seq(Pieces)] /\ p[0] = <<>>
    BY <1>1
  <1>3. p[Len(<<>>)] = Markup(<<>>)
    BY <1>1, <1>2, MarkupOfNone
  <1>4. \A k \in 1 .. Len(<<>>) : p[k] = p[k - 1] \o Of(<<>>[k])
    BY <1>1
  <1>. HIDE DEF p
  <1>. QED
    BY <1>2, <1>3, <1>4 DEF Holds

\* Builders that hold the same.
LEMMA HoldsSame ==
    ASSUME NEW st, NEW su, NEW s, NEW u, Holds(st, s), Len(su) = Len(st),
           \A k \in 1 .. Len(st) : Of(su[k]) = Of(st[k]), Markup(u) = Markup(s)
    PROVE  Holds(su, u)
  BY DEF Holds

\* A start tag.
LEMMA HoldsPush ==
    ASSUME NEW st \in Seq(Builders), NEW s \in Seq(Pieces), Holds(st, s),
           NEW n \in Names, Builder(n) \in Builders
    PROVE  Holds(Append(st, Builder(n)), Append(s, n))
  <1>. DEFINE b == Builder(n)
              su == Append(st, b)
              m == Len(st)
  <1>1. /\ m \in Nat /\ Len(su) = m + 1 /\ su[m + 1] = b
        /\ \A k \in 1 .. m : su[k] = st[k]
    BY LenProperties, AppendProperties
  <1>2. Of(b) = Markup(<<n>>)
    BY OfNewBuilder
  <1>3. Of(b) \in Seq(Pieces)
    BY OfBuilder
  <1>4. Markup(Append(s, n)) = Markup(s) \o Of(b)
    <2>1. n \in Pieces
      BY DEF Pieces
    <2>. QED
      BY <1>2, <2>1, MarkupOfOne
  <1>. HIDE DEF b, su, m
  <1>5. PICK p \in [0 .. m -> Seq(Pieces)] :
            /\ p[0] = <<>> /\ p[m] = Markup(s)
            /\ \A k \in 1 .. m : p[k] = p[k - 1] \o Of(st[k])
    BY DEF Holds, m
  <1>. DEFINE q == [k \in 0 .. m + 1 |-> IF k <= m THEN p[k] ELSE Markup(s) \o Of(b)]
  <1>6. q \in [0 .. m + 1 -> Seq(Pieces)]
    <2>1. Markup(s) \o Of(b) \in Seq(Pieces)
      BY <1>3, MarkupIsText, Regrouped
    <2>2. \A k \in 0 .. m + 1 : k <= m => k \in 0 .. m
      BY <1>1
    <2>. QED
      BY <1>5, <2>1, <2>2
  <1>7. q[0] = <<>> /\ q[m + 1] = Markup(s) \o Of(b) /\ q[m] = Markup(s)
    <2>1. 0 \in 0 .. m + 1 /\ 0 <= m /\ m + 1 \in 0 .. m + 1 /\ ~(m + 1 <= m) /\ m \in 0 .. m + 1 /\ m <= m
      BY <1>1
    <2>. QED
      BY <1>5, <2>1
  <1>8. ASSUME NEW k \in 1 .. m + 1
        PROVE  q[k] = q[k - 1] \o Of(su[k])
    <2>1. CASE k = m + 1
      <3>1. k - 1 = m
        BY <1>1, <2>1
      <3>. QED
        BY <1>1, <1>7, <2>1, <3>1
    <2>2. CASE k # m + 1
      <3>1. k \in 1 .. m /\ k - 1 \in 0 .. m + 1 /\ k \in 0 .. m + 1 /\ k <= m /\ k - 1 <= m
        BY <1>1, <2>2
      <3>2. q[k] = p[k] /\ q[k - 1] = p[k - 1]
        BY <3>1
      <3>. HIDE DEF q
      <3>. QED
        BY <1>1, <1>5, <3>1, <3>2
    <2>. QED
      BY <2>1, <2>2
  <1>. HIDE DEF q
  <1>. QED
    BY <1>1, <1>4, <1>6, <1>7, <1>8 DEF Holds, su, b

\* The end tag of an element that is not the last of its stanza: it goes to its
\* parent.
LEMMA HoldsPop ==
    ASSUME NEW st \in Seq(Builders), NEW s \in Seq(Pieces), Holds(st, s),
           NEW m \in Nat, m > 0, Len(st) = m + 1, Markup(st[m + 1].text) = <<>>,
           NEW su, Len(su) = m, \A k \in 1 .. m - 1 : su[k] = st[k],
           su[m] = WithChild(st[m], Build(st[m + 1]))
    PROVE  Holds(su, Append(s, "/"))
  <1>1. st[m] \in Builders /\ st[m + 1] \in Builders
    BY ElementOfSeq
  <1>. DEFINE a == Of(st[m])
              b == Of(st[m + 1])
              z == Markup(<<"/">>)
  <1>2. "/" \in Pieces
    BY DEF Pieces
  <1>3. a \in Seq(Pieces) /\ b \in Seq(Pieces) /\ z \in Seq(Pieces) /\ Markup(Append(s, "/")) = Markup(s) \o z
    BY <1>1, <1>2, OfBuilder, MarkupOfOne
  <1>4. Of(su[m]) = a \o (b \o z)
    <2>1. Build(st[m + 1]) \in Seq(Pieces)
      BY <1>1, Building
    <2>2. Of(WithChild(st[m], Build(st[m + 1]))) = Of(st[m]) \o Markup(Build(st[m + 1]))
      BY <1>1, <2>1, OfBuilder
    <2>3. Markup(Build(st[m + 1])) = b \o z
      BY <1>1, OfBuilder
    <2>. QED
      BY <2>2, <2>3
  <1>5. PICK p \in [0 .. m + 1 -> Seq(Pieces)] :
            /\ p[0] = <<>> /\ p[m + 1] = Markup(s)
            /\ \A k \in 1 .. m + 1 : p[k] = p[k - 1] \o Of(st[k])
    BY DEF Holds
  <1>6. p[m] = p[m - 1] \o a /\ p[m + 1] = p[m] \o b /\ p[m - 1] \in Seq(Pieces)
    <2>1. m \in 1 .. m + 1 /\ m + 1 \in 1 .. m + 1 /\ (m + 1) - 1 = m /\ m - 1 \in 0 .. m + 1
      OBVIOUS
    <2>. QED
      BY <1>5, <2>1
  <1>. HIDE DEF a, b, z
  <1>. DEFINE q == [k \in 0 .. m |-> IF k = m THEN Markup(s) \o z ELSE p[k]]
  <1>7. p[m - 1] \o Of(su[m]) = Markup(s) \o z
    <2>0. p[m - 1] \o a \in Seq(Pieces) /\ b \o z \in Seq(Pieces)
      BY <1>3, <1>6, Regrouped
    <2>1. p[m - 1] \o (a \o (b \o z)) = (p[m - 1] \o a) \o (b \o z)
      <3>1. p[m - 1] \in Seq(Pieces) /\ a \in Seq(Pieces) /\ b \o z \in Seq(Pieces)
        BY <1>3, <1>6, <2>0
      <3>. QED
        BY <3>1, Regrouped, Zenon
    <2>2. (p[m - 1] \o a) \o (b \o z) = ((p[m - 1] \o a) \o b) \o z
      BY <1>3, <2>0, Regrouped, Zenon
    <2>. QED
      BY <1>4, <1>5, <1>6, <2>1, <2>2, Zenon
  <1>8. q \in [0 .. m -> Seq(Pieces)]
    <2>1. Markup(s) \o z \in Seq(Pieces)
      BY <1>3, MarkupIsText, Regrouped
    <2>2. \A k \in 0 .. m : k \in 0 .. m + 1
      OBVIOUS
    <2>. QED
      BY <1>5, <2>1, <2>2
  <1>9. q[0] = <<>> /\ q[m] = Markup(s) \o z
    <2>1. 0 \in 0 .. m /\ m \in 0 .. m /\ 0 # m
      OBVIOUS
    <2>. QED
      BY <1>5, <2>1
  <1>10. ASSUME NEW k \in 1 .. m
         PROVE  q[k] = q[k - 1] \o Of(su[k])
    <2>1. CASE k = m
      <3>1. q[k - 1] = p[m - 1]
        BY <2>1
      <3>. HIDE DEF q
      <3>. QED
        BY <1>7, <1>9, <2>1, <3>1
    <2>2. CASE k # m
      <3>1. k \in 1 .. m - 1 /\ k \in 1 .. m + 1
        BY <2>2
      <3>2. q[k] = p[k] /\ q[k - 1] = p[k - 1]
        BY <2>2, <3>1
      <3>3. p[k] = p[k - 1] \o Of(st[k]) /\ su[k] = st[k]
        BY <1>5, <3>1
      <3>. HIDE DEF q
      <3>. QED
        BY <3>2, <3>3
    <2>. QED
      BY <2>1, <2>2
  <1>. HIDE DEF q
  <1>. QED
    BY <1>3, <1>8, <1>9, <1>10 DEF Holds

\* The last end tag of a stanza: the element is the stanza.
LEMMA HoldsEnd ==
    ASSUME NEW st \in Seq(Builders), NEW s \in Seq(Pieces), Holds(st, s), Len(st) = 1,
           Markup(st[1].text) = <<>>
    PROVE  Markup(Build(st[1])) = Markup(Append(s, "/"))
  <1>1. st[1] \in Builders
    <2>1. 1 \in 1 .. Len(st)
      OBVIOUS
    <2>. QED
      BY <2>1, ElementOfSeq
  <1>2. PICK p \in [0 .. 1 -> Seq(Pieces)] :
            /\ p[0] = <<>> /\ p[1] = Markup(s)
            /\ \A k \in 1 .. 1 : p[k] = p[k - 1] \o Of(st[k])
    BY DEF Holds
  <1>3. Of(st[1]) \in Seq(Pieces) /\ Markup(Build(st[1])) = Of(st[1]) \o Markup(<<"/">>)
    BY <1>1, OfBuilder
  <1>4. Markup(s) = Of(st[1])
    <2>1. p[1] = p[0] \o Of(st[1])
      <3>1. 1 \in 1 .. 1 /\ 1 - 1 = 0
        OBVIOUS
      <3>. QED
        BY <1>2, <3>1
    <2>2. <<>> \o Of(st[1]) = Of(st[1])
      BY <1>3, ConcatEmptySeq
    <2>. QED
      BY <1>2, <2>1, <2>2
  <1>5. Markup(Append(s, "/")) = Markup(s) \o Markup(<<"/">>)
    <2>1. "/" \in Pieces
      BY DEF Pieces
    <2>. QED
      BY <2>1, MarkupOfOne
  <1>. QED
    BY <1>3, <1>4, <1>5, Zenon

-----------------------------------------------------------------------------
(* What is returned *)

\* Unless the stack is torn, the builders hold what was heard of the stanza
\* that is open, and the element that is returned is the one that has ended.
Returning ==
    /\ heard \in Seq(Pieces)
    /\ ~torn =>
           /\ \A k \in 1 .. Len(stack) : Markup(stack[k].text) = <<>>
           /\ Level > 0 => Holds(stack, heard)
           /\ ended <=> ret.kind = "element"
           /\ ended => Markup(ret.elem) = Markup(heard)

\* The elements that are open are as many as the builders.
LEMMA LevelIsLen ==
    ASSUME PInv, ~torn
    PROVE  Level = Len(stack) /\ Len(stack) \in Nat /\ pIndex = Len(stack) - 1
  BY LevelIs, LenProperties DEF PInv, Matching, Fits, TypeOK

\* What a step returns that is no element.
LEMMA NoElement ==
    /\ Going.kind # "element" /\ Panic.kind # "element"
    /\ ErrTooLargeStanza.kind # "element"
    /\ \A k : k # "element" => Token(k).kind # "element"
  BY DEF Going, Panic, ErrTooLargeStanza, Token

\* Tokens that leave the builders as they are.
LEMMA ReturningPasses ==
    ASSUME PInv, Returning, PInv', torn \in BOOLEAN, ~torn' => ~torn, stack' = stack,
           \/ heard' = heard
           \/ \E t \in Texts : heard' = Append(heard, t),
           ~ended', ret'.kind # "element"
    PROVE  Returning'
  <1>1. heard' \in Seq(Pieces) /\ Markup(heard') = Markup(heard)
    <2>1. Texts \subseteq Pieces
      BY DEF Pieces
    <2>2. \A t \in Texts : Append(heard, t) \in Seq(Pieces) /\ Markup(Append(heard, t)) = Markup(heard)
      BY <2>1, MarkupOfOneMore, AppendProperties DEF Returning
    <2>. QED
      BY <2>2 DEF Returning
  <1>. SUFFICES ASSUME ~torn'
                PROVE  /\ \A k \in 1 .. Len(stack') : Markup(stack'[k].text) = <<>>
                       /\ Level' > 0 => Holds(stack', heard')
    BY <1>1 DEF Returning
  <1>2. Level = Len(stack)
    BY LevelIsLen
  <1>3. Level' = Len(stack')
    BY LevelIs DEF PInv, Matching, Fits
  <1>4. Level' > 0 => Holds(stack', heard')
    <2>1. Level' > 0 => Holds(stack, heard)
      BY <1>2, <1>3 DEF Returning
    <2>. QED
      BY <1>1, <2>1, HoldsSame
  <1>. QED
    BY <1>4 DEF Returning

\* A text that goes into the builder on top.
LEMMA ReturningText ==
    ASSUME PInv, Returning, PInv', NEW t \in Texts, pIndex >= 0, ~Torn,
           stack' = WithTop(WithText(Top, t)), torn' = torn,
           Level > 0 => heard' = Append(heard, t), Level = 0 => heard' = heard,
           Level \in Nat, Level' = Level, ~ended', ret' = Going
    PROVE  Returning'
  <1>0. t \in Pieces
    BY DEF Pieces
  <1>1. heard' \in Seq(Pieces) /\ Markup(heard') = Markup(heard)
    <2>1. Append(heard, t) \in Seq(Pieces) /\ Markup(Append(heard, t)) = Markup(heard)
      BY <1>0, MarkupOfOneMore, AppendProperties DEF Returning
    <2>2. heard' = heard \/ heard' = Append(heard, t)
      <3>1. Level = 0 \/ Level > 0
        OBVIOUS
      <3>. QED
        BY <3>1
    <2>3. heard \in Seq(Pieces)
      BY DEF Returning
    <2>. QED
      BY <2>1, <2>2, <2>3
  <1>2. pIndex + 1 \in 1 .. Len(stack) /\ Len(stack) \in Nat /\ stack \in Seq(Builders)
    BY LenProperties DEF PInv, TypeOK, Torn
  <1>3. Top = stack[pIndex + 1] /\ Top \in Builders
    BY <1>2, ElementOfSeq DEF Top
  <1>. DEFINE c == WithText(Top, t)
  <1>4. c \in Builders /\ Of(c) = Of(Top) /\ c.text = <<t>>
    BY <1>3, Building, OfBuilder DEF WithText, Builders
  <1>5. Markup(<<t>>) = <<>>
    BY <1>0, MarkupOfOne
  <1>6. stack' = [stack EXCEPT ![pIndex + 1] = c]
    BY DEF WithTop
  <1>. HIDE DEF c
  <1>7. /\ Len(stack') = Len(stack)
        /\ \A k \in 1 .. Len(stack) : stack'[k] = IF k = pIndex + 1 THEN c ELSE stack[k]
    BY <1>2, <1>4, <1>6, ExceptSeq
  <1>8. \A k \in 1 .. Len(stack) : Of(stack'[k]) = Of(stack[k])
    BY <1>3, <1>4, <1>7
  <1>9. ASSUME ~torn'
        PROVE  /\ \A k \in 1 .. Len(stack') : Markup(stack'[k].text) = <<>>
               /\ Level' > 0 => Holds(stack', heard')
               /\ ret'.kind # "element"
    <2>1. \A k \in 1 .. Len(stack') : Markup(stack'[k].text) = <<>>
      BY <1>4, <1>5, <1>7, <1>9 DEF Returning
    <2>2. Level' > 0 => Holds(stack', heard')
      BY <1>1, <1>7, <1>8, <1>9, HoldsSame DEF Returning
    <2>. QED
      BY <2>1, <2>2, NoElement
  <1>. QED
    BY <1>1, <1>9 DEF Returning

\* A text, wherever it is.
LEMMA TextReturning ==
    ASSUME PInv, Returning, maxStanzaSize' = maxStanzaSize, NEW n \in Sizes, ReadsText(n)
    PROVE  Returning'
  <1>1. PICK t \in Texts : /\ CharData(t, n)
                           /\ IF Level > 0 THEN Hears(t) ELSE UNCHANGED heard
    BY DEF ReadsText
  <1>2. open' = open /\ torn' = torn /\ ~ended' /\ PInv'
    <2>1. PInv'
      BY ReadingText
    <2>. QED
      BY <2>1 DEF ReadsText, Goes
  <1>3. torn \in BOOLEAN /\ Level \in Nat /\ Level' = Level
    <2>1. Len(open) \in Nat
      BY LenProperties DEF PInv, TypeOK
    <2>2. Level \in Nat
      BY <2>1, AmongNat, LevelIs
    <2>. QED
      BY <1>2, <2>2, LevelIs DEF PInv, TypeOK
  <1>4. (Level > 0 => heard' = Append(heard, t)) /\ (Level = 0 => heard' = heard)
    <2>1. CASE Level > 0
      <3>1. Level # 0 /\ Hears(t)
        BY <1>1, <1>3, <2>1
      <3>. QED
        BY <3>1 DEF Hears
    <2>2. CASE Level = 0
      <3>1. ~(Level > 0)
        BY <2>2
      <3>. QED
        BY <1>1, <2>2, <3>1
    <2>. QED
      BY <2>1, <2>2
  <1>5. CASE inElement /\ ~Torn /\ stack' = WithTop(WithText(Top, t)) /\ ret' = Going
    <2>1. pIndex >= 0
      BY <1>5 DEF PInv, Matching
    <2>. QED
      BY <1>2, <1>3, <1>4, <1>5, <2>1, ReturningText
  <1>6. CASE stack' = stack /\ ret' \in {Panic, Token("space"), ErrNoElement}
    <2>1. ret'.kind # "element"
      <3>1. \A k : k # "element" => Token(k).kind # "element"
        BY NoElement
      <3>2. "space" # "element" /\ "no element" # "element"
        OBVIOUS
      <3>3. Token("space").kind # "element" /\ ErrNoElement.kind # "element" /\ Panic.kind # "element"
        BY <3>1, <3>2, NoElement DEF ErrNoElement
      <3>. QED
        BY <1>6, <3>3
    <2>2. heard' = heard \/ \E x \in Texts : heard' = Append(heard, x)
      <3>1. Level = 0 \/ Level > 0
        BY <1>3
      <3>. QED
        BY <1>4, <3>1
    <2>. QED
      BY <1>2, <1>3, <1>6, <2>1, <2>2, ReturningPasses
  <1>. QED
    BY <1>1, <1>5, <1>6 DEF CharData, Returns, Fails, GoesOn, parser

\* A start tag.
LEMMA StartReturning ==
    ASSUME PInv, Returning, maxStanzaSize' = maxStanzaSize, NEW n \in Sizes, ReadsStart(n)
    PROVE  Returning'
  <1>1. PICK name \in Names : startElement(name, n) /\ Hears(name)
    BY DEF ReadsStart
  <1>2. /\ ret' = Going /\ stack' = Append(stack, Builder(name)) /\ ~ended' /\ torn' = torn
        /\ heard' = IF Level = 0 THEN <<name>> ELSE Append(heard, name)
    BY <1>1 DEF ReadsStart, startElement, GoesOn, Hears
  <1>3. /\ name \in Pieces /\ Append(heard, name) \in Seq(Pieces) /\ <<name>> \in Seq(Pieces)
        /\ <<name>> = Append(<<>>, name)
    BY AppendProperties DEF Pieces, Returning
  <1>4. heard' \in Seq(Pieces)
    BY <1>2, <1>3
  <1>5. Builder(name) \in Builders /\ Builder(name).text = <<>>
    <2>1. <<>> \in Seq(Pieces)
      BY EmptySeq
    <2>. QED
      BY <2>1 DEF Builder, Builders
  <1>6. /\ stack \in Seq(Builders) /\ Len(stack) \in Nat /\ Len(stack') = Len(stack) + 1
        /\ stack'[Len(stack) + 1] = Builder(name)
        /\ \A k \in 1 .. Len(stack) : stack'[k] = stack[k]
    BY <1>2, <1>5, LenProperties, AppendProperties DEF PInv, TypeOK
  <1>7. ASSUME ~torn
        PROVE  /\ \A k \in 1 .. Len(stack') : Markup(stack'[k].text) = <<>>
               /\ Holds(stack', heard')
    <2>1. ASSUME NEW k \in 1 .. Len(stack')
          PROVE  Markup(stack'[k].text) = <<>>
      <3>1. k = Len(stack) + 1 \/ k \in 1 .. Len(stack)
        BY <1>6
      <3>. QED
        BY <1>5, <1>6, <1>7, <3>1, MarkupOfNone DEF Returning
    <2>2. Level = Len(stack)
      BY <1>7, LevelIsLen
    <2>3. CASE Level = 0
      <3>1. stack = <<>>
        BY <1>6, <2>2, <2>3, EmptySeq
      <3>2. Holds(stack, <<>>) /\ <<>> \in Seq(Pieces)
        BY <3>1, HoldsNone, EmptySeq
      <3>3. Holds(stack', Append(<<>>, name))
        BY <1>2, <1>5, <1>6, <3>2, HoldsPush
      <3>. QED
        BY <1>2, <1>3, <2>1, <2>3, <3>3
    <2>4. CASE Level # 0
      <3>1. Holds(stack, heard) /\ heard \in Seq(Pieces)
        BY <1>6, <1>7, <2>2, <2>4 DEF Returning
      <3>2. Holds(stack', Append(heard, name))
        BY <1>2, <1>5, <1>6, <3>1, HoldsPush
      <3>. QED
        BY <1>2, <2>1, <2>4, <3>2
    <2>. QED
      BY <2>3, <2>4
  <1>. QED
    BY <1>2, <1>4, <1>7, NoElement DEF Returning

\* The end of an element, and of a stanza.
LEMMA EndReturning ==
    ASSUME PInv, Returning, maxStanzaSize' = maxStanzaSize, NEW n \in Sizes, ReadsEnd(n)
    PROVE  Returning'
  <1>1. /\ torn' = torn /\ ended' = (Level = 1) /\ Hears("/") /\ PInv' /\ torn \in BOOLEAN
    <2>1. PInv'
      BY ReadingEnd
    <2>. QED
      BY <2>1 DEF ReadsEnd, PInv, TypeOK
  <1>2. heard' \in Seq(Pieces)
    <2>1. "/" \in Pieces
      BY DEF Pieces
    <2>2. Append(heard, "/") \in Seq(Pieces) /\ <<"/">> \in Seq(Pieces)
      BY <2>1, AppendProperties DEF Returning
    <2>. QED
      BY <1>1, <2>2 DEF Hears
  <1>. SUFFICES ASSUME ~torn
                PROVE  Returning'
    BY <1>1, <1>2 DEF Returning
  <1>3. /\ Level = Len(stack) /\ Len(stack) \in Nat \ {0} /\ pIndex = Len(stack) - 1
        /\ pIndex >= 0 /\ ~Torn /\ Closes
    BY EndsTop
  <1>4. stack \in Seq(Builders) /\ heard \in Seq(Pieces) /\ Holds(stack, heard)
        /\ \A k \in 1 .. Len(stack) : Markup(stack[k].text) = <<>>
    BY <1>3 DEF Returning, PInv, TypeOK
  <1>5. heard' = Append(heard, "/")
    BY <1>1, <1>3 DEF Hears
  <1>6. CASE Level = 1
    <2>1. Top = stack[1] /\ Len(stack) = 1 /\ pIndex = 0
      BY <1>3, <1>6 DEF Top
    <2>2. stack' = <<>> /\ ret' = Element(Build(stack[1]))
      BY <1>3, <2>1 DEF Closes, Returns
    <2>3. ret'.kind = "element" /\ ret'.elem = Build(stack[1]) /\ ended'
      BY <1>1, <1>6, <2>2 DEF Element
    <2>4. Markup(Build(stack[1])) = Markup(heard')
      <3>1. Markup(stack[1].text) = <<>>
        BY <1>4, <2>1
      <3>. QED
        BY <1>4, <1>5, <2>1, <3>1, HoldsEnd
    <2>5. Len(stack') = 0 /\ Level' = 0
      <3>1. Len(stack') = 0
        BY <2>2, EmptySeq
      <3>2. Level' = Len(stack')
        BY <1>1, LevelIs DEF PInv, Matching, Fits
      <3>. QED
        BY <3>1, <3>2
    <2>. QED
      BY <1>2, <2>3, <2>4, <2>5 DEF Returning
  <1>7. CASE Level # 1
    <2>1. pIndex \in Nat /\ pIndex > 0 /\ pIndex # 0 /\ Len(stack) = pIndex + 1
      BY <1>3, <1>7
    <2>2. Top = stack[pIndex + 1] /\ ret' = Going /\ ~ended'
      BY <1>1, <1>3, <1>7, <2>1 DEF Top, Closes, GoesOn
    <2>3. /\ stack' \in Seq(Builders) /\ Len(stack') = pIndex
          /\ \A k \in 1 .. pIndex - 1 : stack'[k] = stack[k]
          /\ stack'[pIndex] = WithChild(stack[pIndex], Build(stack[pIndex + 1]))
      BY <1>3, <2>1, <2>2, ClosingInto DEF PInv
    <2>4. Holds(stack', heard')
      <3>1. Markup(stack[pIndex + 1].text) = <<>>
        BY <1>4, <2>1
      <3>. QED
        BY <1>4, <1>5, <2>1, <2>3, <3>1, HoldsPop
    <2>5. ASSUME NEW k \in 1 .. Len(stack')
          PROVE  Markup(stack'[k].text) = <<>>
      <3>1. k \in 1 .. pIndex - 1 \/ k = pIndex
        BY <2>1, <2>3
      <3>2. pIndex \in 1 .. Len(stack) /\ \A j \in 1 .. pIndex - 1 : j \in 1 .. Len(stack)
        BY <2>1
      <3>3. CASE k \in 1 .. pIndex - 1
        BY <1>4, <2>3, <3>2, <3>3
      <3>4. CASE k = pIndex
        <4>1. WithChild(stack[pIndex], Build(stack[pIndex + 1])).text = stack[pIndex].text
          <5>1. stack[pIndex] \in Builders
            BY <1>4, <3>2, ElementOfSeq
          <5>. QED
            BY <5>1 DEF WithChild, Builders
        <4>. QED
          BY <1>4, <2>3, <3>2, <3>4, <4>1
      <3>. QED
        BY <3>1, <3>3, <3>4
    <2>. QED
      BY <1>2, <2>2, <2>4, <2>5, NoElement DEF Returning
  <1>. QED
    BY <1>6, <1>7

\* The end of a header: the builders stay, or the stack is torn.
LEMMA EndHeaderReturning ==
    ASSUME PInv, Returning, maxStanzaSize' = maxStanzaSize, NEW n \in Sizes, ReadsEndHeader(n)
    PROVE  Returning'
  <1>1. PInv'
    BY ReadingEndHeader
  <1>2. /\ Last(open) \in Headers /\ heard' = heard /\ ~ended'
        /\ torn' = (torn \/ (Last(open) = "open" /\ Level > 0))
        /\ IF Last(open) = "stream" THEN EndStream(n) ELSE endElement("open", n)
    BY DEF ReadsEndHeader
  <1>. SUFFICES ASSUME ~torn'
                PROVE  Returning'
    BY <1>2 DEF Returning
  <1>3. ~torn /\ (Last(open) = "stream" \/ ~(Level > 0))
    BY <1>2 DEF Headers
  <1>4. stack' = stack /\ ret' \in {Token("end"), ErrUnexpectedEnd}
    <2>1. CASE Last(open) = "stream"
      BY <1>2, <2>1 DEF EndStream, Returns, parser
    <2>2. CASE Last(open) # "stream"
      <3>1. Level = Len(stack) /\ Len(stack) \in Nat /\ pIndex = Len(stack) - 1
        BY <1>3, LevelIsLen
      <3>2. pIndex = -1
        BY <1>3, <2>2, <3>1
      <3>. QED
        BY <1>2, <2>2, <3>2 DEF endElement, rootElementIndex, Fails, parser
    <2>. QED
      BY <2>1, <2>2
  <1>5. ret'.kind # "element"
    BY <1>4, NoElement DEF ErrUnexpectedEnd
  <1>6. torn \in BOOLEAN
    BY DEF PInv, TypeOK
  <1>. QED
    BY <1>1, <1>2, <1>3, <1>4, <1>5, <1>6, ReturningPasses

-----------------------------------------------------------------------------
(* What they keep *)

\* Every step keeps the invariant, and what was too large is refused for good.
LEMMA NextPInv ==
    PInv /\ [Next]_vars =>
        PInv' /\ (ret = ErrTooLargeStanza => ret' \in {ErrTooLargeStanza, DecoderError})
  <1>. SUFFICES ASSUME PInv, [Next]_vars
                PROVE  PInv' /\ (ret = ErrTooLargeStanza => ret' \in {ErrTooLargeStanza, DecoderError})
    OBVIOUS
  <1>1. CASE UNCHANGED vars
    BY <1>1 DEF vars, pvars, parser, input, PInv, TypeOK, Matching, Limiting, ReadAtOnceIsLimited,
                Fits, Among, Level, Elements
  <1>2. CASE InputEnds /\ maxStanzaSize' = maxStanzaSize
    BY <1>2, Breaking
  <1>3. ASSUME NEW n \in Sizes, maxStanzaSize' = maxStanzaSize,
               \/ ReadsProcInst(n) \/ ReadsComment(n) \/ ReadsText(n) \/ ReadsHeader(n)
               \/ ReadsStart(n) \/ ReadsEnd(n) \/ ReadsEndHeader(n) \/ ReadsTooMuch(n)
        PROVE  PInv' /\ (ret = ErrTooLargeStanza => ret' \in {ErrTooLargeStanza, DecoderError})
    <2>1. CASE ReadsProcInst(n) \/ ReadsComment(n)
      BY <1>3, <2>1, Ignoring
    <2>2. CASE ReadsText(n)
      BY <1>3, <2>2, ReadingText
    <2>3. CASE ReadsHeader(n)
      BY <1>3, <2>3, ReadingHeader
    <2>4. CASE ReadsStart(n)
      BY <1>3, <2>4, ReadingStart
    <2>5. CASE ReadsEnd(n)
      BY <1>3, <2>5, ReadingEnd
    <2>6. CASE ReadsEndHeader(n)
      BY <1>3, <2>6, ReadingEndHeader
    <2>7. CASE ReadsTooMuch(n)
      BY <1>3, <2>7, Refusing
    <2>. QED
      BY <1>3, <2>1, <2>2, <2>3, <2>4, <2>5, <2>6, <2>7
  <1>. QED
    BY <1>1, <1>2, <1>3 DEF Next, Reads

\* At first nothing is open and nothing was heard.
LEMMA InitReturning == Init => Returning
  <1>. SUFFICES ASSUME Init PROVE Returning
    OBVIOUS
  <1>1. heard = <<>> /\ stack = <<>> /\ ~ended /\ ret = Going /\ <<>> \in Seq(Pieces) /\ Len(stack) = 0
    BY EmptySeq DEF Init, NewParser
  <1>2. Level = Len(stack)
    BY InitPInv, LevelIs DEF PInv, Matching, Fits, Init
  <1>3. \A k \in 1 .. Len(stack) : Markup(stack[k].text) = <<>>
    BY <1>1
  <1>. QED
    BY <1>1, <1>2, <1>3, NoElement DEF Returning

\* Every step keeps what the builders hold, and what is returned.
LEMMA NextReturning == PInv /\ Returning /\ [Next]_vars => Returning'
  <1>. SUFFICES ASSUME PInv, Returning, [Next]_vars
                PROVE  Returning'
    OBVIOUS
  <1>1. PInv' /\ torn \in BOOLEAN
    BY NextPInv DEF PInv, TypeOK
  <1>2. CASE UNCHANGED vars
    BY <1>2 DEF vars, pvars, parser, input, Returning, Level, Elements
  <1>3. CASE InputEnds
    <2>1. stack' = stack /\ heard' = heard /\ ~ended' /\ torn' = torn /\ ret' = DecoderError
      BY <1>3 DEF InputEnds, Breaks, Fails, Goes, parser
    <2>2. ret'.kind # "element"
      BY <2>1, NoElement DEF DecoderError
    <2>. QED
      BY <1>1, <2>1, <2>2, ReturningPasses
  <1>4. ASSUME NEW n \in Sizes, maxStanzaSize' = maxStanzaSize,
               \/ ReadsProcInst(n) \/ ReadsComment(n) \/ ReadsText(n) \/ ReadsHeader(n)
               \/ ReadsStart(n) \/ ReadsEnd(n) \/ ReadsEndHeader(n) \/ ReadsTooMuch(n)
        PROVE  Returning'
    <2>1. CASE ReadsProcInst(n) \/ ReadsComment(n)
      <3>1. /\ stack' = stack /\ heard' = heard /\ ~ended' /\ torn' = torn
            /\ ret' \in {ErrNoElement, Token("procinst"), Going}
        BY <2>1 DEF ReadsProcInst, ProcInst, ReadsComment, Ignores, Goes, GoesOn, Fails, Returns, parser
      <3>2. ret'.kind # "element"
        BY <3>1, NoElement DEF ErrNoElement
      <3>. QED
        BY <1>1, <3>1, <3>2, ReturningPasses
    <2>2. CASE ReadsHeader(n)
      <3>1. stack' = stack /\ heard' = heard /\ ~ended' /\ torn' = torn /\ ret' = Token("header")
        BY <2>2 DEF ReadsHeader, Header, Returns, parser
      <3>2. ret'.kind # "element"
        BY <3>1, NoElement
      <3>. QED
        BY <1>1, <3>1, <3>2, ReturningPasses
    <2>3. CASE ReadsTooMuch(n)
      <3>1. stack' = stack /\ heard' = heard /\ ~ended' /\ torn' = torn /\ ret' = ErrTooLargeStanza
        BY <2>3 DEF ReadsTooMuch, Refuses, Fails, parser
      <3>2. ret'.kind # "element"
        BY <3>1, NoElement
      <3>. QED
        BY <1>1, <3>1, <3>2, ReturningPasses
    <2>4. CASE ReadsEndHeader(n)
      BY <1>4, <2>4, EndHeaderReturning
    <2>. QED
      BY <1>4, <2>1, <2>2, <2>3, <2>4, TextReturning, StartReturning, EndReturning
  <1>. QED
    BY <1>2, <1>3, <1>4 DEF Next, Reads

\* The stack, the limit and the tags agree with each other in every state.
THEOREM ParserInvariant == Spec => []PInv
  BY InitPInv, NextPInv, PTL DEF Spec

\* Whatever the input, the stack has a builder for every element that is open
\* and pIndex is on the last one, until an </open> comes inside a stanza
\* (parser.go:122-189).
THEOREM StackIsTheOpenElements == Spec => []StackMatches
  <1>1. PInv => StackMatches
    <2>. SUFFICES ASSUME PInv, ~torn
                  PROVE  /\ pIndex = Len(stack) - 1 /\ Len(stack) = Level
                         /\ \A i \in DOMAIN open : open[i] \notin Headers => stack[Elements(i)].name = open[i]
      BY DEF StackMatches
    <2>1. Fits(stack, open) /\ pIndex = Len(stack) - 1
      BY DEF PInv, Matching
    <2>. QED
      BY <2>1 DEF Fits, Among, Level, Elements
  <1>. QED
    BY <1>1, ParserInvariant, PTL

\* A stanza is returned when its last tag is read and only then, with all its
\* elements in their places, whatever came in between (parser.go:122-189).
THEOREM StanzasAreReturned == Spec => []StanzasReturned
  <1>1. Returning => StanzasReturned
    BY DEF Returning, StanzasReturned
  <1>. QED
    BY <1>1, ParserInvariant, InitReturning, NextReturning, PTL DEF Spec

\* Until then no index of the parser is out of range (parser.go:129-189).
THEOREM NoPanicUnlessTorn == Spec => [](~torn => ret # Panic)
  <1>1. PInv => (~torn => ret # Panic)
    BY DEF PInv, Matching
  <1>. QED
    BY <1>1, ParserInvariant, PTL

\* Once a token was refused for its size every later one is, until the decoder
\* fails (parser.go:60-76).
THEOREM TooLargeStaysRefused == Spec => TooLargeIsFinal
  <1>1. PInv /\ [Next]_vars =>
            [ret = ErrTooLargeStanza => ret' \in {ErrTooLargeStanza, DecoderError}]_vars
    BY NextPInv
  <1>. QED
    BY <1>1, ParserInvariant, PTL DEF Spec, TooLargeIsFinal

\* A stanza that one call of Next has read from its first byte keeps the limit,
\* whatever its tokens are (parser.go:60-76).
THEOREM LimitHolds == Spec => []ReadAtOnceIsLimited
  <1>1. PInv => ReadAtOnceIsLimited
    BY DEF PInv
  <1>. QED
    BY <1>1, ParserInvariant, PTL
=============================================================================
