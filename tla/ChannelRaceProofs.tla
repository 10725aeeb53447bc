--------------------------- MODULE ChannelRaceProofs ---------------------------
(***************************************************************************)
(* Proofs about a channel that two goroutines use at once, for any number  *)
(* of headers and frames: while no two of them are in the encoder at once  *)
(* the peer reads balanced tags, and what crosses <proceed/> in the clear  *)
(* is a closing tag; otherwise a header may cross it too.                  *)
(***************************************************************************)
EXTENDS ChannelRace, Integers, FiniteSetTheorems, FunctionTheorems, SequenceTheorems, TLAPS

Kinds  == {"procinst", "element", "proceed", "header", "end"}
Frames == [kind : Kinds, tls : BOOLEAN]
Dos    == {"idle", "over", "check", "write", "upgrade", "set closed", "start timer"} \cup Inside
Places == [do : Dos, of : Kinds \cup {"-"}]
Tokens == {"header", "end"}

TypeOK ==
    /\ state \in {"init", "opened", "closed"}
    /\ up \in BOOLEAN /\ tls \in BOOLEAN /\ broken \in BOOLEAN /\ overlapped \in BOOLEAN
    /\ timers \in Nat /\ depth \in Nat /\ opens \in Nat
    /\ buffer \in Seq(Tokens)
    /\ filled \in 0 .. Len(buffer) /\ part \in [Goroutines -> 0 .. Len(buffer)]
    /\ out \in Seq(Frames)
    /\ pc \in [Goroutines -> Places]

\* Where the goroutines are: Stop writes nothing but a closing tag, the reader
\* upgrades when it has written <proceed/> and has nothing else to say.
Stopping ==
    /\ pc["stopper"].do # "upgrade"
    /\ pc["stopper"].do \in {"check", "write"} \cup Inside => pc["stopper"].of = "end"

Reading == pc["reader"].do \in Inside => pc["reader"].of \in Tokens

\* What the encoder's buffer has is the frame of the goroutine that is in it.
Own(g) == filled = 1 /\ buffer[1] = pc[g].of

\* A goroutine that is in the encoder alone finds it empty, and flushes what it
\* has appended itself; only a connection that is gone breaks the writer.
Alone ==
    ~overlapped =>
        /\ \A g, h \in Goroutines : pc[g].do \in Inside /\ pc[h].do \in Inside => g = h
        /\ broken => ~up
        /\ ~broken =>
               /\ (\A g \in Goroutines : pc[g].do \notin Inside) => filled = 0
               /\ \A g \in Goroutines :
                      /\ pc[g].do = "append" => filled = 0
                      /\ pc[g].do = "flush" => filled = 0 \/ Own(g)
                      /\ pc[g].do \in {"drain", "compare", "empty"} => Own(g) /\ part[g] = 1

Proceeded == \E i \in DOMAIN out : out[i].kind = "proceed"

\* In the clear, <proceed/> is the last thing the reader has written.
Upgrading == Proceeded /\ ~tls => pc["reader"].do = "upgrade"

CrossInv == TypeOK /\ Stopping /\ Reading /\ Alone /\ Upgrading /\ OnlyEndsCross

-----------------------------------------------------------------------------
(* Types and places *)

USE DEF Goroutines, Inside

\* The places of two sequences put together.
LEMMA AppendIn ==
    ASSUME NEW S, NEW s \in Seq(S), NEW t \in Seq(S)
    PROVE  /\ s \o t \in Seq(S)
           /\ DOMAIN s = 1 .. Len(s) /\ DOMAIN t = 1 .. Len(t) /\ Len(s) \in Nat /\ Len(t) \in Nat
           /\ DOMAIN (s \o t) = 1 .. (Len(s) + Len(t))
           /\ \A i \in DOMAIN s : i \in DOMAIN (s \o t) /\ (s \o t)[i] = s[i]
           /\ \A i \in DOMAIN (s \o t) : i \notin DOMAIN s =>
                  i - Len(s) \in DOMAIN t /\ (s \o t)[i] = t[i - Len(s)]
  BY ConcatProperties, LenProperties

\* What Send and SendToken write.
LEMMA Layers ==
    ASSUME NEW ks \in Seq(Kinds), tls \in BOOLEAN
    PROVE  Layered(ks) \in Seq(Frames) /\ Len(Layered(ks)) = Len(ks)
  <1>1. DOMAIN ks = 1 .. Len(ks) /\ Len(ks) \in Nat /\ \A i \in 1 .. Len(ks) : ks[i] \in Kinds
    BY LenProperties, ElementOfSeq
  <1>2. Layered(ks) \in [1 .. Len(ks) -> Frames]
    BY <1>1 DEF Layered, Frames
  <1>. QED
    BY <1>1, <1>2, SeqDef

\* One write: what it adds to the wire, and what it may add in the clear.
LEMMA Wrote ==
    ASSUME TypeOK, OnlyEndsCross, NEW ks \in Seq(Kinds), Written(ks),
           UNCHANGED overlapped,
           Proceeded /\ ~tls =>
               \A i \in DOMAIN ks : ks[i] = "end" \/ (overlapped /\ ks[i] = "header"),
           (\E i \in DOMAIN ks : ks[i] = "proceed") => Len(ks) = 1
    PROVE  /\ out' \in Seq(Frames) /\ OnlyEndsCross'
           /\ Proceeded' => Proceeded \/ \E i \in DOMAIN ks : ks[i] = "proceed"
  <1>1. CASE ~up
    BY <1>1, Zenon DEF Written, TypeOK, OnlyEndsCross, Proceeded
  <1>2. CASE up
    <2>. DEFINE ls == Layered(ks)
    <2>1. /\ ls \in Seq(Frames) /\ DOMAIN ls = DOMAIN ks
          /\ \A i \in DOMAIN ls : ls[i].kind = ks[i] /\ ls[i].tls = tls
      BY Layers DEF Layered, TypeOK
    <2>2. out' = out \o ls
      BY <1>2 DEF Written
    <2>. HIDE DEF ls
    <2>3. /\ out' \in Seq(Frames) /\ DOMAIN out = 1 .. Len(out) /\ Len(out) \in Nat
          /\ DOMAIN out' = 1 .. (Len(out) + Len(ls)) /\ DOMAIN ls = 1 .. Len(ls)
          /\ Len(ls) \in Nat
          /\ \A i \in DOMAIN out : i \in DOMAIN out' /\ out'[i] = out[i]
          /\ \A i \in DOMAIN out' : i \notin DOMAIN out =>
                 i - Len(out) \in DOMAIN ls /\ out'[i] = ls[i - Len(out)]
      BY <2>1, <2>2, AppendIn DEF TypeOK
    <2>4. ASSUME NEW i \in DOMAIN out', NEW j \in DOMAIN out',
                 i < j, out'[i].kind = "proceed", ~out'[j].tls
          PROVE  out'[j].kind = "end" \/ (overlapped' /\ out'[j].kind = "header")
      <3>1. CASE j \in DOMAIN out
        <4>1. i \in DOMAIN out
          BY <2>3, <2>4, <3>1
        <4>. QED
          BY <2>3, <2>4, <3>1, <4>1 DEF OnlyEndsCross
      <3>2. CASE i \in DOMAIN out /\ j \notin DOMAIN out
        <4>1. Proceeded /\ out'[j] = ls[j - Len(out)] /\ j - Len(out) \in DOMAIN ks
          BY <2>1, <2>3, <2>4, <3>2 DEF Proceeded
        <4>2. ~tls /\ ls[j - Len(out)].kind = ks[j - Len(out)]
          BY <2>1, <2>4, <4>1
        <4>. QED
          BY <4>1, <4>2
      <3>3. CASE i \notin DOMAIN out /\ j \notin DOMAIN out
        <4>1. i - Len(out) \in DOMAIN ks /\ ks[i - Len(out)] = "proceed"
          BY <2>1, <2>3, <2>4, <3>3
        <4>2. Len(ls) = 1
          BY <2>1, <2>3, <4>1, Layers, LenProperties DEF ls, TypeOK
        <4>. QED
          BY <2>3, <2>4, <3>3, <4>2
      <3>. QED
        BY <3>1, <3>2, <3>3
    <2>5. ASSUME NEW i \in DOMAIN out', out'[i].kind = "proceed"
          PROVE  Proceeded \/ \E j \in DOMAIN ks : ks[j] = "proceed"
      <3>1. CASE i \in DOMAIN out
        BY <2>3, <2>5, <3>1 DEF Proceeded
      <3>2. CASE i \notin DOMAIN out
        <4>1. i - Len(out) \in DOMAIN ks /\ ks[i - Len(out)] = "proceed"
          BY <2>1, <2>3, <2>5, <3>2
        <4>. QED
          BY <4>1
      <3>. QED
        BY <3>1, <3>2
    <2>6. OnlyEndsCross'
      BY <2>4 DEF OnlyEndsCross
    <2>. QED
      BY <2>3, <2>5, <2>6 DEF Proceeded
  <1>. QED
    BY <1>1, <1>2 DEF TypeOK

\* At the start nothing has been written.
LEMMA CrossInit == Init => CrossInv
  <1>. SUFFICES ASSUME Init PROVE CrossInv
    OBVIOUS
  <1>1. TypeOK
    <2>1. buffer = <<>> /\ Len(buffer) = 0 /\ buffer \in Seq(Tokens) /\ out \in Seq(Frames)
      BY EmptySeq DEF Init
    <2>2. filled \in 0 .. Len(buffer) /\ part \in [Goroutines -> 0 .. Len(buffer)]
      BY <2>1 DEF Init
    <2>3. pc \in [Goroutines -> Places]
      BY DEF Init, Places, Dos, Do, Idle
    <2>. QED
      BY <2>1, <2>2, <2>3 DEF Init, TypeOK
  <1>2. DOMAIN out = {}
    BY DEF Init
  <1>3. Upgrading /\ OnlyEndsCross
    BY <1>2 DEF Upgrading, Proceeded, OnlyEndsCross
  <1>4. Stopping /\ Reading /\ Alone
    BY DEF Init, Stopping, Reading, Alone, Do, Idle
  <1>. QED
    BY <1>1, <1>3, <1>4 DEF CrossInv

\* A goroutine goes somewhere it may be.
Allowed(g, to) ==
    /\ to \in Places
    /\ g = "stopper" =>
           to.do # "upgrade" /\ (to.do \in {"check", "write"} \cup Inside => to.of = "end")
    /\ g = "reader" => (to.do \in Inside => to.of \in Tokens)

\* A goroutine goes where it may, and the other one stays.
LEMMA WentTo ==
    ASSUME TypeOK, Stopping, Reading, NEW g \in Goroutines, NEW to, Goes(g, to), Allowed(g, to)
    PROVE  /\ pc' \in [Goroutines -> Places] /\ Stopping' /\ Reading'
           /\ pc'[g] = to /\ \A h \in Goroutines \ {g} : pc'[h] = pc[h]
  <1>1. /\ pc' \in [Goroutines -> Places]
        /\ pc'[g] = to /\ \A h \in Goroutines \ {g} : pc'[h] = pc[h]
    BY DEF TypeOK, Goes, Allowed
  <1>. QED
    BY <1>1 DEF Stopping, Reading, Allowed

\* What comes after a frame is outside of the encoder, and for Stop nothing but
\* the end of Close.
LEMMA Following ==
    ASSUME NEW g \in Goroutines, NEW k \in Kinds \cup {"-"}, g = "stopper" => k = "end"
    PROVE  Allowed(g, AfterFrame(k)) /\ AfterFrame(k).do \notin Inside
  BY DEF Allowed, AfterFrame, Do, Idle, Places, Dos, Kinds, Tokens

\* Outside of the encoder a goroutine leaves what is in it alone.
LEMMA AloneKept ==
    ASSUME Alone, UNCHANGED encoder, up' => up,
           \A g \in Goroutines : pc'[g] = pc[g] \/ (pc[g].do \notin Inside /\ pc'[g].do \notin Inside)
    PROVE  Alone'
  <1>1. UNCHANGED <<buffer, filled, broken, part, overlapped>>
    BY DEF encoder
  <1>2. \A g \in Goroutines : pc'[g].do \in Inside => pc'[g] = pc[g] /\ pc[g].do \in Inside
    OBVIOUS
  <1>3. (\A g \in Goroutines : pc'[g].do \notin Inside) => \A g \in Goroutines : pc[g].do \notin Inside
    OBVIOUS
  <1>. QED
    BY <1>1, <1>2, <1>3 DEF Alone, Own

\* What a step encodes and writes apart, what stays as long as the reader does.
LEMMA Quiet ==
    ASSUME CrossInv, TypeOK', Stopping', Reading', UNCHANGED <<tls, encoder, out>>, up' => up,
           \A g \in Goroutines :
               pc'[g] = pc[g] \/ (pc[g].do \notin Inside \cup {"upgrade"} /\ pc'[g].do \notin Inside)
    PROVE  CrossInv'
  <1>1. Alone'
    BY AloneKept DEF CrossInv
  <1>2. Upgrading'
    BY DEF CrossInv, Upgrading, Proceeded
  <1>3. OnlyEndsCross'
    BY DEF CrossInv, OnlyEndsCross, encoder
  <1>. QED
    BY <1>1, <1>2, <1>3 DEF CrossInv

\* A step inside the encoder that writes nothing.
LEMMA Unwritten ==
    ASSUME CrossInv, TypeOK', Stopping', Reading', Alone', UNCHANGED <<tls, out>>,
           overlapped => overlapped',
           pc["reader"].do = "upgrade" => pc'["reader"] = pc["reader"]
    PROVE  CrossInv'
  <1>1. Upgrading'
    BY DEF CrossInv, Upgrading, Proceeded
  <1>2. OnlyEndsCross'
    BY DEF CrossInv, OnlyEndsCross
  <1>. QED
    BY <1>1, <1>2 DEF CrossInv

\* Who is in the encoder alone is there with the other one outside of it.
LEMMA OneInside ==
    ASSUME Alone, ~overlapped, NEW g \in Goroutines, pc[g].do \in Inside
    PROVE  \A h \in Goroutines \ {g} : pc[h].do \notin Inside
  BY DEF Alone

\* SendToken counts the tag: who comes second finds the other one there.
LEMMA EncodesKeeps == ASSUME CrossInv, NEW g \in Goroutines, Encodes(g) PROVE CrossInv'
  <1>0. TypeOK /\ Stopping /\ Reading /\ Alone
    BY DEF CrossInv
  <1>1. PICK k \in Tokens, do \in {"append", "flush"} :
            /\ pc[g].do = "write" /\ pc[g].of = k /\ Goes(g, Do(do, k)) /\ Meets(g)
            /\ UNCHANGED <<state, up, timers, tls, buffer, filled, broken, part, out, opens>>
    BY DEF Encodes, Tokens
  <1>2. depth' \in Nat
    BY <1>0 DEF Encodes, TypeOK
  <1>3. Allowed(g, Do(do, k))
    BY <1>0, <1>1 DEF Stopping, Allowed, Do, Places, Dos, Kinds, Tokens
  <1>4. /\ pc' \in [Goroutines -> Places] /\ Stopping' /\ Reading'
        /\ pc'[g] = Do(do, k) /\ \A h \in Goroutines \ {g} : pc'[h] = pc[h]
    BY <1>0, <1>1, <1>3, WentTo
  <1>5. overlapped' \in BOOLEAN /\ (overlapped => overlapped')
        /\ (~overlapped' => ~overlapped /\ \A h \in Goroutines \ {g} : pc[h].do \notin Inside)
    BY <1>1, Zenon DEF Meets
  <1>6. TypeOK'
    BY <1>0, <1>1, <1>2, <1>4, <1>5 DEF TypeOK
  <1>7. Alone'
    <2>. SUFFICES ASSUME ~overlapped' PROVE Alone'
      BY DEF Alone
    <2>1. \A h \in Goroutines : pc[h].do \notin Inside
      BY <1>1, <1>5
    <2>2. (broken => ~up) /\ (~broken => filled = 0)
      BY <1>0, <1>5, <2>1 DEF Alone
    <2>3. \A h \in Goroutines : pc'[h].do \in Inside => h = g
      BY <1>4, <2>1
    <2>4. pc'[g].do \in {"append", "flush"}
      BY <1>4 DEF Do
    <2>. QED
      BY <1>1, <2>2, <2>3, <2>4 DEF Alone
  <1>8. pc["reader"].do = "upgrade" => pc'["reader"] = pc["reader"]
    BY <1>1, <1>4
  <1>. QED
    BY <1>1, <1>4, <1>5, <1>6, <1>7, <1>8, Unwritten

\* The memory of the writer holds tokens and never gets shorter.
LEMMA MemoryType ==
    ASSUME TypeOK, NEW k \in Tokens, filled < Len(buffer) \/ filled = Len(buffer)
    PROVE  LET b == IF filled < Len(buffer) THEN [buffer EXCEPT ![filled + 1] = k]
                                            ELSE Append(buffer, k)
           IN  /\ b \in Seq(Tokens) /\ Len(b) \in Nat /\ Len(b) >= Len(buffer)
               /\ filled + 1 <= Len(b) /\ b[filled + 1] = k
  <1>1. Len(buffer) \in Nat /\ DOMAIN buffer = 1 .. Len(buffer) /\ buffer \in [1 .. Len(buffer) -> Tokens]
    BY LenProperties DEF TypeOK
  <1>2. CASE filled < Len(buffer)
    <2>. DEFINE b == [buffer EXCEPT ![filled + 1] = k]
    <2>0. filled + 1 \in 1 .. Len(buffer)
      <3>1. filled \in 0 .. Len(buffer)
        BY DEF TypeOK
      <3>2. PICK n \in Nat : n = Len(buffer)
        BY <1>1
      <3>3. filled \in 0 .. n /\ filled < n
        BY <1>2, <3>1, <3>2
      <3>4. filled + 1 \in 1 .. n
        BY <3>3
      <3>. QED
        BY <3>2, <3>4
    <2>1. b \in [1 .. Len(buffer) -> Tokens] /\ filled + 1 \in 1 .. Len(buffer)
      BY <1>1, <2>0
    <2>2. b \in Seq(Tokens) /\ Len(b) = Len(buffer)
      BY <1>1, <2>1, SeqDef
    <2>3. b[filled + 1] = k
      BY <1>1, <2>1
    <2>. QED
      BY <1>1, <1>2, <2>1, <2>2, <2>3
  <1>3. CASE filled = Len(buffer)
    <2>1. Append(buffer, k) \in Seq(Tokens) /\ Len(Append(buffer, k)) = Len(buffer) + 1
          /\ Append(buffer, k)[Len(buffer) + 1] = k
      BY AppendProperties DEF TypeOK
    <2>. QED
      BY <1>1, <1>3, <2>1
  <1>. QED
    BY <1>2, <1>3

\* A frame is appended to what its goroutine finds.
LEMMA AppendsKeeps == ASSUME CrossInv, NEW g \in Goroutines, Appends(g) PROVE CrossInv'
  <1>0. TypeOK /\ Stopping /\ Reading /\ Alone
    BY DEF CrossInv
  <1>1. /\ pc[g].do = "append" /\ Goes(g, Do("flush", pc[g].of))
        /\ UNCHANGED <<state, up, timers, tls, depth, broken, part, overlapped, out, opens>>
    BY DEF Appends
  <1>2. pc[g].of \in Tokens /\ (g = "stopper" => pc[g].of = "end")
    BY <1>0, <1>1 DEF Stopping, Reading, Tokens
  <1>3. Allowed(g, Do("flush", pc[g].of))
    BY <1>2 DEF Allowed, Do, Places, Dos, Kinds, Tokens
  <1>4. /\ pc' \in [Goroutines -> Places] /\ Stopping' /\ Reading'
        /\ pc'[g] = Do("flush", pc[g].of) /\ \A h \in Goroutines \ {g} : pc'[h] = pc[h]
    BY <1>0, <1>1, <1>3, WentTo
  <1>5. CASE broken
    <2>1. UNCHANGED <<buffer, filled>>
      BY <1>5 DEF Appends
    <2>2. TypeOK'
      BY <1>0, <1>1, <1>4, <2>1 DEF TypeOK
    <2>3. Alone'
      <3>. SUFFICES ASSUME ~overlapped' PROVE Alone'
        BY DEF Alone
      <3>1. \A h \in Goroutines \ {g} : pc[h].do \notin Inside
        BY <1>0, <1>1, OneInside
      <3>2. \A h \in Goroutines : pc'[h].do \in Inside => h = g
        BY <1>4, <3>1
      <3>3. ~up
        BY <1>0, <1>1, <1>5 DEF Alone
      <3>. QED
        BY <1>1, <1>5, <3>2, <3>3 DEF Alone
    <2>. QED
      BY <1>1, <1>4, <2>2, <2>3, Unwritten
  <1>6. CASE ~broken
    <2>0. Len(buffer) \in Nat /\ filled \in Nat /\ filled <= Len(buffer)
          /\ (filled < Len(buffer) \/ filled = Len(buffer))
      BY <1>0, LenProperties DEF TypeOK
    <2>1. /\ filled' = filled + 1
          /\ buffer' = IF filled < Len(buffer) THEN [buffer EXCEPT ![filled + 1] = pc[g].of]
                                               ELSE Append(buffer, pc[g].of)
      BY <1>6 DEF Appends
    <2>2. /\ buffer' \in Seq(Tokens) /\ Len(buffer') \in Nat /\ Len(buffer') >= Len(buffer)
          /\ filled + 1 <= Len(buffer') /\ buffer'[filled + 1] = pc[g].of
      BY <1>0, <1>2, <2>0, <2>1, MemoryType
    <2>3. filled' \in 0 .. Len(buffer') /\ part' \in [Goroutines -> 0 .. Len(buffer')]
      BY <1>0, <1>1, <2>0, <2>1, <2>2 DEF TypeOK
    <2>4. TypeOK'
      BY <1>0, <1>1, <1>4, <2>2, <2>3 DEF TypeOK
    <2>5. Alone'
      <3>. SUFFICES ASSUME ~overlapped' PROVE Alone'
        BY DEF Alone
      <3>1. \A h \in Goroutines \ {g} : pc[h].do \notin Inside
        BY <1>0, <1>1, OneInside
      <3>2. \A h \in Goroutines : pc'[h].do \in Inside => h = g
        BY <1>4, <3>1
      <3>3. filled = 0
        BY <1>0, <1>1, <1>6 DEF Alone
      <3>4. pc'[g].do = "flush" /\ pc'[g].of = pc[g].of
        BY <1>4 DEF Do
      <3>5. filled' = 1 /\ buffer'[1] = pc'[g].of
        BY <2>1, <2>2, <3>3, <3>4
      <3>. QED
        BY <1>1, <1>6, <3>2, <3>4, <3>5 DEF Alone, Own
    <2>. QED
      BY <1>1, <1>4, <2>4, <2>5, Unwritten
  <1>. QED
    BY <1>0, <1>5, <1>6 DEF TypeOK

\* Flush takes what its goroutine has appended, or finds nothing.
LEMMA FlushesKeeps == ASSUME CrossInv, NEW g \in Goroutines, Flushes(g) PROVE CrossInv'
  <1>0. TypeOK /\ Stopping /\ Reading /\ Alone
    BY DEF CrossInv
  <1>1. /\ pc[g].do = "flush"
        /\ UNCHANGED <<state, up, timers, tls, depth, buffer, filled, broken, overlapped, out, opens>>
    BY DEF Flushes
  <1>2. pc[g].of \in Tokens /\ (g = "stopper" => pc[g].of = "end")
    BY <1>0, <1>1 DEF Stopping, Reading, Tokens
  <1>3. PICK to : /\ Goes(g, to) /\ Allowed(g, to)
                  /\ \/ to.do \notin Inside /\ (broken \/ filled = 0) /\ part' = part
                     \/ /\ to = Do("drain", pc[g].of) /\ filled # 0
                        /\ part' = [part EXCEPT ![g] = filled]
    <2>1. Allowed(g, AfterFrame(pc[g].of)) /\ AfterFrame(pc[g].of).do \notin Inside
      BY <1>2, Following DEF Kinds, Tokens
    <2>2. Allowed(g, Do("drain", pc[g].of))
      BY <1>2 DEF Allowed, Do, Places, Dos, Kinds, Tokens
    <2>. QED
      BY <2>1, <2>2 DEF Flushes
  <1>4. /\ pc' \in [Goroutines -> Places] /\ Stopping' /\ Reading'
        /\ pc'[g] = to /\ \A h \in Goroutines \ {g} : pc'[h] = pc[h]
    BY <1>0, <1>3, WentTo
  <1>5. part' \in [Goroutines -> 0 .. Len(buffer)]
    BY <1>0, <1>3 DEF TypeOK
  <1>6. TypeOK'
    BY <1>0, <1>1, <1>4, <1>5 DEF TypeOK
  <1>7. Alone'
    <2>. SUFFICES ASSUME ~overlapped' PROVE Alone'
      BY DEF Alone
    <2>1. \A h \in Goroutines \ {g} : pc[h].do \notin Inside
      BY <1>0, <1>1, OneInside
    <2>2. \A h \in Goroutines : pc'[h].do \in Inside => h = g
      BY <1>4, <2>1
    <2>3. (broken => ~up) /\ (~broken => filled = 0 \/ Own(g))
      BY <1>0, <1>1 DEF Alone
    <2>4. CASE to.do \notin Inside /\ (broken \/ filled = 0)
      BY <1>1, <1>4, <2>2, <2>3, <2>4 DEF Alone
    <2>5. CASE to = Do("drain", pc[g].of) /\ filled # 0 /\ part' = [part EXCEPT ![g] = filled]
      <3>1. pc'[g].do = "drain" /\ pc'[g].of = pc[g].of
        BY <1>4, <2>5 DEF Do
      <3>2. part'[g] = filled
        BY <1>0, <2>5 DEF TypeOK
      <3>. QED
        BY <1>1, <2>2, <2>3, <2>5, <3>1, <3>2 DEF Alone, Own
    <2>. QED
      BY <1>3, <2>4, <2>5
  <1>. QED
    BY <1>1, <1>4, <1>6, <1>7, Unwritten

\* What a flush of a goroutine that is alone writes is its own frame.
LEMMA DrainsOwn ==
    ASSUME CrossInv, NEW g \in Goroutines, pc[g].do = "drain", up
    PROVE  /\ SubSeq(buffer, 1, part[g]) \in Seq(Tokens)
           /\ ~overlapped => SubSeq(buffer, 1, part[g]) = <<pc[g].of>>
  <1>1. /\ buffer \in Seq(Tokens) /\ Len(buffer) \in Nat
        /\ part[g] \in 0 .. Len(buffer) /\ filled \in 0 .. Len(buffer)
    BY LenProperties DEF CrossInv, TypeOK
  <1>2. /\ SubSeq(buffer, 1, part[g]) \in Seq(Tokens)
        /\ Len(SubSeq(buffer, 1, part[g])) = part[g]
        /\ \A i \in 1 .. part[g] : SubSeq(buffer, 1, part[g])[i] = buffer[i]
    BY <1>1, SubSeqProperties
  <1>3. ASSUME ~overlapped
        PROVE  SubSeq(buffer, 1, part[g]) = <<pc[g].of>>
    <2>1. part[g] = 1 /\ buffer[1] = pc[g].of
      BY <1>3 DEF CrossInv, Alone, Own
    <2>. DEFINE s == SubSeq(buffer, 1, part[g])
    <2>2. s \in Seq(Tokens) /\ Len(s) = 1 /\ s[1] = pc[g].of
      BY <1>2, <2>1
    <2>. HIDE DEF s
    <2>3. s = <<s[1]>>
      BY <2>2
    <2>. QED
      BY <2>2, <2>3 DEF s
  <1>. QED
    BY <1>2, <1>3

\* What it writes crosses <proceed/> only if it is Stop's, or not alone.
LEMMA DrainsKeeps == ASSUME CrossInv, NEW g \in Goroutines, Drains(g) PROVE CrossInv'
  <1>0. TypeOK /\ Stopping /\ Reading /\ Alone /\ Upgrading /\ OnlyEndsCross
    BY DEF CrossInv
  <1>. DEFINE ks == IF up THEN SubSeq(buffer, 1, part[g]) ELSE <<>>
              to == IF up THEN Do("compare", pc[g].of) ELSE AfterFrame(pc[g].of)
  <1>1. /\ pc[g].do = "drain" /\ Written(ks) /\ Goes(g, to) /\ broken' = (broken \/ ~up)
        /\ UNCHANGED <<state, up, timers, tls, depth, buffer, filled, part, overlapped, opens>>
    BY DEF Drains, Written
  <1>2. pc[g].of \in Tokens /\ (g = "stopper" => pc[g].of = "end")
    BY <1>0, <1>1 DEF Stopping, Reading, Tokens
  <1>3. /\ ks \in Seq(Tokens)
        /\ up /\ ~overlapped => ks = <<pc[g].of>>
        /\ ~up => \A i \in DOMAIN ks : FALSE
    BY <1>1, DrainsOwn
  <1>4. Allowed(g, to) /\ (~up => to.do \notin Inside)
    <2>1. Allowed(g, AfterFrame(pc[g].of)) /\ AfterFrame(pc[g].of).do \notin Inside
      BY <1>2, Following DEF Kinds, Tokens
    <2>2. Allowed(g, Do("compare", pc[g].of))
      BY <1>2 DEF Allowed, Do, Places, Dos, Kinds, Tokens
    <2>. QED
      BY <2>1, <2>2
  <1>5. /\ pc' \in [Goroutines -> Places] /\ Stopping' /\ Reading'
        /\ pc'[g] = to /\ \A h \in Goroutines \ {g} : pc'[h] = pc[h]
    BY <1>0, <1>1, <1>4, WentTo
  <1>6. /\ ks \in Seq(Kinds) /\ \A i \in DOMAIN ks : ks[i] \in Tokens
    BY <1>3, SeqMonotonic, ElementOfSeq, LenProperties DEF Kinds, Tokens
  <1>. HIDE DEF ks
  <1>7. ASSUME Proceeded, ~tls, NEW i \in DOMAIN ks
        PROVE  ks[i] = "end" \/ (overlapped /\ ks[i] = "header")
    <2>1. pc["reader"].do = "upgrade"
      BY <1>0, <1>7 DEF Upgrading
    <2>2. pc[g].of = "end"
      BY <1>1, <1>2, <2>1
    <2>3. CASE overlapped
      BY <1>6, <1>7, <2>3 DEF Tokens
    <2>4. CASE ~overlapped
      <3>1. ks = <<"end">>
        BY <1>3, <1>7, <2>2, <2>4
      <3>2. \A j \in DOMAIN <<"end">> : <<"end">>[j] = "end"
        OBVIOUS
      <3>. QED
        BY <1>7, <3>1, <3>2, Zenon
    <2>. QED
      BY <2>3, <2>4
  <1>. HIDE DEF to
  <1>8. out' \in Seq(Frames) /\ OnlyEndsCross' /\ (Proceeded' => Proceeded)
    BY <1>0, <1>1, <1>6, <1>7, Wrote DEF Tokens
  <1>9. TypeOK'
    BY <1>0, <1>1, <1>5, <1>8 DEF TypeOK
  <1>10. Upgrading'
    BY <1>0, <1>1, <1>5, <1>8 DEF Upgrading
  <1>11. Alone'
    <2>. SUFFICES ASSUME ~overlapped' PROVE Alone'
      BY DEF Alone
    <2>1. \A h \in Goroutines \ {g} : pc[h].do \notin Inside
      BY <1>0, <1>1, OneInside
    <2>2. \A h \in Goroutines : pc'[h].do \in Inside => h = g
      BY <1>5, <2>1
    <2>3. (broken' => ~up') /\ (~broken' => up /\ Own(g) /\ part[g] = 1)
      BY <1>0, <1>1 DEF Alone
    <2>4. up => pc'[g].do = "compare" /\ pc'[g].of = pc[g].of
      BY <1>5 DEF to, Do
    <2>. QED
      BY <1>1, <2>2, <2>3, <2>4 DEF Alone, Own
  <1>. QED
    BY <1>5, <1>8, <1>9, <1>10, <1>11 DEF CrossInv

\* Alone, a flush has written all there is, and leaves nothing.
LEMMA EmptiesKeeps ==
    ASSUME CrossInv, NEW g \in Goroutines, Compares(g) \/ Empties(g) PROVE CrossInv'
  <1>0. TypeOK /\ Stopping /\ Reading /\ Alone
    BY DEF CrossInv
  <1>1. /\ pc[g].do \in {"compare", "empty"}
        /\ UNCHANGED <<state, up, timers, tls, depth, part, overlapped, out, opens>>
    BY DEF Compares, Empties
  <1>2. pc[g].of \in Tokens /\ (g = "stopper" => pc[g].of = "end")
    BY <1>0, <1>1 DEF Stopping, Reading, Tokens
  <1>3. Len(buffer) \in Nat /\ filled \in 0 .. Len(buffer) /\ part[g] \in 0 .. Len(buffer)
        /\ buffer \in [1 .. Len(buffer) -> Tokens] /\ DOMAIN buffer = 1 .. Len(buffer)
    BY <1>0, LenProperties DEF TypeOK
  <1>. DEFINE moved == [i \in DOMAIN buffer |->
                          IF i <= filled - part[g] THEN buffer[i + part[g]] ELSE buffer[i]]
  <1>4. PICK to : /\ Goes(g, to) /\ Allowed(g, to)
                  /\ \/ /\ part[g] < filled /\ pc[g].do = "compare" /\ to.do \notin Inside
                        /\ broken' = TRUE /\ filled' = filled - part[g] /\ buffer' = moved
                     \/ /\ part[g] >= filled /\ to = Do("empty", pc[g].of)
                        /\ UNCHANGED <<buffer, filled, broken>>
                     \/ /\ pc[g].do = "empty" /\ to.do \notin Inside /\ filled' = 0
                        /\ UNCHANGED <<buffer, broken>>
    <2>1. Allowed(g, AfterFrame(pc[g].of)) /\ AfterFrame(pc[g].of).do \notin Inside
      BY <1>2, Following DEF Kinds, Tokens
    <2>2. Allowed(g, Do("empty", pc[g].of))
      BY <1>2 DEF Allowed, Do, Places, Dos, Kinds, Tokens
    <2>3. CASE Compares(g)
      BY <1>3, <2>1, <2>2, <2>3 DEF Compares
    <2>4. CASE Empties(g)
      BY <2>1, <2>4 DEF Empties
    <2>. QED
      BY <2>3, <2>4
  <1>5. /\ pc' \in [Goroutines -> Places] /\ Stopping' /\ Reading'
        /\ pc'[g] = to /\ \A h \in Goroutines \ {g} : pc'[h] = pc[h]
    BY <1>0, <1>4, WentTo
  <1>6. part[g] < filled => moved \in Seq(Tokens) /\ Len(moved) = Len(buffer)
    <2>. SUFFICES ASSUME part[g] < filled
                  PROVE  moved \in Seq(Tokens) /\ Len(moved) = Len(buffer)
      OBVIOUS
    <2>1. moved \in [1 .. Len(buffer) -> Tokens]
      BY <1>3
    <2>. HIDE DEF moved
    <2>. QED
      BY <1>3, <2>1, SeqDef
  <1>. HIDE DEF moved
  <1>7. buffer' \in Seq(Tokens) /\ Len(buffer') = Len(buffer) /\ broken' \in BOOLEAN
        /\ filled' \in 0 .. Len(buffer')
    <2>1. CASE part[g] < filled /\ broken' = TRUE /\ filled' = filled - part[g] /\ buffer' = moved
      BY <1>3, <1>6, <2>1
    <2>2. CASE UNCHANGED buffer /\ UNCHANGED broken /\ (filled' = filled \/ filled' = 0)
      BY <1>0, <1>3, <2>2 DEF TypeOK
    <2>. QED
      BY <1>4, <2>1, <2>2
  <1>8. TypeOK'
    BY <1>0, <1>1, <1>5, <1>7 DEF TypeOK
  <1>9. Alone'
    <2>. SUFFICES ASSUME ~overlapped' PROVE Alone'
      BY DEF Alone
    <2>1. \A h \in Goroutines \ {g} : pc[h].do \notin Inside
      BY <1>0, <1>1, OneInside
    <2>2. \A h \in Goroutines : pc'[h].do \in Inside => h = g
      BY <1>5, <2>1
    <2>3. (broken => ~up) /\ (~broken => Own(g) /\ part[g] = 1)
      BY <1>0, <1>1 DEF Alone
    <2>4. broken' => ~up
      <3>1. CASE part[g] < filled
        BY <2>3, <3>1 DEF Own
      <3>2. CASE UNCHANGED broken
        BY <2>3, <3>2
      <3>. QED
        BY <1>4, <3>1, <3>2
    <2>5. CASE to.do \notin Inside
      <3>1. ~broken' => filled' = 0
        BY <1>4, <2>5 DEF Do
      <3>. QED
        BY <1>1, <1>5, <2>2, <2>4, <2>5, <3>1 DEF Alone
    <2>6. CASE to = Do("empty", pc[g].of) /\ UNCHANGED <<buffer, filled, broken>>
      <3>1. pc'[g].do = "empty" /\ pc'[g].of = pc[g].of
        BY <1>5, <2>6 DEF Do
      <3>. QED
        BY <1>1, <2>2, <2>3, <2>6, <3>1 DEF Alone, Own
    <2>. QED
      BY <1>4, <2>5, <2>6
  <1>10. pc["reader"].do = "upgrade" => pc'["reader"] = pc["reader"]
    BY <1>1, <1>5
  <1>. QED
    BY <1>1, <1>5, <1>8, <1>9, <1>10, Unwritten

\* Every step of the channel keeps the invariant.
LEMMA CrossStep == CrossInv /\ [Next]_vars => CrossInv'
  <1>. SUFFICES ASSUME CrossInv, [Next]_vars
                PROVE  CrossInv'
    OBVIOUS
  <1>0. TypeOK /\ Stopping /\ Reading /\ Alone /\ Upgrading /\ OnlyEndsCross
    BY DEF CrossInv
  <1>1. CASE CallsOpen
    <2>1. Goes("reader", Do("check", "procinst")) /\ Allowed("reader", Do("check", "procinst"))
      BY <1>1 DEF CallsOpen, Allowed, Do, Places, Dos, Kinds
    <2>2. pc["reader"].do = "idle" /\ UNCHANGED <<up, timers, tls, depth, encoder, out>>
      BY <1>1 DEF CallsOpen, Idle, Do
    <2>3. pc' \in [Goroutines -> Places] /\ Stopping' /\ Reading'
          /\ pc'["reader"].do = "check" /\ \A h \in Goroutines \ {"reader"} : pc'[h] = pc[h]
      BY <1>0, <2>1, WentTo DEF Do
    <2>4. TypeOK'
      BY <1>0, <1>1, <2>3 DEF CallsOpen, TypeOK, encoder
    <2>. QED
      BY <2>2, <2>3, <2>4, Quiet
  <1>2. CASE CallsSendElement
    <2>1. PICK k \in {"element", "proceed"} : Goes("reader", Do("check", k))
      BY <1>2 DEF CallsSendElement
    <2>2. Allowed("reader", Do("check", k))
      BY DEF Allowed, Do, Places, Dos, Kinds
    <2>3. pc["reader"].do = "idle" /\ UNCHANGED <<state, up, timers, tls, depth, encoder, out, opens>>
      BY <1>2 DEF CallsSendElement, Idle, Do
    <2>4. pc' \in [Goroutines -> Places] /\ Stopping' /\ Reading'
          /\ pc'["reader"].do = "check" /\ \A h \in Goroutines \ {"reader"} : pc'[h] = pc[h]
      BY <1>0, <2>1, <2>2, WentTo DEF Do
    <2>5. TypeOK'
      BY <1>0, <2>3, <2>4 DEF TypeOK, encoder
    <2>. QED
      BY <2>3, <2>4, <2>5, Quiet
  <1>3. CASE Upgrades
    <2>1. Goes("reader", Idle) /\ Allowed("reader", Idle) /\ pc["reader"].do = "upgrade"
      BY <1>3 DEF Upgrades, Allowed, Idle, Do, Places, Dos
    <2>2. tls' = TRUE /\ UNCHANGED <<state, up, timers, depth, encoder, out, opens>>
      BY <1>3 DEF Upgrades
    <2>3. pc' \in [Goroutines -> Places] /\ Stopping' /\ Reading'
          /\ pc'["reader"].do = "idle" /\ \A h \in Goroutines \ {"reader"} : pc'[h] = pc[h]
      BY <1>0, <2>1, WentTo DEF Idle, Do
    <2>4. TypeOK' /\ Upgrading' /\ OnlyEndsCross'
      BY <1>0, <2>2, <2>3 DEF TypeOK, Upgrading, OnlyEndsCross, encoder
    <2>5. Alone'
      BY <1>0, <2>1, <2>2, <2>3, AloneKept
    <2>. QED
      BY <2>3, <2>4, <2>5 DEF CrossInv
  <1>4. CASE Fires \/ UNCHANGED vars
    <2>1. UNCHANGED <<tls, encoder, out, pc>> /\ (up' => up)
      <3>1. CASE Fires
        BY <3>1 DEF Fires
      <3>2. CASE UNCHANGED vars
        BY <3>2 DEF vars
      <3>. QED
        BY <1>4, <3>1, <3>2
    <2>2. TypeOK'
      <3>1. CASE Fires
        <4>1. timers \in Nat
          BY <1>0 DEF TypeOK
        <4>2. timers' \in Nat
          BY <3>1, <4>1 DEF Fires
        <4>. QED
          BY <1>0, <3>1, <4>2 DEF Fires, TypeOK, encoder
      <3>2. CASE UNCHANGED vars
        BY <1>0, <3>2 DEF vars, TypeOK, encoder
      <3>. QED
        BY <1>4, <3>1, <3>2
    <2>3. Stopping' /\ Reading'
      BY <1>0, <2>1 DEF Stopping, Reading
    <2>. QED
      BY <2>1, <2>2, <2>3, Quiet
  <1>5. ASSUME NEW g \in Goroutines, CallsClose(g) \/ SetsClosed(g) \/ StartsTimer(g)
        PROVE  CrossInv'
    <2>1. Allowed(g, Do("check", "end")) /\ Allowed(g, Do("start timer", "-")) /\ Allowed(g, Over)
      BY DEF Allowed, Do, Over, Places, Dos, Kinds
    <2>2. PICK to : Goes(g, to) /\ Allowed(g, to) /\ to.do \notin Inside
      <3>1. /\ Do("check", "end").do \notin Inside /\ Do("start timer", "-").do \notin Inside
            /\ Over.do \notin Inside
        BY DEF Do, Over
      <3>2. CASE CallsClose(g)
        <4>1. Goes(g, IF state = "opened" THEN Do("check", "end") ELSE Over)
          BY <3>2, Zenon DEF CallsClose
        <4>. QED
          BY <2>1, <3>1, <4>1
      <3>3. CASE SetsClosed(g) \/ StartsTimer(g)
        BY <2>1, <3>1, <3>3 DEF SetsClosed, StartsTimer
      <3>. QED
        BY <1>5, <3>2, <3>3
    <2>3. pc' \in [Goroutines -> Places] /\ Stopping' /\ Reading'
          /\ pc'[g] = to /\ \A h \in Goroutines \ {g} : pc'[h] = pc[h]
      BY <1>0, <2>1, <2>2, WentTo
    <2>4. TypeOK' /\ UNCHANGED <<tls, encoder, out>> /\ (up' => up)
      <3>1. CASE CallsClose(g)
        <4>1. up' = (up /\ state # "init") /\ UNCHANGED <<state, timers, tls, depth, encoder, out, opens>>
          BY <3>1, Zenon DEF CallsClose
        <4>2. up' \in BOOLEAN /\ (up' => up)
          BY <4>1, Zenon
        <4>. QED
          BY <1>0, <2>3, <4>1, <4>2 DEF TypeOK, encoder
      <3>2. CASE SetsClosed(g)
        BY <1>0, <2>3, <3>2 DEF TypeOK, SetsClosed, encoder
      <3>3. CASE StartsTimer(g)
        <4>1. timers \in Nat
          BY <1>0 DEF TypeOK
        <4>2. timers' = timers + 1
          BY <3>3, Zenon DEF StartsTimer
        <4>3. timers' \in Nat
          BY <4>1, <4>2
        <4>. QED
          BY <1>0, <2>3, <3>3, <4>3 DEF TypeOK, StartsTimer, encoder
      <3>. QED
        BY <1>5, <3>1, <3>2, <3>3
    <2>5. pc[g].do \notin Inside \cup {"upgrade"}
      <3>1. CASE CallsClose(g)
        <4>1. pc[g] = Idle
          BY <3>1, Zenon DEF CallsClose
        <4>2. Idle.do = "idle"
          BY DEF Idle, Do
        <4>. QED
          BY <4>1, <4>2
      <3>. QED
        BY <1>5, <3>1 DEF SetsClosed, StartsTimer
    <2>6. \A h \in Goroutines :
              pc'[h] = pc[h] \/ (pc[h].do \notin Inside \cup {"upgrade"} /\ pc'[h].do \notin Inside)
      BY <2>2, <2>3, <2>5
    <2>. QED
      BY <2>3, <2>4, <2>6, Quiet
  <1>6. ASSUME NEW g \in Goroutines, Checks(g)
        PROVE  CrossInv'
    <2>1. /\ pc[g].do = "check" /\ pc[g].of \in Kinds \cup {"-"}
          /\ g = "stopper" => pc[g].of = "end"
      BY <1>0, <1>6 DEF Checks, TypeOK, Places, Stopping
    <2>2. PICK to : Goes(g, to) /\ Allowed(g, to) /\ to.do \notin Inside
      <3>1. Allowed(g, AfterFrame(pc[g].of)) /\ AfterFrame(pc[g].of).do \notin Inside
        BY <2>1, Following
      <3>2. Allowed(g, Do("write", pc[g].of)) /\ Do("write", pc[g].of).do \notin Inside
        BY <2>1 DEF Allowed, Do, Places, Dos
      <3>. QED
        BY <1>6, <3>1, <3>2 DEF Checks
    <2>3. pc' \in [Goroutines -> Places] /\ Stopping' /\ Reading'
          /\ pc'[g] = to /\ \A h \in Goroutines \ {g} : pc'[h] = pc[h]
      BY <1>0, <2>2, WentTo
    <2>4. TypeOK' /\ UNCHANGED <<up, tls, encoder, out>>
      BY <1>0, <1>6, <2>3 DEF TypeOK, Checks, encoder
    <2>5. \A h \in Goroutines :
              pc'[h] = pc[h] \/ (pc[h].do \notin Inside \cup {"upgrade"} /\ pc'[h].do \notin Inside)
      BY <2>1, <2>2, <2>3
    <2>. QED
      BY <2>3, <2>4, <2>5, Quiet
  <1>7. ASSUME NEW g \in Goroutines, Writes(g)
        PROVE  CrossInv'
    <2>. DEFINE k == pc[g].of
    <2>1. /\ pc[g].do = "write" /\ k \in {"procinst", "element", "proceed"} /\ Written(<<k>>)
          /\ Goes(g, AfterFrame(k)) /\ UNCHANGED <<state, up, timers, tls, depth, encoder, opens>>
      BY <1>7 DEF Writes
    <2>2. g = "reader" /\ ~(Proceeded /\ ~tls)
      BY <1>0, <2>1 DEF Stopping, Upgrading
    <2>. HIDE DEF k
    <2>3. <<k>> \in Seq(Kinds) /\ Len(<<k>>) = 1 /\ \A i \in DOMAIN <<k>> : <<k>>[i] = k
      BY <2>1 DEF Kinds
    <2>4. out' \in Seq(Frames) /\ OnlyEndsCross' /\ (Proceeded' => Proceeded \/ k = "proceed")
      BY <1>0, <2>1, <2>2, <2>3, Wrote DEF encoder
    <2>5. Allowed(g, AfterFrame(k)) /\ (k = "proceed" => AfterFrame(k).do = "upgrade")
          /\ AfterFrame(k).do \notin Inside
      BY <2>1, <2>2, Following DEF Kinds, AfterFrame, Do
    <2>6. pc' \in [Goroutines -> Places] /\ Stopping' /\ Reading' /\ pc'[g] = AfterFrame(k)
          /\ \A h \in Goroutines \ {g} : pc'[h] = pc[h]
      BY <1>0, <2>1, <2>5, WentTo
    <2>7. TypeOK'
      BY <1>0, <2>1, <2>4, <2>6 DEF TypeOK, encoder
    <2>8. Upgrading'
      BY <2>1, <2>2, <2>4, <2>5, <2>6 DEF Upgrading
    <2>9. Alone'
      BY <1>0, <2>1, <2>5, <2>6, AloneKept
    <2>. QED
      BY <2>4, <2>6, <2>7, <2>8, <2>9 DEF CrossInv
  <1>. QED
    BY <1>1, <1>2, <1>3, <1>4, <1>5, <1>6, <1>7, EncodesKeeps, AppendsKeeps, FlushesKeeps,
       DrainsKeeps, EmptiesKeeps DEF Next, GoesOn

\* Once <proceed/> was written nothing crosses it in the clear but the closing
\* tag of a Stop, and a header that its flush has found there when it came into
\* the encoder beside the reader (channel.go:244-245, tls_feature.go:61-63).
THEOREM NothingElseCrosses == Spec => []OnlyEndsCross
  <1>1. CrossInv => OnlyEndsCross
    BY DEF CrossInv
  <1>. QED
    BY <1>1, CrossInit, CrossStep, PTL DEF Spec

-----------------------------------------------------------------------------
(* Counting tags *)

\* How often k is among the first n of a sequence.
Among(s, k, n) == Cardinality({i \in 1 .. n : s[i] = k})

\* The headers less the closing tags.
Surplus(s, n) == Among(s, "header", n) - Among(s, "end", n)

\* How many frames of a kind are among the first n is a number.
LEMMA AmongNat ==
    ASSUME NEW s, NEW k, NEW n \in Nat
    PROVE  IsFiniteSet({i \in 1 .. n : s[i] = k}) /\ Among(s, k, n) \in Nat
  <1>1. IsFiniteSet(1 .. n)
    BY FS_Interval
  <1>2. {i \in 1 .. n : s[i] = k} \in SUBSET (1 .. n)
    OBVIOUS
  <1>3. IsFiniteSet({i \in 1 .. n : s[i] = k})
    BY <1>1, <1>2, FS_Subset
  <1>. QED
    BY <1>3, FS_CardinalityType DEF Among

\* The front of a concatenation is that of its first part, and what follows is
\* the second part, moved.
LEMMA AmongConcat ==
    ASSUME NEW S, NEW s \in Seq(S), NEW t \in Seq(S), NEW k
    PROVE  \A n \in Nat :
               /\ n <= Len(s) => Among(s \o t, k, n) = Among(s, k, n)
               /\ n <= Len(t) =>
                      Among(s \o t, k, Len(s) + n) = Among(s, k, Len(s)) + Among(t, k, n)
  <1>. DEFINE st == s \o t
              l  == Len(s)
  <1>1. /\ l \in Nat /\ Len(t) \in Nat
        /\ \A i \in 1 .. l : st[i] = s[i]
        /\ \A i \in 1 .. Len(t) : st[l + i] = t[i]
    BY ConcatProperties, LenProperties
  <1>. HIDE DEF st, l
  <1>2. ASSUME NEW n \in 0 .. l
        PROVE  Among(st, k, n) = Among(s, k, n)
    <2>1. {i \in 1 .. n : st[i] = k} = {i \in 1 .. n : s[i] = k}
      BY <1>1
    <2>. QED
      BY <2>1 DEF Among
  <1>3. ASSUME NEW n \in 0 .. Len(t)
        PROVE  Among(st, k, l + n) = Among(s, k, l) + Among(t, k, n)
    <2>. DEFINE A == {i \in 1 .. l : s[i] = k}
                B == {i \in 1 .. n : t[i] = k}
                C == {i \in (l + 1) .. (l + n) : st[i] = k}
                f == [i \in B |-> l + i]
    <2>0. n \in Nat
      BY <1>1
    <2>1. IsFiniteSet(A) /\ IsFiniteSet(B)
      BY <1>1, <2>0, AmongNat
    <2>2. f \in [B -> C]
      BY <1>1, <2>0
    <2>3. \A a, b \in B : f[a] = f[b] => a = b
      BY <1>1, <2>0
    <2>4. ASSUME NEW c \in C
          PROVE  \E b \in B : f[b] = c
      <3>1. c - l \in 1 .. n /\ l + (c - l) = c
        BY <1>1, <2>0
      <3>2. c - l \in B
        BY <1>1, <3>1
      <3>. QED
        BY <3>1, <3>2
    <2>5. IsFiniteSet(C) /\ Cardinality(C) = Cardinality(B)
      <3>1. f \in Bijection(B, C)
        BY <2>2, <2>3, <2>4, Fun_IsBij
      <3>. QED
        BY <2>1, <3>1, FS_Bijection DEF ExistsBijection
    <2>6. {i \in 1 .. (l + n) : st[i] = k} = A \cup C /\ A \cap C = {}
      BY <1>1, <2>0
    <2>7. Cardinality(A \cup C) = Cardinality(A) + Cardinality(C)
      <3>1. Cardinality(A \cup C) = Cardinality(A) + Cardinality(C) - Cardinality(A \cap C)
        BY <2>1, <2>5, FS_Union
      <3>2. Cardinality(A \cap C) = 0
        BY <2>6, FS_EmptySet
      <3>3. Cardinality(A) \in Nat /\ Cardinality(C) \in Nat
        BY <2>1, <2>5, FS_CardinalityType
      <3>. HIDE DEF A, C
      <3>. QED
        BY <3>1, <3>2, <3>3
    <2>. QED
      BY <2>5, <2>6, <2>7 DEF Among
  <1>. QED
    BY <1>1, <1>2, <1>3 DEF st, l

-----------------------------------------------------------------------------
(* What the peer reads is balanced *)

\* The kinds of what is on the wire.
wire == [i \in DOMAIN out |-> out[i].kind]

\* What the frame of a goroutine in the encoder is still to add to the wire.
Weight(g) ==
    IF pc[g].do \in {"append", "drain"} \/ (pc[g].do = "flush" /\ filled = 1)
    THEN IF pc[g].of = "header" THEN 1 ELSE -1
    ELSE 0

\* The tokens on the wire, and while the connection is up the encoder's depth:
\* what is open on the wire and with what is still to be written.
Balanced ==
    ~overlapped =>
        /\ \A n \in 0 .. Len(wire) : Surplus(wire, n) >= 0
        /\ up => depth = Surplus(wire, Len(wire)) + Weight("reader") + Weight("stopper")

BalanceInv == CrossInv /\ Balanced

\* What is on the wire are kinds of frames, one for each write.
LEMMA WireType == TypeOK => wire \in Seq(Kinds) /\ Len(wire) = Len(out)
  <1>. SUFFICES ASSUME TypeOK PROVE wire \in Seq(Kinds) /\ Len(wire) = Len(out)
    OBVIOUS
  <1>1. DOMAIN out = 1 .. Len(out) /\ Len(out) \in Nat /\ \A i \in 1 .. Len(out) : out[i] \in Frames
    BY LenProperties, ElementOfSeq DEF TypeOK
  <1>2. wire \in [1 .. Len(out) -> Kinds]
    BY <1>1 DEF wire, Frames
  <1>. QED
    BY <1>1, <1>2, SeqDef

\* A write adds its kinds to the wire.
LEMMA WireGrows ==
    ASSUME TypeOK, NEW ks \in Seq(Kinds), Written(ks)
    PROVE  /\ up => wire' = wire \o ks
           /\ ~up => wire' = wire
  <1>1. ASSUME up
        PROVE  wire' = wire \o ks
    <2>. DEFINE ls == Layered(ks)
    <2>1. /\ ls \in Seq(Frames) /\ Len(ls) = Len(ks)
          /\ \A i \in DOMAIN ks : ls[i].kind = ks[i]
      BY Layers DEF TypeOK, Layered
    <2>2. out' = out \o ls /\ out \in Seq(Frames)
      BY <1>1 DEF Written, TypeOK
    <2>. HIDE DEF ls
    <2>3. wire \in Seq(Kinds) /\ Len(wire) = Len(out) /\ DOMAIN wire = DOMAIN out
      BY WireType DEF wire
    <2>4. /\ DOMAIN out' = 1 .. (Len(out) + Len(ls)) /\ DOMAIN ls = 1 .. Len(ls)
          /\ \A i \in DOMAIN out : out'[i] = out[i]
          /\ \A i \in DOMAIN out' : i \notin DOMAIN out =>
                 i - Len(out) \in DOMAIN ls /\ out'[i] = ls[i - Len(out)]
      <3>1. DOMAIN (out \o ls) = 1 .. (Len(out) + Len(ls))
        <4>1. ls \in Seq(Frames) /\ out \in Seq(Frames)
          BY <2>1, <2>2
        <4>. QED
          BY <4>1, AppendIn
      <3>2. \A i \in DOMAIN out : (out \o ls)[i] = out[i]
        BY <2>1, <2>2, AppendIn
      <3>3. \A i \in DOMAIN (out \o ls) : i \notin DOMAIN out =>
                 i - Len(out) \in DOMAIN ls /\ (out \o ls)[i] = ls[i - Len(out)]
        BY <2>1, <2>2, AppendIn
      <3>4. DOMAIN ls = 1 .. Len(ls)
        BY <2>1, LenProperties
      <3>. QED
        BY <2>2, <3>1, <3>2, <3>3, <3>4
    <2>5. /\ DOMAIN (wire \o ks) = 1 .. (Len(wire) + Len(ks)) /\ DOMAIN ks = 1 .. Len(ks)
          /\ \A i \in DOMAIN wire : (wire \o ks)[i] = wire[i]
          /\ \A i \in DOMAIN (wire \o ks) : i \notin DOMAIN wire =>
                 i - Len(wire) \in DOMAIN ks /\ (wire \o ks)[i] = ks[i - Len(wire)]
      BY <2>3, AppendIn
    <2>6. DOMAIN out' = 1 .. (Len(out) + Len(ks)) /\ DOMAIN (wire \o ks) = 1 .. (Len(out) + Len(ks))
          /\ DOMAIN ls = DOMAIN ks
      BY <2>1, <2>3, <2>4, <2>5
    <2>7. ASSUME NEW i \in 1 .. (Len(out) + Len(ks))
          PROVE  out'[i].kind = (wire \o ks)[i]
      <3>1. CASE i \in DOMAIN out
        BY <2>3, <2>4, <2>5, <3>1 DEF wire
      <3>2. CASE i \notin DOMAIN out
        <4>1. i - Len(out) \in DOMAIN ks /\ out'[i] = ls[i - Len(out)]
          BY <2>4, <2>6, <3>2
        <4>2. (wire \o ks)[i] = ks[i - Len(out)]
          BY <2>3, <2>5, <2>6, <3>2
        <4>. QED
          BY <2>1, <4>1, <4>2
      <3>. QED
        BY <3>1, <3>2
    <2>8. wire' = [i \in 1 .. (Len(out) + Len(ks)) |-> out'[i].kind]
      BY <2>6 DEF wire
    <2>9. wire \o ks = [i \in 1 .. (Len(out) + Len(ks)) |-> (wire \o ks)[i]]
      <3>1. wire \o ks \in Seq(Kinds)
        BY <2>3, AppendIn
      <3>. DEFINE w == wire \o ks
      <3>. HIDE DEF w
      <3>2. w \in [1 .. Len(w) -> Kinds]
        BY <3>1, LenProperties DEF w
      <3>3. w = [i \in DOMAIN w |-> w[i]]
        BY <3>2
      <3>. QED
        BY <2>6, <3>3 DEF w
    <2>. QED
      BY <2>7, <2>8, <2>9
  <1>. QED
    BY <1>1 DEF Written, wire

\* The surplus of a sequence is that of its two parts.
LEMMA SurplusConcat ==
    ASSUME NEW s \in Seq(Kinds), NEW t \in Seq(Kinds)
    PROVE  /\ \A n \in 0 .. Len(s) : Surplus(s \o t, n) = Surplus(s, n)
           /\ \A n \in 0 .. Len(t) :
                  Surplus(s \o t, Len(s) + n) = Surplus(s, Len(s)) + Surplus(t, n)
           /\ Len(s \o t) = Len(s) + Len(t) /\ Len(s) \in Nat /\ Len(t) \in Nat
           /\ \A n \in Nat : Surplus(s, n) \in Int /\ Surplus(t, n) \in Int
  <1>1. Len(s \o t) = Len(s) + Len(t) /\ Len(s) \in Nat /\ Len(t) \in Nat
    BY ConcatProperties, LenProperties
  <1>2. \A n \in Nat : Surplus(s, n) \in Int /\ Surplus(t, n) \in Int
    <2>1. ASSUME NEW q, NEW n \in Nat
          PROVE  Surplus(q, n) \in Int
      <3>1. Among(q, "header", n) \in Nat /\ Among(q, "end", n) \in Nat
        BY AmongNat
      <3>. QED
        BY <3>1 DEF Surplus
    <2>. QED
      BY <2>1
  <1>3. ASSUME NEW n \in 0 .. Len(s)
        PROVE  Surplus(s \o t, n) = Surplus(s, n)
    <2>1. n \in Nat /\ n <= Len(s)
      BY <1>1
    <2>2. Among(s \o t, "header", n) = Among(s, "header", n)
      BY <2>1, AmongConcat
    <2>3. Among(s \o t, "end", n) = Among(s, "end", n)
      BY <2>1, AmongConcat
    <2>. QED
      BY <2>2, <2>3 DEF Surplus
  <1>4. ASSUME NEW n \in 0 .. Len(t)
        PROVE  Surplus(s \o t, Len(s) + n) = Surplus(s, Len(s)) + Surplus(t, n)
    <2>2. n \in Nat /\ n <= Len(t)
      BY <1>1
    <2>0. Among(s \o t, "header", Len(s) + n) = Among(s, "header", Len(s)) + Among(t, "header", n)
      BY <2>2, AmongConcat
    <2>1. Among(s \o t, "end", Len(s) + n) = Among(s, "end", Len(s)) + Among(t, "end", n)
      BY <2>2, AmongConcat
    <2>3. /\ Among(s, "header", Len(s)) \in Nat /\ Among(t, "header", n) \in Nat
          /\ Among(s, "end", Len(s)) \in Nat /\ Among(t, "end", n) \in Nat
      BY <1>1, <2>2, AmongNat
    <2>. QED
      BY <2>0, <2>1, <2>3 DEF Surplus
  <1>. QED
    BY <1>1, <1>2, <1>3, <1>4

\* What one token is worth.
LEMMA SurplusOne ==
    ASSUME NEW k
    PROVE  /\ \A s : Surplus(s, 0) = 0
           /\ Surplus(<<k>>, 1) = IF k = "header" THEN 1 ELSE IF k = "end" THEN -1 ELSE 0
  <1>1. ASSUME NEW s, NEW j
        PROVE  Among(s, j, 0) = 0
    <2>1. {i \in 1 .. 0 : s[i] = j} = {}
      OBVIOUS
    <2>. QED
      BY <2>1, FS_EmptySet DEF Among
  <1>2. ASSUME NEW j
        PROVE  Among(<<k>>, j, 1) = IF k = j THEN 1 ELSE 0
    <2>. DEFINE s == <<k>>
    <2>0. s[1] = k
      OBVIOUS
    <2>. HIDE DEF s
    <2>1. CASE k = j
      <3>1. {i \in 1 .. 1 : s[i] = j} = {1}
        BY <2>0, <2>1
      <3>. QED
        BY <2>1, <3>1, FS_Singleton DEF Among, s
    <2>2. CASE k # j
      <3>1. {i \in 1 .. 1 : s[i] = j} = {}
        BY <2>0, <2>2
      <3>. QED
        BY <2>2, <3>1, FS_EmptySet DEF Among, s
    <2>. QED
      BY <2>1, <2>2
  <1>. QED
    BY <1>1, <1>2 DEF Surplus

\* What one more token changes.
LEMMA SurplusAppend ==
    ASSUME NEW s \in Seq(Kinds), NEW k \in Kinds, NEW d \in Int,
           d = IF k = "header" THEN 1 ELSE IF k = "end" THEN -1 ELSE 0
    PROVE  /\ Len(s \o <<k>>) = Len(s) + 1
           /\ \A n \in 0 .. Len(s) : Surplus(s \o <<k>>, n) = Surplus(s, n)
           /\ Surplus(s \o <<k>>, Len(s) + 1) = Surplus(s, Len(s)) + d
  <1>. DEFINE t == <<k>>
  <1>1. t \in Seq(Kinds) /\ Len(t) = 1
    OBVIOUS
  <1>2. Surplus(t, 1) = d
    BY SurplusOne
  <1>. HIDE DEF t
  <1>3. Len(s \o t) = Len(s) + Len(t) /\ \A n \in 0 .. Len(s) : Surplus(s \o t, n) = Surplus(s, n)
    BY <1>1, SurplusConcat
  <1>4. \A n \in 0 .. Len(t) : Surplus(s \o t, Len(s) + n) = Surplus(s, Len(s)) + Surplus(t, n)
    BY <1>1, SurplusConcat
  <1>5. 1 \in 0 .. Len(t)
    BY <1>1
  <1>6. Surplus(s \o t, Len(s) + 1) = Surplus(s, Len(s)) + Surplus(t, 1)
    BY <1>4, <1>5
  <1>. QED
    BY <1>1, <1>2, <1>3, <1>6 DEF t

\* At first nothing is written, encoded or open.
LEMMA BalanceInit == Init => BalanceInv
  <1>. SUFFICES ASSUME Init PROVE BalanceInv
    OBVIOUS
  <1>1. CrossInv /\ TypeOK
    BY CrossInit DEF CrossInv
  <1>2. Len(wire) = 0 /\ depth = 0 /\ Weight("reader") = 0 /\ Weight("stopper") = 0
    BY <1>1, WireType DEF Init, Weight, Idle, Do
  <1>3. Surplus(wire, 0) = 0
    BY SurplusOne
  <1>4. \A n \in 0 .. 0 : n = 0
    OBVIOUS
  <1>. QED
    BY <1>1, <1>2, <1>3, <1>4 DEF BalanceInv, Balanced

\* What is added to one summand is added to the sum.
LEMMA SumMoves ==
    ASSUME NEW w \in Int, NEW r \in Int, NEW s \in Int, NEW d \in Int, NEW e, NEW f,
           e = w + r + s, f = e + d
    PROVE  f = w + (r + d) + s /\ f = w + r + (s + d)
  OBVIOUS

\* A step of one goroutine that writes nothing moves the depth by as much as
\* the weight of its frame.
LEMMA BalanceKept ==
    ASSUME BalanceInv, UNCHANGED out, up' => up, ~overlapped' => ~overlapped,
           NEW g \in Goroutines, NEW d \in {-1, 0, 1},
           ~overlapped' /\ up' =>
               /\ depth' = depth + d /\ Weight(g)' = Weight(g) + d
               /\ \A h \in Goroutines \ {g} : Weight(h)' = Weight(h)
    PROVE  Balanced'
  <1>1. wire' = wire
    BY DEF wire
  <1>2. /\ Weight("reader") \in {-1, 0, 1} /\ Weight("stopper") \in {-1, 0, 1}
        /\ depth \in Nat
    BY DEF Weight, BalanceInv, CrossInv, TypeOK
  <1>3. Len(wire) \in Nat /\ Surplus(wire, Len(wire)) \in Int
    <2>1. Len(wire) \in Nat
      BY WireType, LenProperties DEF BalanceInv, CrossInv
    <2>2. Among(wire, "header", Len(wire)) \in Nat /\ Among(wire, "end", Len(wire)) \in Nat
      BY <2>1, AmongNat
    <2>. QED
      BY <2>1, <2>2 DEF Surplus
  <1>4. ASSUME ~overlapped', up'
        PROVE  depth' = Surplus(wire, Len(wire)) + Weight("reader")' + Weight("stopper")'
    <2>1. depth = Surplus(wire, Len(wire)) + Weight("reader") + Weight("stopper")
      BY <1>4 DEF BalanceInv, Balanced
    <2>2. CASE g = "reader"
      <3>1. depth' = depth + d /\ Weight("reader")' = Weight("reader") + d
            /\ Weight("stopper")' = Weight("stopper")
        BY <1>4, <2>2
      <3>. QED
        BY <1>2, <1>3, <2>1, <3>1, SumMoves
    <2>3. CASE g = "stopper"
      <3>1. depth' = depth + d /\ Weight("stopper")' = Weight("stopper") + d
            /\ Weight("reader")' = Weight("reader")
        BY <1>4, <2>3
      <3>. QED
        BY <1>2, <1>3, <2>1, <3>1, SumMoves
    <2>. QED
      BY <2>2, <2>3
  <1>. QED
    BY <1>1, <1>4 DEF BalanceInv, Balanced

\* The weight of who is not in the encoder.
LEMMA Weightless == \A g \in Goroutines : pc[g].do \notin Inside => Weight(g) = 0
  BY DEF Weight

\* Tokens are counted when they are encoded, weigh until they are written, and
\* are on the wire then.
LEMMA BalanceStep == BalanceInv /\ [Next]_vars => BalanceInv'
  <1>. SUFFICES ASSUME BalanceInv, [Next]_vars
                PROVE  Balanced'
    BY CrossStep DEF BalanceInv
  <1>0. CrossInv /\ TypeOK /\ Stopping /\ Reading /\ Alone /\ Balanced
    BY DEF BalanceInv, CrossInv
  <1>1. wire \in Seq(Kinds) /\ Len(wire) \in Nat
    BY <1>0, WireType, LenProperties
  <1>2. CrossInv' /\ TypeOK'
    BY <1>0, CrossStep DEF CrossInv
  <1>3. ASSUME UNCHANGED <<out, encoder, depth>>, up' => up, NEW g \in Goroutines,
               pc[g].do \notin Inside, pc'[g].do \notin Inside,
               \A h \in Goroutines \ {g} : pc'[h] = pc[h]
        PROVE  Balanced'
    <2>1. Weight(g)' = 0 /\ Weight(g) = 0 /\ \A h \in Goroutines \ {g} : Weight(h)' = Weight(h)
      BY <1>3 DEF Weight, encoder
    <2>2. depth' = depth + 0 /\ overlapped' = overlapped
      BY <1>0, <1>3 DEF TypeOK, encoder
    <2>. QED
      BY <1>3, <2>1, <2>2, BalanceKept
  <1>4. ASSUME UNCHANGED <<out, encoder, depth, pc>>, up' => up
        PROVE  Balanced'
    <2>1. \A h \in Goroutines : Weight(h)' = Weight(h) /\ Weight(h) \in {-1, 0, 1}
      BY <1>4 DEF Weight, encoder
    <2>2. depth' = depth + 0 /\ overlapped' = overlapped /\ Weight("reader")' = Weight("reader") + 0
      BY <1>0, <1>4, <2>1 DEF TypeOK, encoder
    <2>. QED
      BY <1>4, <2>1, <2>2, BalanceKept
  <1>5. CASE CallsOpen \/ CallsSendElement \/ Upgrades
    <2>1. PICK to : /\ Goes("reader", to) /\ to.do \notin Inside
                    /\ pc["reader"].do \notin Inside /\ UNCHANGED <<up, out, encoder, depth>>
      BY <1>5 DEF CallsOpen, CallsSendElement, Upgrades, Idle, Do
    <2>2. pc'["reader"] = to /\ \A h \in Goroutines \ {"reader"} : pc'[h] = pc[h]
      BY <1>0, <2>1 DEF Goes, TypeOK
    <2>. QED
      BY <1>3, <2>1, <2>2
  <1>6. CASE Fires \/ UNCHANGED vars
    <2>1. UNCHANGED <<out, encoder, depth, pc>> /\ (up' => up)
      <3>1. CASE Fires
        BY <3>1 DEF Fires
      <3>2. CASE UNCHANGED vars
        BY <3>2 DEF vars
      <3>. QED
        BY <1>6, <3>1, <3>2
    <2>. QED
      BY <1>4, <2>1
  <1>7. ASSUME NEW g \in Goroutines,
               CallsClose(g) \/ Checks(g) \/ SetsClosed(g) \/ StartsTimer(g)
        PROVE  Balanced'
    <2>1. UNCHANGED <<out, encoder, depth>> /\ (up' => up)
      <3>1. CASE CallsClose(g)
        <4>1. up' = (up /\ state # "init") /\ UNCHANGED <<out, encoder, depth>>
          BY <3>1, Zenon DEF CallsClose
        <4>2. up' => up
          BY <4>1, Zenon
        <4>. QED
          BY <4>1, <4>2
      <3>2. CASE Checks(g)
        BY <3>2, Zenon DEF Checks
      <3>3. CASE SetsClosed(g)
        BY <3>3, Zenon DEF SetsClosed
      <3>4. CASE StartsTimer(g)
        BY <3>4, Zenon DEF StartsTimer
      <3>. QED
        BY <1>7, <3>1, <3>2, <3>3, <3>4
    <2>2. PICK to : Goes(g, to) /\ to.do \notin Inside
      <3>1. CASE CallsClose(g)
        <4>1. Goes(g, IF state = "opened" THEN Do("check", "end") ELSE Over)
          BY <3>1, Zenon DEF CallsClose
        <4>. QED
          BY <4>1 DEF Do, Over
      <3>2. CASE Checks(g)
        <4>1. Goes(g, IF state = "closed" THEN AfterFrame(pc[g].of) ELSE Do("write", pc[g].of))
          BY <3>2, Zenon DEF Checks
        <4>2. AfterFrame(pc[g].of).do \notin Inside
          BY DEF AfterFrame, Do, Idle, Inside
        <4>3. Do("write", pc[g].of).do \notin Inside
          BY DEF Do, Inside
        <4>. QED
          BY <4>1, <4>2, <4>3
      <3>3. CASE SetsClosed(g)
        <4>1. Goes(g, Do("start timer", "-"))
          BY <3>3, Zenon DEF SetsClosed
        <4>2. Do("start timer", "-").do \notin Inside
          BY DEF Do, Inside
        <4>. QED
          BY <4>1, <4>2
      <3>4. CASE StartsTimer(g)
        <4>1. Goes(g, Over)
          BY <3>4, Zenon DEF StartsTimer
        <4>2. Over.do \notin Inside
          BY DEF Over, Do, Inside
        <4>. QED
          BY <4>1, <4>2
      <3>. QED
        BY <1>7, <3>1, <3>2, <3>3, <3>4
    <2>3. pc[g].do \notin Inside
      <3>1. CASE CallsClose(g)
        <4>1. pc[g] = Idle
          BY <3>1, Zenon DEF CallsClose
        <4>2. Idle.do = "idle"
          BY DEF Idle, Do
        <4>. QED
          BY <4>1, <4>2
      <3>. QED
        BY <1>7, <3>1 DEF Checks, SetsClosed, StartsTimer
    <2>4. pc'[g] = to /\ \A h \in Goroutines \ {g} : pc'[h] = pc[h]
      BY <1>0, <2>2 DEF Goes, TypeOK
    <2>. QED
      BY <1>3, <2>1, <2>2, <2>3, <2>4
  <1>8. ASSUME NEW g \in Goroutines, Writes(g)
        PROVE  Balanced'
    <2>1. PICK k \in {"procinst", "element", "proceed"} :
              /\ Written(<<k>>) /\ UNCHANGED <<up, depth, encoder>>
              /\ pc[g].do = "write" /\ Goes(g, AfterFrame(k))
      BY <1>8 DEF Writes
    <2>2. <<k>> \in Seq(Kinds) /\ Len(<<k>>) = 1 /\ k \in Kinds /\ k # "header" /\ k # "end"
      BY <2>1 DEF Kinds
    <2>3. AfterFrame(k).do \notin Inside
      BY DEF AfterFrame, Do, Idle
    <2>4. pc'[g] = AfterFrame(k) /\ \A h \in Goroutines \ {g} : pc'[h] = pc[h]
      BY <1>0, <2>1 DEF Goes, TypeOK
    <2>5. Weight("reader")' = Weight("reader") /\ Weight("stopper")' = Weight("stopper")
          /\ overlapped' = overlapped
      BY <2>1, <2>3, <2>4 DEF Weight, encoder
    <2>6. CASE ~up
      <3>1. wire' = wire
        BY <1>0, <2>1, <2>2, <2>6, WireGrows
      <3>. QED
        BY <1>0, <2>1, <2>5, <2>6, <3>1 DEF Balanced
    <2>7. CASE up
      <3>1. wire' = wire \o <<k>>
        BY <1>0, <2>1, <2>2, <2>7, WireGrows
      <3>2. Len(wire') = Len(wire) + 1 /\ \A n \in 0 .. Len(wire) : Surplus(wire', n) = Surplus(wire, n)
        BY <1>1, <2>2, <3>1, SurplusAppend
      <3>3. Surplus(wire', Len(wire) + 1) = Surplus(wire, Len(wire)) + 0
        BY <1>1, <2>2, <3>1, SurplusAppend
      <3>4. Surplus(wire, Len(wire)) \in Int
        <4>1. Among(wire, "header", Len(wire)) \in Nat /\ Among(wire, "end", Len(wire)) \in Nat
          BY <1>1, AmongNat
        <4>. QED
          BY <4>1 DEF Surplus
      <3>5. Surplus(wire', Len(wire')) = Surplus(wire, Len(wire))
        BY <1>1, <3>2, <3>3, <3>4
      <3>. SUFFICES ASSUME ~overlapped' PROVE Balanced'
        BY DEF Balanced
      <3>6. Surplus(wire, Len(wire)) >= 0
        BY <1>0, <1>1, <2>5 DEF Balanced
      <3>7. ASSUME NEW n \in 0 .. Len(wire')
            PROVE  Surplus(wire', n) >= 0
        <4>1. n \in 0 .. Len(wire) \/ n = Len(wire')
          BY <1>1, <3>2
        <4>. QED
          BY <1>0, <2>5, <3>2, <3>5, <3>6, <4>1 DEF Balanced
      <3>. QED
        BY <1>0, <2>1, <2>5, <2>7, <3>5, <3>7 DEF Balanced
    <2>. QED
      BY <1>0, <2>6, <2>7 DEF TypeOK
  <1>9. ASSUME NEW g \in Goroutines, Encodes(g)
        PROVE  Balanced'
    <2>1. PICK k \in Tokens, d \in {-1, 0, 1} :
              /\ pc[g].do = "write" /\ pc[g].of = k /\ Meets(g) /\ depth' = depth + d
              /\ \/ d = 0 /\ Goes(g, Do("flush", k))
                 \/ d = (IF k = "header" THEN 1 ELSE -1) /\ Goes(g, Do("append", k))
              /\ UNCHANGED <<state, up, timers, tls, buffer, filled, broken, part, out, opens>>
      <3>1. PICK k \in Tokens : pc[g].of = k
        BY <1>9 DEF Encodes, Tokens
      <3>2. depth \in Nat
        BY <1>0 DEF TypeOK
      <3>3. CASE k = "end" /\ depth = 0
        <4>1. depth' = depth + 0 /\ Goes(g, Do("flush", k))
          BY <1>9, <3>1, <3>2, <3>3 DEF Encodes
        <4>. QED
          BY <1>9, <3>1, <4>1 DEF Encodes
      <3>4. CASE k = "end" /\ depth # 0
        <4>1. depth' = depth + (-1) /\ Goes(g, Do("append", k))
          BY <1>9, <3>1, <3>2, <3>4 DEF Encodes
        <4>2. -1 = IF k = "header" THEN 1 ELSE -1
          BY <3>4
        <4>. QED
          BY <1>9, <3>1, <4>1, <4>2 DEF Encodes
      <3>5. CASE k = "header"
        <4>1. depth' = depth + 1 /\ Goes(g, Do("append", k))
          BY <1>9, <3>1, <3>2, <3>5 DEF Encodes
        <4>. QED
          BY <1>9, <3>1, <3>5, <4>1 DEF Encodes
      <3>. QED
        BY <3>3, <3>4, <3>5 DEF Tokens
    <2>2. ~overlapped' => ~overlapped /\ \A h \in Goroutines \ {g} : pc[h].do \notin Inside
      BY <2>1, Zenon DEF Meets
    <2>3. /\ pc'[g] \in {Do("flush", k), Do("append", k)} /\ \A h \in Goroutines \ {g} : pc'[h] = pc[h]
          /\ d = 0 => pc'[g] = Do("flush", k)
          /\ d # 0 => pc'[g] = Do("append", k) /\ d = IF k = "header" THEN 1 ELSE -1
      BY <1>0, <2>1 DEF Goes, TypeOK
    <2>4. ASSUME ~overlapped', up'
          PROVE  /\ depth' = depth + d /\ Weight(g)' = Weight(g) + d
                 /\ \A h \in Goroutines \ {g} : Weight(h)' = Weight(h)
      <3>1. \A h \in Goroutines : pc[h].do \notin Inside
        BY <2>1, <2>2, <2>4
      <3>2. ~broken /\ filled = 0
        BY <1>0, <2>1, <2>2, <2>4, <3>1 DEF Alone
      <3>3. \A h \in Goroutines \ {g} : Weight(h)' = 0 /\ Weight(h) = 0
        BY <2>3, <3>1 DEF Weight
      <3>4. Weight(g) = 0
        BY <3>1 DEF Weight
      <3>5. Weight(g)' = d
        <4>1. CASE d = 0
          BY <2>1, <2>3, <3>2, <4>1 DEF Weight, Do
        <4>2. CASE d # 0
          BY <2>1, <2>3, <4>2 DEF Weight, Do
        <4>. QED
          BY <4>1, <4>2
      <3>. QED
        BY <2>1, <3>3, <3>4, <3>5
    <2>. QED
      BY <2>1, <2>2, <2>4, BalanceKept
  <1>10. ASSUME NEW g \in Goroutines, Appends(g) \/ Flushes(g) \/ Compares(g) \/ Empties(g)
         PROVE  Balanced'
    <2>1. /\ pc[g].do \in {"append", "flush", "compare", "empty"}
          /\ UNCHANGED <<up, depth, overlapped, out>>
          /\ \E to : Goes(g, to)
      BY <1>10 DEF Appends, Flushes, Compares, Empties
    <2>2. \A h \in Goroutines \ {g} : pc'[h] = pc[h]
      BY <1>0, <2>1 DEF Goes, TypeOK
    <2>3. ASSUME ~overlapped', up'
          PROVE  /\ depth' = depth + 0 /\ Weight(g)' = Weight(g) + 0
                 /\ \A h \in Goroutines \ {g} : Weight(h)' = Weight(h)
      <3>1. \A h \in Goroutines \ {g} : pc[h].do \notin Inside
        BY <1>0, <2>1, <2>3, OneInside
      <3>2. \A h \in Goroutines \ {g} : Weight(h)' = 0 /\ Weight(h) = 0
        BY <2>2, <3>1 DEF Weight
      <3>3. ~broken /\ pc[g].of \in Tokens /\ AfterFrame(pc[g].of).do \notin Inside
        BY <1>0, <2>1, <2>3 DEF Alone, Stopping, Reading, Tokens, AfterFrame, Do, Idle
      <3>4. Weight(g)' = Weight(g)
        <4>1. CASE Appends(g)
          <5>1. filled = 0 /\ pc[g].do = "append"
            BY <1>0, <2>1, <2>3, <3>3, <4>1 DEF Alone, Appends
          <5>2. filled' = 1 /\ pc'[g] = Do("flush", pc[g].of)
            BY <1>0, <3>3, <4>1, <5>1 DEF Appends, Goes, TypeOK
          <5>. QED
            BY <5>1, <5>2 DEF Weight, Do
        <4>2. CASE Flushes(g)
          <5>1. pc[g].do = "flush" /\ (filled = 0 \/ filled = 1) /\ UNCHANGED filled
            BY <1>0, <2>1, <2>3, <3>3, <4>2 DEF Alone, Flushes, Own
          <5>2. /\ filled = 0 => pc'[g] = AfterFrame(pc[g].of)
                /\ filled = 1 => pc'[g] = Do("drain", pc[g].of)
            BY <1>0, <3>3, <4>2, <5>1 DEF Flushes, Goes, TypeOK
          <5>. QED
            BY <3>3, <5>1, <5>2 DEF Weight, Do
        <4>3. CASE Compares(g) \/ Empties(g)
          <5>1. pc'[g] = AfterFrame(pc[g].of) \/ pc'[g] = Do("empty", pc[g].of)
            BY <1>0, <4>3 DEF Compares, Empties, Goes, TypeOK
          <5>2. pc'[g].do \notin {"append", "drain", "flush"}
            BY <3>3, <5>1 DEF Do
          <5>3. pc[g].do \notin {"append", "drain", "flush"}
            BY <4>3 DEF Compares, Empties
          <5>. QED
            BY <5>2, <5>3 DEF Weight
        <4>. QED
          BY <1>10, <4>1, <4>2, <4>3
      <3>. QED
        <4>1. depth \in Nat /\ Weight(g) \in {-1, 0, 1}
          BY <1>0 DEF TypeOK, Weight
        <4>. QED
          BY <2>1, <3>2, <3>4, <4>1
    <2>. QED
      BY <2>1, <2>3, BalanceKept
  <1>11. ASSUME NEW g \in Goroutines, Drains(g)
         PROVE  Balanced'
    <2>. SUFFICES ASSUME ~overlapped' PROVE Balanced'
      BY DEF Balanced
    <2>1. /\ pc[g].do = "drain" /\ Written(SubSeq(buffer, 1, part[g]))
          /\ Goes(g, IF up THEN Do("compare", pc[g].of) ELSE AfterFrame(pc[g].of))
          /\ UNCHANGED <<up, depth, filled, overlapped>>
      BY <1>11 DEF Drains
    <2>2. pc[g].of \in Tokens
      BY <1>0, <2>1 DEF Stopping, Reading, Tokens
    <2>3. CASE ~up
      <3>1. wire' = wire
        BY <2>1, <2>3 DEF Written, wire
      <3>. QED
        BY <1>0, <2>1, <2>3, <3>1 DEF Balanced
    <2>4. CASE up
      <3>. DEFINE k == pc[g].of
                  d == IF k = "header" THEN 1 ELSE -1
      <3>1. Written(<<k>>)
        BY <1>0, <2>1, <2>4, DrainsOwn
      <3>2. k \in Kinds /\ <<k>> \in Seq(Kinds)
        BY <2>2 DEF Tokens, Kinds
      <3>3. wire' = wire \o <<k>>
        BY <1>0, <2>4, <3>1, <3>2, WireGrows
      <3>4. d \in {-1, 1} /\ d = IF k = "header" THEN 1 ELSE IF k = "end" THEN -1 ELSE 0
        BY <2>2 DEF Tokens
      <3>5. \A h \in Goroutines \ {g} : pc[h].do \notin Inside /\ pc'[h] = pc[h]
        BY <1>0, <2>1, OneInside DEF Goes, TypeOK
      <3>6. \A h \in Goroutines \ {g} : Weight(h)' = 0 /\ Weight(h) = 0
        BY <3>5 DEF Weight
      <3>7. Weight(g) = d
        BY <2>1 DEF Weight
      <3>8. Weight(g)' = 0
        <4>1. pc'[g] = Do("compare", pc[g].of)
          BY <1>0, <2>1, <2>4 DEF Goes, TypeOK
        <4>. QED
          BY <4>1 DEF Weight, Do
      <3>9. Surplus(wire, Len(wire)) \in Int /\ depth \in Nat
        <4>1. Among(wire, "header", Len(wire)) \in Nat /\ Among(wire, "end", Len(wire)) \in Nat
          BY <1>1, AmongNat
        <4>. QED
          BY <1>0, <4>1 DEF Surplus, TypeOK
      <3>10. depth = Surplus(wire, Len(wire)) + d
        <4>1. depth = Surplus(wire, Len(wire)) + Weight("reader") + Weight("stopper")
          BY <1>0, <2>1, <2>4 DEF Balanced
        <4>2. CASE g = "reader"
          <5>1. Weight("reader") = d /\ Weight("stopper") = 0
            BY <3>6, <3>7, <4>2
          <5>. QED
            BY <3>4, <3>9, <4>1, <5>1
        <4>3. CASE g = "stopper"
          <5>1. Weight("stopper") = d /\ Weight("reader") = 0
            BY <3>6, <3>7, <4>3
          <5>. QED
            BY <3>4, <3>9, <4>1, <5>1
        <4>. QED
          BY <4>2, <4>3
      <3>11. Weight("reader")' = 0 /\ Weight("stopper")' = 0
        BY <3>6, <3>8
      <3>. HIDE DEF k, d
      <3>12. /\ Len(wire \o <<k>>) = Len(wire) + 1
             /\ \A n \in 0 .. Len(wire) : Surplus(wire \o <<k>>, n) = Surplus(wire, n)
             /\ Surplus(wire \o <<k>>, Len(wire) + 1) = Surplus(wire, Len(wire)) + d
        BY <1>1, <3>2, <3>4, SurplusAppend
      <3>13. Len(wire') = Len(wire) + 1 /\ Surplus(wire', Len(wire')) = depth
        BY <3>3, <3>10, <3>12
      <3>14. ASSUME NEW n \in 0 .. Len(wire')
             PROVE  Surplus(wire', n) >= 0
        <4>1. n \in 0 .. Len(wire) \/ n = Len(wire')
          BY <1>1, <3>13
        <4>2. CASE n \in 0 .. Len(wire)
          <5>1. Surplus(wire', n) = Surplus(wire, n)
            BY <3>3, <3>12, <4>2
          <5>. QED
            BY <1>0, <2>1, <4>2, <5>1 DEF Balanced
        <4>. QED
          BY <3>9, <3>13, <4>1, <4>2
      <3>. QED
        BY <2>1, <3>9, <3>11, <3>13, <3>14 DEF Balanced
    <2>. QED
      BY <1>0, <2>3, <2>4 DEF TypeOK
  <1>. QED
    BY <1>5, <1>6, <1>7, <1>8, <1>9, <1>10, <1>11 DEF Next, GoesOn

\* The peer never reads a closing tag without a header before it, however Open
\* and two calls of Close meet (channel.go:171-203), as long as no call of
\* SendToken comes into the encoder while another one is there (channel.go:244-245).
THEOREM PeerReadsBalanced == Spec => []EndsAreBalanced
  <1>1. BalanceInv => EndsAreBalanced
    <2>. SUFFICES ASSUME BalanceInv, ~overlapped, NEW n \in 0 .. Len(out)
                  PROVE  Count("end", n) <= Count("header", n)
      BY DEF EndsAreBalanced
    <2>1. Len(wire) = Len(out) /\ DOMAIN out = 1 .. Len(out) /\ Len(out) \in Nat
      BY WireType, LenProperties DEF BalanceInv, CrossInv, TypeOK
    <2>2. \A i \in 1 .. n : wire[i] = out[i].kind
      BY <2>1 DEF wire
    <2>3. ASSUME NEW k
          PROVE  Count(k, n) = Among(wire, k, n) /\ Count(k, n) \in Nat
      <3>1. {i \in 1 .. n : out[i].kind = k} = {i \in 1 .. n : wire[i] = k}
        BY <2>2
      <3>2. Count(k, n) = Among(wire, k, n)
        BY <3>1 DEF Count, Among
      <3>3. n \in Nat
        BY <2>1
      <3>. QED
        BY <3>2, <3>3, AmongNat
    <2>4. Surplus(wire, n) >= 0
      BY <2>1 DEF BalanceInv, Balanced
    <2>. QED
      BY <2>3, <2>4 DEF Surplus
  <1>. QED
    BY <1>1, BalanceInit, BalanceStep, PTL DEF Spec
=============================================================================
