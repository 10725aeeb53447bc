---------------------------- MODULE IdentityProofs ----------------------------
(***************************************************************************)
(* Proofs, for any number of connections: an entry of the list of parts is *)
(* only lost to an append at the same time; and, for all names an address  *)
(* can be read back from, both ends have the same JID once negotiated.     *)
(***************************************************************************)
EXTENDS Identity, FiniteSetTheorems, FunctionTheorems, SequenceTheorems, WellFoundedInduction, TLAPS

Chars == STRING \cup {"@", "/"}
Text  == Seq(Chars)
JIDs == [Username : Text, Domain : Text, Resource : Text]

Stages == {"new", "appending", "listed", "bound", "ended"}

Entries(list) == {list[i] : i \in DOMAIN list}

Counted(list) ==
    list \in Seq(Conns) /\ IsFiniteSet(Entries(list)) /\ Len(list) = Cardinality(Entries(list))

Done  == {c \in Conns : stage[c] \in {"listed", "bound"}}
Known == {c \in Conns : named[c] # <<>> /\ stage[c] \notin {"new", "appending"}}

IsMap(f) == f = [c \in Conns |-> f[c]]

TypeOK ==
    /\ user \in [Conns -> Users] /\ stage \in [Conns -> Stages] /\ named \in [Conns -> Text]
    /\ IsMap(sjid) /\ IsMap(wire) /\ IsMap(loaded) /\ raced \in SUBSET Conns

\* Before a part has authenticated its JID is what a header said, and the name
\* under way is its user's.
Fresh ==
    \A c \in Conns : stage[c] = "new" =>
        /\ sjid[c] \in JIDs
        /\ wire[c].kind \in {"open", "mechanisms", "PLAIN", "SCRAM", "end"}
        /\ wire[c].kind = "open" => wire[c].text \in Text
        /\ wire[c].kind \in Mechanisms => wire[c].text = user[c]

\* Two that append at once have raced, and who has not is in every list that is
\* about to be written back.
Listing ==
    /\ Counted(parts) /\ Entries(parts) \subseteq Known
    /\ Done \ raced \subseteq Entries(parts)
    /\ Done # {} => Entries(parts) # {}
    /\ \A c \in Conns : stage[c] = "appending" =>
           /\ named[c] # <<>>
           /\ Counted(loaded[c]) /\ Entries(loaded[c]) \subseteq Known
           /\ Done \ raced \subseteq Entries(loaded[c])
           /\ \A d \in Conns : stage[d] = "appending" /\ c # d => c \in raced

IdInv == TypeOK /\ Fresh /\ Listing

Less == {ss \in Nat \X Nat : ss[1] < ss[2]}

-----------------------------------------------------------------------------
(* Texts and JIDs *)

\* A set of numbers has a least one, and a bounded one a greatest.
LEMMA Least ==
    ASSUME NEW T \in SUBSET Nat, T # {}
    PROVE  \E x \in T : \A y \in T : x <= y
  <1>1. IsWellFoundedOn(Less, Nat)
    BY NatLessThanWellFounded DEF OpToRel, Less
  <1>2. \A x, y \in Nat : <<x, y>> \in Less <=> x < y
    BY DEF Less
  <1>3. PICK x \in T : \A y \in T : ~(<<y, x>> \in Less)
    BY <1>1, WFMin
  <1>4. ASSUME NEW y \in T
        PROVE  x <= y
    <2>1. x \in Nat /\ y \in Nat /\ ~(<<y, x>> \in Less)
      BY <1>3
    <2>2. ~(y < x)
      BY <1>2, <2>1
    <2>. QED
      BY <2>1, <2>2
  <1>. QED
    BY <1>4

\* Min is the least element.
LEMMA MinIs ==
    ASSUME NEW T \in SUBSET Nat, T # {}
    PROVE  Min(T) \in T /\ \A y \in T : Min(T) <= y
  BY Least DEF Min

\* Max is the greatest element of a bounded set.
LEMMA MaxIs ==
    ASSUME NEW n \in Nat, NEW T \in SUBSET (1 .. n), T # {}
    PROVE  Max(T) \in T /\ \A y \in T : Max(T) >= y
  <1>. DEFINE U == {i \in Nat : i <= n /\ n - i \in T}
  <1>1. U \in SUBSET Nat
    OBVIOUS
  <1>2. U # {}
    <2>1. PICK y \in T : TRUE
      OBVIOUS
    <2>2. n - y \in U
      BY <2>1
    <2>. QED
      BY <2>2
  <1>3. PICK x \in U : \A y \in U : x <= y
    BY <1>1, <1>2, Least
  <1>4. n - x \in T
    BY <1>3
  <1>5. ASSUME NEW y \in T
        PROVE  n - x >= y
    <2>1. n - y \in U
      OBVIOUS
    <2>2. x <= n - y
      BY <1>3, <2>1
    <2>. QED
      BY <1>3, <2>2
  <1>6. \E z \in T : \A y \in T : z >= y
    BY <1>4, <1>5
  <1>. QED
    BY <1>6 DEF Max

\* A place in a text is a number from one to its length.
LEMMA WhereIs ==
    ASSUME NEW c, NEW t \in Text
    PROVE  /\ Len(t) \in Nat /\ DOMAIN t = 1 .. Len(t) /\ \A i \in 1 .. Len(t) : t[i] \in Chars
           /\ Where(c, t) \in SUBSET (1 .. Len(t)) /\ Where(c, t) \in SUBSET Nat
           /\ \A i \in DOMAIN t : i \in Nat /\ i >= 1 /\ i <= Len(t)
           /\ \A i \in Where(c, t) : i \in Nat /\ i >= 1 /\ i <= Len(t)
  <1>1. Len(t) \in Nat /\ DOMAIN t = 1 .. Len(t) /\ \A i \in 1 .. Len(t) : t[i] \in Chars
    BY LenProperties, ElementOfSeq DEF Text
  <1>. QED
    BY <1>1 DEF Where

\* A part of a text is a text.
LEMMA PartOfText ==
    ASSUME NEW t \in Text, NEW m \in Nat, NEW n \in Nat, m >= 1, n <= Len(t)
    PROVE  SubSeq(t, m, n) \in Text
  <1>0. Len(t) \in Nat /\ \A i \in 1 .. Len(t) : t[i] \in Chars
    BY WhereIs
  <1>1. \A i \in m .. n : t[i] \in Chars
    BY <1>0
  <1>. QED
    BY <1>1, SubSeqProperties DEF Text

\* Without its outer slashes a text is a text.
LEMMA TrimIsText ==
    ASSUME NEW t \in Text
    PROVE  Trim(t) \in Text
  <1>. DEFINE kept == DOMAIN t \ Where("/", t)
  <1>1. /\ kept \in SUBSET (1 .. Len(t)) /\ kept \in SUBSET Nat /\ Len(t) \in Nat
        /\ \A i \in kept : i \in Nat /\ i >= 1 /\ i <= Len(t)
    BY WhereIs
  <1>2. CASE kept = {}
    BY <1>2, EmptySeq DEF Trim, Text
  <1>3. CASE kept # {}
    <2>. HIDE DEF kept
    <2>1. Min(kept) \in kept /\ Max(kept) \in kept
      BY <1>1, <1>3, MinIs, MaxIs
    <2>2. Min(kept) \in Nat /\ Min(kept) >= 1 /\ Max(kept) \in Nat /\ Max(kept) <= Len(t)
      BY <1>1, <2>1
    <2>3. SubSeq(t, Min(kept), Max(kept)) \in Text
      BY <2>2, PartOfText
    <2>. QED
      BY <1>3, <2>3 DEF Trim, kept
  <1>. QED
    BY <1>2, <1>3

\* What is read from an address is a JID.
LEMMA ParseIsJID ==
    ASSUME NEW src \in Text, IsJID(src), NEW jid \in JIDs
    PROVE  ParseJID(src, jid) \in JIDs
  <1>. DEFINE at    == CHOOSE i \in DOMAIN src : src[i] = "@"
              v     == SubSeq(src, at + 1, Len(src))
              slash == Where("/", v)
  <1>1. at \in DOMAIN src
    <2>1. PICK i \in DOMAIN src : Where("@", src) = {i}
      BY DEF IsJID
    <2>2. src[i] = "@"
      BY <2>1 DEF Where
    <2>. QED
      BY <2>2
  <1>2. at \in Nat /\ at >= 1 /\ at <= Len(src) /\ Len(src) \in Nat
    BY <1>1, WhereIs
  <1>. HIDE DEF at
  <1>3. v \in Text /\ SubSeq(src, 1, at - 1) \in Text
    <2>1. at + 1 \in Nat /\ at + 1 >= 1 /\ at - 1 \in Nat /\ at - 1 <= Len(src) /\ 1 \in Nat /\ 1 >= 1
      BY <1>2
    <2>. QED
      BY <1>2, <2>1, PartOfText
  <1>. HIDE DEF v
  <1>4. /\ Len(v) \in Nat /\ slash \in SUBSET (1 .. Len(v)) /\ slash \in SUBSET Nat
        /\ \A i \in slash : i \in Nat /\ i >= 1 /\ i <= Len(v)
    BY <1>3, WhereIs
  <1>. HIDE DEF slash
  <1>5. CASE slash # {} /\ Min(slash) > 1
    <2>1. Min(slash) \in slash
      BY <1>4, <1>5, MinIs
    <2>0. Min(slash) \in Nat /\ Min(slash) >= 1 /\ Min(slash) <= Len(v)
      BY <1>4, <2>1
    <2>2. Min(slash) \in Nat /\ Min(slash) >= 1 /\ Min(slash) <= Len(v) /\ Min(slash) - 1 \in Nat
          /\ Min(slash) - 1 <= Len(v) /\ 1 \in Nat /\ 1 >= 1
      BY <1>4, <2>0
    <2>3. SubSeq(v, 1, Min(slash) - 1) \in Text
      BY <1>3, <2>2, PartOfText
    <2>4. SubSeq(v, Min(slash), Len(v)) \in Text
      BY <1>3, <1>4, <2>2, PartOfText
    <2>5. ParseJID(src, jid) = JID(SubSeq(src, 1, at - 1), SubSeq(v, 1, Min(slash) - 1),
                                   SubSeq(v, Min(slash), Len(v)))
      BY <1>5 DEF ParseJID, slash, v, at
    <2>. QED
      BY <1>3, <2>3, <2>4, <2>5 DEF JID, JIDs
  <1>6. CASE ~(slash # {} /\ Min(slash) > 1)
    <2>1. ParseJID(src, jid) = [jid EXCEPT !.Username = SubSeq(src, 1, at - 1), !.Domain = v]
      BY <1>6 DEF ParseJID, slash, v, at
    <2>. QED
      BY <1>3, <2>1 DEF JIDs
  <1>. QED
    BY <1>5, <1>6

\* What is printed is a text, and never empty.
LEMMA PrintedIsText ==
    ASSUME NEW jid \in JIDs
    PROVE  Printed(jid) \in Text /\ Printed(jid) # <<>>
  <1>. DEFINE a == jid.Username
              d == jid.Domain
              z == Trim(jid.Resource)
  <1>a. a \in Text /\ d \in Text /\ jid.Resource \in Text
    BY DEF JIDs
  <1>b. z \in Text
    BY <1>a, TrimIsText
  <1>. HIDE DEF z, a, d
  <1>c. \A t \in Text : Len(t) \in Nat
    BY LenProperties DEF Text
  <1>d. <<"@">> \in Text /\ <<"/">> \in Text /\ Len(<<"@">>) = 1 /\ Len(<<"/">>) = 1
    <2>1. "@" \in Chars /\ "/" \in Chars
      BY DEF Chars
    <2>. HIDE DEF Chars
    <2>. QED
      BY <2>1 DEF Text
  <1>1. a \in Text /\ d \in Text /\ z \in Text /\ <<"@">> \in Text /\ <<"/">> \in Text
        /\ Len(<<"@">>) = 1 /\ Len(a) \in Nat /\ Len(d) \in Nat /\ Len(z) \in Nat /\ Len(<<"/">>) = 1
    BY <1>a, <1>b, <1>c, <1>d
  <1>2. a \o <<"@">> \in Text /\ Len(a \o <<"@">>) = Len(a) + 1
    BY <1>1, ConcatProperties DEF Text
  <1>3. a \o <<"@">> \o d \in Text /\ Len(a \o <<"@">> \o d) = Len(a) + 1 + Len(d)
    BY <1>1, <1>2, ConcatProperties DEF Text
  <1>4. a \o <<"@">> \o d \o <<"/">> \in Text /\ Len(a \o <<"@">> \o d \o <<"/">>) = Len(a) + 1 + Len(d) + 1
    BY <1>1, <1>3, ConcatProperties DEF Text
  <1>5. /\ a \o <<"@">> \o d \o <<"/">> \o z \in Text
        /\ Len(a \o <<"@">> \o d \o <<"/">> \o z) = Len(a) + 1 + Len(d) + 1 + Len(z)
    BY <1>1, <1>4, ConcatProperties DEF Text
  <1>6. Printed(jid) \in Text /\ Len(Printed(jid)) > 0
    <2>1. CASE z # <<>>
      <3>1. Printed(jid) = a \o <<"@">> \o d \o <<"/">> \o z
        BY <2>1 DEF Printed, a, d, z
      <3>. QED
        BY <1>1, <1>5, <3>1
    <2>2. CASE z = <<>>
      <3>1. Printed(jid) = a \o <<"@">> \o d
        BY <2>2 DEF Printed, a, d, z
      <3>. QED
        BY <1>1, <1>3, <3>1
    <2>. QED
      BY <2>1, <2>2
  <1>. QED
    BY <1>6, EmptySeq

-----------------------------------------------------------------------------
(* The list *)

\* An entry that was not in the list makes it longer by one.
LEMMA OneMore ==
    ASSUME NEW list, Counted(list), NEW c \in Conns, c \notin Entries(list)
    PROVE  Counted(Append(list, c)) /\ Entries(Append(list, c)) = Entries(list) \cup {c}
  <1>. DEFINE longer == Append(list, c)
  <1>1. /\ longer \in Seq(Conns) /\ Len(longer) = Len(list) + 1
        /\ \A i \in 1 .. Len(list) : longer[i] = list[i]
        /\ longer[Len(list) + 1] = c
    BY AppendProperties DEF Counted
  <1>2. DOMAIN list = 1 .. Len(list) /\ DOMAIN longer = 1 .. Len(longer) /\ Len(list) \in Nat
    BY <1>1, LenProperties DEF Counted
  <1>. HIDE DEF longer
  <1>3. DOMAIN longer = DOMAIN list \cup {Len(list) + 1}
    BY <1>1, <1>2
  <1>4. Entries(longer) = Entries(list) \cup {c}
    BY <1>1, <1>2, <1>3 DEF Entries
  <1>5. /\ IsFiniteSet(Entries(list) \cup {c})
        /\ Cardinality(Entries(list) \cup {c}) = Cardinality(Entries(list)) + 1
    BY FS_AddElement DEF Counted
  <1>6. Len(longer) = Cardinality(Entries(longer))
    BY <1>1, <1>4, <1>5 DEF Counted
  <1>. QED
    BY <1>1, <1>4, <1>5, <1>6 DEF Counted, longer

\* A step that neither begins nor ends an append, and lists nobody.
LEMMA ListKept ==
    ASSUME Listing, UNCHANGED <<named, parts, loaded, raced>>,
           \A d \in Conns : /\ (stage'[d] = "appending") = (stage[d] = "appending")
                            /\ stage'[d] \in {"listed", "bound"} => stage[d] \in {"listed", "bound"}
                            /\ stage'[d] = "new" => stage[d] = "new"
    PROVE  Listing'
  <1>1. Done' \subseteq Done /\ Known \subseteq Known'
    BY DEF Done, Known
  <1>2. Counted(parts') /\ Entries(parts') = Entries(parts)
    BY DEF Listing
  <1>3. Entries(parts') \subseteq Known' /\ Done' \ raced' \subseteq Entries(parts')
        /\ (Done' # {} => Entries(parts') # {})
    BY <1>1, <1>2 DEF Listing
  <1>4. ASSUME NEW c \in Conns, stage'[c] = "appending"
        PROVE  /\ named'[c] # <<>>
               /\ Counted(loaded'[c]) /\ Entries(loaded'[c]) \subseteq Known'
               /\ Done' \ raced' \subseteq Entries(loaded'[c])
               /\ \A d \in Conns : stage'[d] = "appending" /\ c # d => c \in raced'
    BY <1>1, <1>4 DEF Listing
  <1>. QED
    BY <1>2, <1>3, <1>4 DEF Listing, Counted, Entries

-----------------------------------------------------------------------------
(* The steps *)

\* At the start every header has the address of its client.
LEMMA IdInit == Init => IdInv
  <1>. SUFFICES ASSUME Init PROVE IdInv
    OBVIOUS
  <1>1. user \in [Conns -> Users] /\ Users \subseteq Text /\ Domain \in Text /\ Kept \subseteq Text
        /\ <<>> \in Text
    <2>1. \A s \in Seq(STRING) : s \in Text
      BY SeqMonotonic DEF Text, Chars
    <2>. QED
      BY <2>1, TextsAssumption, EmptySeq DEF Init, Text
  <1>2. \A c \in Conns : cjid[c] \in JIDs
    BY <1>1 DEF Init, JIDs, JID
  <1>3. NoJID \in JIDs
    BY <1>1 DEF NoJID, JID, JIDs
  <1>4. TypeOK
    BY <1>1 DEF Init, TypeOK, Stages, IsMap
  <1>5. Fresh
    <2>. SUFFICES ASSUME NEW c \in Conns
                  PROVE  sjid[c] \in JIDs /\ wire[c].kind = "open" /\ wire[c].text \in Text
      BY MechanismsAssumption DEF Fresh
    <2>1. Address(cjid[c]) \in Text
      BY <1>1, <1>2, PrintedIsText DEF Address
    <2>. QED
      BY <1>3, <2>1 DEF Init, Message
  <1>6. Listing
    <2>1. Entries(parts) = {} /\ parts \in Seq(Conns) /\ Len(parts) = 0
      BY EmptySeq DEF Init, Entries
    <2>2. Counted(parts)
      BY <2>1, FS_EmptySet DEF Counted
    <2>3. \A c \in Conns : stage[c] = "new"
      BY DEF Init
    <2>. QED
      BY <2>1, <2>2, <2>3 DEF Listing, Done
  <1>. QED
    BY <1>4, <1>5, <1>6 DEF IdInv

\* Authentication, with the first half of the append.
LEMMA AuthenticatesKeeps ==
    ASSUME IdInv, NEW c \in Conns, Authenticates(c)
    PROVE  IdInv'
  <1>1. /\ stage[c] = "new" /\ wire[c].kind \in Mechanisms
        /\ wire' = [wire EXCEPT ![c] = Message("success", <<>>)]
        /\ named' = [named EXCEPT ![c] = Printed(sjid'[c])]
        /\ loaded' = [loaded EXCEPT ![c] = parts]
        /\ stage' = [stage EXCEPT ![c] = "appending"]
        /\ UNCHANGED <<user, parts>>
    BY DEF Authenticates
  <1>2. TypeOK /\ Fresh /\ Listing
    BY DEF IdInv
  <1>3. sjid[c] \in JIDs /\ wire[c].text = user[c] /\ user[c] \in Text /\ Domain \in Text /\ <<>> \in Text
    <2>1. \A s \in Seq(STRING) : s \in Text
      BY SeqMonotonic DEF Text, Chars
    <2>2. user[c] \in Text /\ Domain \in Text /\ <<>> \in Text
      BY <1>2, <2>1, TextsAssumption, EmptySeq DEF TypeOK, Text
    <2>. QED
      BY <1>1, <1>2, <2>2 DEF Fresh
  <1>4. Returned(wire[c].kind, wire[c].text) \in Text
    BY <1>3 DEF Returned
  <1>5. IsMap(sjid') /\ sjid'[c] \in JIDs /\ \A d \in Conns : d # c => sjid'[d] = sjid[d]
    <2>1. sjid' = [sjid EXCEPT ![c] = [sjid[c] EXCEPT !.Username = Returned(wire[c].kind, wire[c].text),
                                                      !.Domain = Domain]]
      BY <1>2 DEF Authenticates, TypeOK, IsMap
    <2>. DEFINE j == [sjid[c] EXCEPT !.Username = Returned(wire[c].kind, wire[c].text), !.Domain = Domain]
    <2>2. j \in JIDs
      BY <1>3, <1>4 DEF JIDs
    <2>. HIDE DEF j
    <2>3. sjid' = [sjid EXCEPT ![c] = j]
      BY <2>1 DEF j
    <2>. QED
      BY <1>2, <2>2, <2>3 DEF TypeOK, IsMap
  <1>6. Printed(sjid'[c]) \in Text /\ Printed(sjid'[c]) # <<>>
    BY <1>5, PrintedIsText
  <1>7. /\ IsMap(wire') /\ \A d \in Conns : d # c => wire'[d] = wire[d]
        /\ IsMap(loaded') /\ loaded'[c] = parts /\ \A d \in Conns : d # c => loaded'[d] = loaded[d]
    BY <1>1, <1>2 DEF TypeOK, IsMap
  <1>8. /\ named' \in [Conns -> Text] /\ named'[c] # <<>> /\ \A d \in Conns : d # c => named'[d] = named[d]
        /\ stage' \in [Conns -> Stages] /\ stage'[c] = "appending"
        /\ \A d \in Conns : d # c => stage'[d] = stage[d]
    BY <1>1, <1>2, <1>6 DEF TypeOK, Stages
  <1>9. /\ raced' \in SUBSET Conns /\ raced \subseteq raced'
        /\ \A d \in Conns : stage[d] = "appending" => c \in raced' /\ d \in raced'
    <2>. DEFINE others == {d \in Conns : stage[d] = "appending"}
    <2>1. raced' = IF others = {} THEN raced ELSE raced \cup others \cup {c}
      BY DEF Authenticates
    <2>2. others \subseteq Conns /\ raced \subseteq Conns
      BY <1>2 DEF TypeOK
    <2>3. \A d \in Conns : stage[d] = "appending" <=> d \in others
      OBVIOUS
    <2>. HIDE DEF others
    <2>4. CASE others = {}
      <3>1. raced' = raced
        BY <2>1, <2>4
      <3>. QED
        BY <2>2, <2>3, <2>4, <3>1
    <2>5. CASE others # {}
      <3>1. raced' = raced \cup others \cup {c}
        BY <2>1, <2>5
      <3>. QED
        BY <2>2, <2>3, <3>1
    <2>. QED
      BY <2>4, <2>5
  <1>10. TypeOK'
    BY <1>1, <1>2, <1>5, <1>7, <1>8, <1>9 DEF TypeOK
  <1>11. Fresh'
    <2>. SUFFICES ASSUME NEW d \in Conns, stage'[d] = "new"
                  PROVE  /\ sjid'[d] \in JIDs
                         /\ wire'[d].kind \in {"open", "mechanisms", "PLAIN", "SCRAM", "end"}
                         /\ wire'[d].kind = "open" => wire'[d].text \in Text
                         /\ wire'[d].kind \in Mechanisms => wire'[d].text = user'[d]
      BY DEF Fresh
    <2>1. d # c /\ stage[d] = "new" /\ sjid'[d] = sjid[d] /\ wire'[d] = wire[d] /\ user' = user
      BY <1>1, <1>5, <1>7, <1>8
    <2>. QED
      BY <1>2, <2>1 DEF Fresh
  <1>12. Listing'
    <2>1. Done' = Done /\ Known \subseteq Known'
      BY <1>1, <1>8 DEF Done, Known
    <2>2. Counted(parts') /\ Entries(parts') = Entries(parts) /\ Counted(parts)
      BY <1>1, <1>2 DEF Listing
    <2>3. Entries(parts') \subseteq Known' /\ Done' \ raced' \subseteq Entries(parts')
          /\ (Done' # {} => Entries(parts') # {})
      BY <1>2, <1>9, <2>1, <2>2 DEF Listing
    <2>4. ASSUME NEW d \in Conns, stage'[d] = "appending"
          PROVE  /\ named'[d] # <<>>
                 /\ Counted(loaded'[d]) /\ Entries(loaded'[d]) \subseteq Known'
                 /\ Done' \ raced' \subseteq Entries(loaded'[d])
                 /\ \A e \in Conns : stage'[e] = "appending" /\ d # e => d \in raced'
      <3>1. CASE d = c
        <4>1. named'[d] # <<>> /\ Counted(loaded'[d]) /\ Entries(loaded'[d]) = Entries(parts')
          BY <1>7, <1>8, <2>2, <3>1
        <4>2. \A e \in Conns : stage'[e] = "appending" /\ d # e => d \in raced'
          BY <1>8, <1>9, <3>1
        <4>. QED
          BY <2>3, <4>1, <4>2
      <3>2. CASE d # c
        <4>1. stage[d] = "appending" /\ named'[d] = named[d] /\ loaded'[d] = loaded[d] /\ d \in raced'
          BY <1>7, <1>8, <1>9, <2>4, <3>2
        <4>. QED
          BY <1>2, <1>9, <2>1, <4>1 DEF Listing
      <3>. QED
        BY <3>1, <3>2
    <2>. QED
      BY <2>2, <2>3, <2>4 DEF Listing, Counted, Entries
  <1>. QED
    BY <1>10, <1>11, <1>12 DEF IdInv

\* The second half: nobody who has not raced was listed in between.
LEMMA ListsKeeps ==
    ASSUME IdInv, NEW c \in Conns, Lists(c)
    PROVE  IdInv'
  <1>1. /\ stage[c] = "appending" /\ parts' = Append(loaded[c], c)
        /\ stage' = [stage EXCEPT ![c] = "listed"]
        /\ UNCHANGED <<user, sjid, wire, named, loaded, raced>>
    BY DEF Lists, Appended
  <1>2. TypeOK /\ Fresh /\ Listing
    BY DEF IdInv
  <1>3. stage' \in [Conns -> Stages] /\ stage'[c] = "listed" /\ \A d \in Conns : d # c => stage'[d] = stage[d]
    BY <1>1, <1>2 DEF TypeOK, Stages
  <1>4. TypeOK'
    BY <1>1, <1>2, <1>3 DEF TypeOK, IsMap
  <1>5. Fresh'
    BY <1>1, <1>2, <1>3 DEF Fresh
  <1>6. /\ Counted(loaded[c]) /\ Entries(loaded[c]) \subseteq Known /\ c \notin Known /\ named[c] # <<>>
        /\ Done \ raced \subseteq Entries(loaded[c])
    BY <1>1, <1>2 DEF Listing, Known
  <1>7. Counted(parts') /\ Entries(parts') = Entries(loaded[c]) \cup {c}
    BY <1>1, <1>6, OneMore
  <1>8. Done' = Done \cup {c} /\ Known' = Known \cup {c}
    BY <1>1, <1>3, <1>6 DEF Done, Known
  <1>9. Entries(parts') \subseteq Known' /\ Done' \ raced' \subseteq Entries(parts') /\ Entries(parts') # {}
    BY <1>1, <1>6, <1>7, <1>8
  <1>10. ASSUME NEW d \in Conns, stage'[d] = "appending"
         PROVE  /\ named'[d] # <<>>
                /\ Counted(loaded'[d]) /\ Entries(loaded'[d]) \subseteq Known'
                /\ Done' \ raced' \subseteq Entries(loaded'[d])
                /\ \A e \in Conns : stage'[e] = "appending" /\ d # e => d \in raced'
    <2>1. d # c /\ stage[d] = "appending"
      BY <1>3, <1>10
    <2>2. c \in raced
      BY <1>1, <1>2, <2>1 DEF Listing
    <2>3. Done' \ raced' = Done \ raced
      BY <1>1, <1>8, <2>2
    <2>4. \A e \in Conns : stage'[e] = "appending" => stage[e] = "appending"
      BY <1>3
    <2>5. named'[d] = named[d] /\ loaded'[d] = loaded[d] /\ raced' = raced
      BY <1>1
    <2>. QED
      BY <1>2, <1>8, <2>1, <2>3, <2>4, <2>5 DEF Listing
  <1>11. Listing'
    BY <1>7, <1>9, <1>10 DEF Listing, Counted, Entries
  <1>. QED
    BY <1>4, <1>5, <1>11 DEF IdInv

\* A step of one connection that neither begins nor ends an append.
LEMMA OneMoves ==
    ASSUME IdInv, NEW c \in Conns, UNCHANGED <<user, named, parts, loaded, raced>>,
           IsMap(sjid'), IsMap(wire'), stage' \in [Conns -> Stages],
           \A d \in Conns : d # c => sjid'[d] = sjid[d] /\ wire'[d] = wire[d] /\ stage'[d] = stage[d],
           stage'[c] = "appending" <=> stage[c] = "appending",
           stage'[c] \in {"listed", "bound"} => stage[c] \in {"listed", "bound"},
           stage'[c] = "new" => /\ stage[c] = "new" /\ sjid'[c] \in JIDs
                                /\ wire'[c].kind \in {"open", "mechanisms", "PLAIN", "SCRAM", "end"}
                                /\ wire'[c].kind # "open"
                                /\ wire'[c].kind \in Mechanisms => wire'[c].text = user[c]
    PROVE  IdInv'
  <1>1. TypeOK /\ Fresh /\ Listing
    BY DEF IdInv
  <1>2. TypeOK'
    <2>1. IsMap(loaded')
      BY <1>1 DEF TypeOK, IsMap
    <2>. QED
      BY <1>1, <2>1 DEF TypeOK
  <1>3. Fresh'
    <2>. SUFFICES ASSUME NEW d \in Conns, stage'[d] = "new"
                  PROVE  /\ sjid'[d] \in JIDs
                         /\ wire'[d].kind \in {"open", "mechanisms", "PLAIN", "SCRAM", "end"}
                         /\ wire'[d].kind = "open" => wire'[d].text \in Text
                         /\ wire'[d].kind \in Mechanisms => wire'[d].text = user'[d]
      BY DEF Fresh
    <2>1. CASE d = c
      BY <2>1
    <2>2. CASE d # c
      BY <1>1, <2>2 DEF Fresh
    <2>. QED
      BY <2>1, <2>2
  <1>4. Listing'
    <2>1. \A d \in Conns : /\ stage'[d] = "appending" <=> stage[d] = "appending"
                           /\ stage'[d] \in {"listed", "bound"} => stage[d] \in {"listed", "bound"}
                           /\ stage'[d] = "new" => stage[d] = "new"
      OBVIOUS
    <2>. QED
      BY <1>1, <2>1, ListKept
  <1>. QED
    BY <1>2, <1>3, <1>4 DEF IdInv

\* A header, an end, a message of the client, a binding.
LEMMA OthersKeep ==
    ASSUME IdInv, NEW c \in Conns,
           \/ Opens(c) \/ RefusesHeader(c) \/ FailsToAuthenticate(c) \/ Binds(c)
           \/ ToAuth(c) \/ Reopens(c) \/ AsksToBind(c) \/ BoundTo(c)
    PROVE  IdInv'
  <1>1. TypeOK /\ Fresh /\ Listing
    BY DEF IdInv
  <1>2. /\ IsMap(sjid) /\ IsMap(wire) /\ stage \in [Conns -> Stages]
        /\ stage[c] = "new" => /\ sjid[c] \in JIDs
                               /\ wire[c].kind \in {"open", "mechanisms", "PLAIN", "SCRAM", "end"}
                               /\ wire[c].kind = "open" => wire[c].text \in Text
    BY <1>1 DEF TypeOK, Fresh
  <1>3. \A k, x : Message(k, x).kind = k /\ Message(k, x).text = x
    BY DEF Message
  <1>4. CASE Opens(c)
    <2>1. /\ wire[c].kind = "open" /\ stage[c] \in {"new", "listed", "bound"}
          /\ wire[c].text = <<>> \/ IsJID(wire[c].text)
          /\ sjid' = [sjid EXCEPT ![c] = FromHeader(sjid[c], wire[c].text)]
          /\ wire' = [wire EXCEPT ![c] = Message(Features(c), <<>>)]
          /\ UNCHANGED <<user, cjid, stage, named, parts, loaded, raced>>
      BY <1>2, <1>4 DEF Opens, IsMap
    <2>2. /\ IsMap(sjid') /\ sjid'[c] = FromHeader(sjid[c], wire[c].text)
          /\ IsMap(wire') /\ wire'[c] = Message(Features(c), <<>>)
          /\ \A d \in Conns : d # c => sjid'[d] = sjid[d] /\ wire'[d] = wire[d] /\ stage'[d] = stage[d]
      BY <1>2, <2>1 DEF IsMap
    <2>3. ASSUME stage'[c] = "new"
          PROVE  /\ stage[c] = "new" /\ sjid'[c] \in JIDs /\ wire'[c].kind = "mechanisms"
      <3>1. stage[c] = "new" /\ wire[c].text \in Text /\ sjid[c] \in JIDs
        BY <1>2, <2>1, <2>3
      <3>2. sjid'[c] \in JIDs
        BY <2>1, <2>2, <3>1, ParseIsJID DEF FromHeader
      <3>3. Features(c) = "mechanisms"
        BY <3>1 DEF Features
      <3>. QED
        BY <1>3, <2>2, <3>1, <3>2, <3>3
    <2>4. \A k \in Mechanisms : k # "mechanisms"
      BY MechanismsAssumption
    <2>. QED
      BY <1>2, <2>1, <2>2, <2>3, <2>4, OneMoves
  <1>5. CASE RefusesHeader(c) \/ FailsToAuthenticate(c)
    <2>1. /\ stage[c] \in {"new", "listed", "bound"}
          /\ stage' = [stage EXCEPT ![c] = "ended"]
          /\ wire' = [wire EXCEPT ![c] = Message("end", <<>>)]
          /\ UNCHANGED <<user, sjid, named, parts, loaded, raced>>
      BY <1>5 DEF RefusesHeader, FailsToAuthenticate
    <2>2. /\ IsMap(wire') /\ IsMap(sjid') /\ \A d \in Conns : d # c => wire'[d] = wire[d] /\ sjid'[d] = sjid[d]
      BY <1>2, <2>1 DEF IsMap
    <2>3. /\ stage' \in [Conns -> Stages] /\ stage'[c] = "ended"
          /\ \A d \in Conns : d # c => stage'[d] = stage[d]
      BY <1>2, <2>1 DEF Stages
    <2>. QED
      BY <2>1, <2>2, <2>3, OneMoves
  <1>6. CASE Binds(c)
    <2>1. /\ stage[c] = "listed" /\ stage' = [stage EXCEPT ![c] = "bound"]
          /\ \E v : sjid' = [sjid EXCEPT ![c] = v]
          /\ \E v : wire' = [wire EXCEPT ![c] = v]
          /\ UNCHANGED <<user, named, parts, loaded, raced>>
      <3>1. PICK ib : /\ sjid' = [sjid EXCEPT ![c].Resource = ib.val.Resource]
                      /\ wire' = [wire EXCEPT ![c] = Message("iq", Result(ib.val.IQ, Printed(sjid'[c])))]
        BY <1>6 DEF Binds
      <3>2. sjid' = [sjid EXCEPT ![c] = [sjid[c] EXCEPT !.Resource = ib.val.Resource]]
        BY <1>2, <3>1 DEF IsMap
      <3>. QED
        BY <1>6, <3>1, <3>2 DEF Binds
    <2>2. /\ IsMap(wire') /\ IsMap(sjid') /\ \A d \in Conns : d # c => wire'[d] = wire[d] /\ sjid'[d] = sjid[d]
      BY <1>2, <2>1 DEF IsMap
    <2>3. /\ stage' \in [Conns -> Stages] /\ stage'[c] = "bound"
          /\ \A d \in Conns : d # c => stage'[d] = stage[d]
      BY <1>2, <2>1 DEF Stages
    <2>. QED
      BY <2>1, <2>2, <2>3, OneMoves
  <1>7. CASE ToAuth(c)
    <2>1. PICK m \in Mechanisms : wire' = [wire EXCEPT ![c] = Message(m, user[c])]
      BY <1>7 DEF ToAuth
    <2>2. wire[c].kind = "mechanisms" /\ UNCHANGED <<user, sjid, stage, named, parts, loaded, raced>>
      BY <1>7 DEF ToAuth
    <2>3. /\ IsMap(wire') /\ wire'[c] = Message(m, user[c]) /\ IsMap(sjid')
          /\ \A d \in Conns : d # c => wire'[d] = wire[d]
      BY <1>2, <2>1, <2>2 DEF IsMap
    <2>4. \A d \in Conns : stage'[d] = stage[d] /\ sjid'[d] = sjid[d]
      BY <2>2
    <2>5. m \in {"PLAIN", "SCRAM"} /\ wire'[c].kind = m /\ wire'[c].text = user[c]
      BY <1>3, <2>3, MechanismsAssumption
    <2>. QED
      BY <1>2, <2>2, <2>3, <2>4, <2>5, OneMoves
  <1>8. CASE Reopens(c) \/ AsksToBind(c) \/ BoundTo(c)
    <2>1. /\ wire[c].kind \in {"success", "bind", "iq"}
          /\ \E v : wire' = [wire EXCEPT ![c] = v]
          /\ UNCHANGED <<user, sjid, stage, named, parts, loaded, raced>>
      BY <1>8 DEF Reopens, AsksToBind, BoundTo
    <2>2. /\ IsMap(wire') /\ IsMap(sjid') /\ \A d \in Conns : d # c => wire'[d] = wire[d] /\ sjid'[d] = sjid[d]
      BY <1>2, <2>1 DEF IsMap
    <2>3. \A d \in Conns : stage'[d] = stage[d]
      BY <2>1
    <2>4. stage[c] # "new"
      BY <1>2, <2>1
    <2>. QED
      BY <1>2, <2>1, <2>2, <2>3, <2>4, OneMoves
  <1>. QED
    BY <1>4, <1>5, <1>6, <1>7, <1>8

\* Every step of every connection keeps the invariant.
LEMMA IdNext == IdInv /\ [Next]_vars => IdInv'
  <1>. SUFFICES ASSUME IdInv, [Next]_vars PROVE IdInv'
    OBVIOUS
  <1>1. CASE UNCHANGED vars
    <2>1. TypeOK' /\ Fresh'
      BY <1>1 DEF vars, IdInv, TypeOK, Fresh, IsMap
    <2>2. Listing'
      BY <1>1, ListKept DEF vars, IdInv
    <2>. QED
      BY <2>1, <2>2 DEF IdInv
  <1>2. CASE Next
    BY <1>2, AuthenticatesKeeps, ListsKeeps, OthersKeep DEF Next
  <1>. QED
    BY <1>1, <1>2

\* No part is listed that did not authenticate, none twice, and none is lost
\* but to an append at the same time: for any number of connections, whatever
\* their clients send, and however their authentications overlap.
THEOREM OnlyARaceLosesAPart == Spec => []ListedUnlessRaced
  <1>1. Init => IdInv
    BY IdInit
  <1>2. IdInv /\ [Next]_vars => IdInv'
    BY IdNext
  <1>3. IdInv => ListedUnlessRaced
    BY DEF IdInv, Listing, Counted, Done, Known, Entries, ListedUnlessRaced
  <1>. QED
    BY <1>1, <1>2, <1>3, PTL DEF Spec

-----------------------------------------------------------------------------
(* Addresses that are read back *)

\* A text and another after it.
LEMMA Joined ==
    ASSUME NEW s \in Text, NEW t \in Text
    PROVE  /\ s \o t \in Text /\ Len(s \o t) = Len(s) + Len(t)
           /\ Len(s) \in Nat /\ Len(t) \in Nat
           /\ DOMAIN (s \o t) = 1 .. (Len(s) + Len(t))
           /\ \A i \in 1 .. Len(s) : (s \o t)[i] = s[i]
           /\ \A i \in 1 .. Len(t) : (s \o t)[Len(s) + i] = t[i]
           /\ \A i \in 1 .. (Len(s) + Len(t)) :
                  \/ i \in 1 .. Len(s) /\ (s \o t)[i] = s[i]
                  \/ i - Len(s) \in 1 .. Len(t) /\ (s \o t)[i] = t[i - Len(s)]
  <1>1. Len(s) \in Nat /\ Len(t) \in Nat
    BY WhereIs
  <1>2. /\ s \o t \in Text /\ Len(s \o t) = Len(s) + Len(t)
        /\ \A i \in 1 .. Len(s) + Len(t) :
               (s \o t)[i] = IF i <= Len(s) THEN s[i] ELSE t[i - Len(s)]
    BY ConcatProperties DEF Text
  <1>3. DOMAIN (s \o t) = 1 .. (Len(s) + Len(t))
    BY <1>2, WhereIs
  <1>4. \A i \in 1 .. Len(s) : (s \o t)[i] = s[i]
    BY <1>1, <1>2
  <1>5. ASSUME NEW i \in 1 .. Len(t)
        PROVE  (s \o t)[Len(s) + i] = t[i]
    <2>1. Len(s) + i \in 1 .. Len(s) + Len(t) /\ ~(Len(s) + i <= Len(s)) /\ (Len(s) + i) - Len(s) = i
      BY <1>1
    <2>. QED
      BY <1>2, <2>1
  <1>6. \A i \in 1 .. (Len(s) + Len(t)) :
            \/ i \in 1 .. Len(s) /\ (s \o t)[i] = s[i]
            \/ i - Len(s) \in 1 .. Len(t) /\ (s \o t)[i] = t[i - Len(s)]
    BY <1>1, <1>2
  <1>. QED
    BY <1>1, <1>2, <1>3, <1>4, <1>5, <1>6

\* The two halves can be cut apart.
LEMMA CutApart ==
    ASSUME NEW s \in Text, NEW t \in Text, NEW q, q = s \o t
    PROVE  /\ Len(q) = Len(s) + Len(t)
           /\ SubSeq(q, 1, Len(s)) = s
           /\ SubSeq(q, Len(s) + 1, Len(q)) = t
  <1>1. Len(s \o t) = Len(s) + Len(t) /\ Len(s) \in Nat /\ Len(t) \in Nat
    BY Joined
  <1>2. SubSeq(s \o t, 1, Len(s)) = s
    <2>1. CASE Len(s) = 0
      <3>1. s = <<>>
        BY <2>1, EmptySeq DEF Text
      <3>2. SubSeq(s \o t, 1, 0) = <<>>
        BY SubSeqEmpty
      <3>. QED
        BY <2>1, <3>1, <3>2
    <2>2. CASE Len(s) # 0
      <3>1. 1 \in 1 .. Len(s) /\ Len(s) \in 1 .. Len(s)
        BY <1>1, <2>2
      <3>2. SubSeq(s \o t, 1, Len(s)) = SubSeq(s, 1, Len(s))
        BY <3>1, SubSeqOfConcat1 DEF Text
      <3>. QED
        BY <3>2, SubSeqFull DEF Text
    <2>. QED
      BY <2>1, <2>2
  <1>3. SubSeq(s \o t, Len(s) + 1, Len(s) + Len(t)) = t
    <2>1. CASE Len(t) = 0
      <3>1. t = <<>>
        BY <2>1, EmptySeq DEF Text
      <3>2. Len(s) + 1 \in Int /\ Len(s) + Len(t) \in Int /\ Len(s) + Len(t) < Len(s) + 1
        BY <1>1, <2>1
      <3>. QED
        BY <3>1, <3>2, SubSeqEmpty
    <2>2. CASE Len(t) # 0
      <3>. DEFINE m == Len(s) + 1
                  n == Len(s) + Len(t)
      <3>1. /\ m \in Len(s) + 1 .. Len(s) + Len(t) /\ n \in Len(s) + 1 .. Len(s) + Len(t)
            /\ m - Len(s) = 1 /\ n - Len(s) = Len(t)
        BY <1>1, <2>2
      <3>. HIDE DEF m, n
      <3>2. SubSeq(s \o t, m, n) = SubSeq(t, m - Len(s), n - Len(s))
        BY <3>1, SubSeqOfConcat2 DEF Text
      <3>3. SubSeq(s \o t, m, n) = t
        BY <3>1, <3>2, SubSeqFull DEF Text
      <3>. QED
        BY <3>3 DEF m, n
    <2>. QED
      BY <2>1, <2>2
  <1>4. /\ Len(s \o t) = Len(s) + Len(t)
        /\ SubSeq(s \o t, 1, Len(s)) = s
        /\ SubSeq(s \o t, Len(s) + 1, Len(s \o t)) = t
    BY <1>1, <1>2, <1>3
  <1>. QED
    BY <1>4, Zenon

\* A character as a text.
LEMMA OneChar ==
    ASSUME NEW c \in {"@", "/"}
    PROVE  /\ <<c>> \in Text /\ Len(<<c>>) = 1 /\ <<c>>[1] = c
  <1>1. c \in Chars
    BY DEF Chars
  <1>. QED
    BY <1>1 DEF Text

\* Where a character is in two texts after each other.
LEMMA WhereJoined ==
    ASSUME NEW c, NEW s \in Text, NEW t \in Text
    PROVE  /\ \A i \in Where(c, s) : i \in Where(c, s \o t)
           /\ \A i \in Where(c, t) : Len(s) + i \in Where(c, s \o t)
           /\ \A i \in Where(c, s \o t) :
                  \/ i \in Where(c, s)
                  \/ i - Len(s) \in Where(c, t)
  <1>1. DOMAIN s = 1 .. Len(s) /\ DOMAIN t = 1 .. Len(t) /\ Len(s) \in Nat /\ Len(t) \in Nat
    BY WhereIs
  <1>2. /\ DOMAIN (s \o t) = 1 .. (Len(s) + Len(t))
        /\ \A i \in 1 .. Len(s) : (s \o t)[i] = s[i]
        /\ \A i \in 1 .. Len(t) : (s \o t)[Len(s) + i] = t[i]
        /\ \A i \in 1 .. (Len(s) + Len(t)) :
               \/ i \in 1 .. Len(s) /\ (s \o t)[i] = s[i]
               \/ i - Len(s) \in 1 .. Len(t) /\ (s \o t)[i] = t[i - Len(s)]
    BY Joined
  <1>. DEFINE q == s \o t
  <1>. HIDE DEF q
  <1>3. /\ DOMAIN q = 1 .. (Len(s) + Len(t))
        /\ \A i \in 1 .. Len(s) : q[i] = s[i]
        /\ \A i \in 1 .. Len(t) : q[Len(s) + i] = t[i]
        /\ \A i \in 1 .. (Len(s) + Len(t)) :
               \/ i \in 1 .. Len(s) /\ q[i] = s[i]
               \/ i - Len(s) \in 1 .. Len(t) /\ q[i] = t[i - Len(s)]
    BY <1>2 DEF q
  <1>4. \A i \in Where(c, s) : i \in Where(c, q)
    BY <1>1, <1>3 DEF Where
  <1>5. \A i \in Where(c, t) : Len(s) + i \in Where(c, q)
    BY <1>1, <1>3 DEF Where
  <1>6. \A i \in Where(c, q) : i \in Where(c, s) \/ i - Len(s) \in Where(c, t)
    BY <1>1, <1>3 DEF Where
  <1>. QED
    BY <1>4, <1>5, <1>6 DEF q

\* What is left of a text without its outer slashes begins and ends with
\* something else, and has no other characters.
LEMMA TrimShape ==
    ASSUME NEW t \in Text, Trim(t) # <<>>
    PROVE  /\ Trim(t) \in Text /\ Len(Trim(t)) >= 1
           /\ Trim(t)[1] # "/" /\ Trim(t)[Len(Trim(t))] # "/"
           /\ \A c : Where(c, t) = {} => Where(c, Trim(t)) = {}
  <1>. DEFINE kept == DOMAIN t \ Where("/", t)
              m == Min(kept)
              n == Max(kept)
              z == SubSeq(t, m, n)
  <1>1. /\ kept \in SUBSET (1 .. Len(t)) /\ kept \in SUBSET Nat /\ Len(t) \in Nat
        /\ DOMAIN t = 1 .. Len(t) /\ \A i \in 1 .. Len(t) : t[i] \in Chars
        /\ \A i \in kept : i \in Nat /\ i >= 1 /\ i <= Len(t) /\ t[i] # "/"
    BY WhereIs DEF Where
  <1>2. kept # {} /\ Trim(t) = z
    BY DEF Trim
  <1>. HIDE DEF kept
  <1>3. m \in kept /\ n \in kept /\ \A y \in kept : m <= y /\ n >= y
    BY <1>1, <1>2, MinIs, MaxIs
  <1>. HIDE DEF m, n
  <1>4. m \in Nat /\ n \in Nat /\ m >= 1 /\ n <= Len(t) /\ m <= n /\ t[m] # "/" /\ t[n] # "/"
    BY <1>1, <1>3
  <1>5. /\ z \in Seq(Chars) /\ Len(z) = n - m + 1
        /\ \A i \in 1 .. n - m + 1 : z[i] = t[m + i - 1]
    <2>1. m \in Int /\ n \in Int /\ \A i \in m .. n : t[i] \in Chars
      BY <1>1, <1>4
    <2>2. /\ z \in Seq(Chars) /\ Len(z) = (IF m <= n THEN n - m + 1 ELSE 0)
          /\ \A i \in 1 .. n - m + 1 : z[i] = t[m + i - 1]
      BY <2>1, SubSeqProperties
    <2>. QED
      BY <1>4, <2>2
  <1>. HIDE DEF z
  <1>6. Len(z) >= 1 /\ z[1] = t[m] /\ z[Len(z)] = t[n]
    <2>1. m + 1 - 1 = m /\ m + (n - m + 1) - 1 = n /\ 1 \in 1 .. n - m + 1 /\ n - m + 1 \in 1 .. n - m + 1
      BY <1>4
    <2>. QED
      BY <1>4, <1>5, <2>1
  <1>7. ASSUME NEW c, Where(c, t) = {}
        PROVE  Where(c, z) = {}
    <2>1. DOMAIN z = 1 .. n - m + 1
      BY <1>5, LenProperties
    <2>2. ASSUME NEW i \in DOMAIN z
          PROVE  z[i] # c
      <3>1. i \in 1 .. n - m + 1 /\ m + i - 1 \in 1 .. Len(t)
        BY <1>1, <1>4, <2>1
      <3>. QED
        BY <1>1, <1>5, <1>7, <3>1 DEF Where
    <2>. QED
      BY <2>2 DEF Where
  <1>. QED
    BY <1>2, <1>4, <1>5, <1>6, <1>7 DEF Text

\* What is kept of a resource with its slash is printed like what was printed.
LEMMA TrimOfKept ==
    /\ Trim(<<>>) = <<>>
    /\ \A t \in Text : Trim(t) # <<>> => Trim(<<"/">> \o Trim(t)) = Trim(t)
  <1>1. Trim(<<>>) = <<>>
    BY DEF Trim
  <1>2. ASSUME NEW t \in Text, Trim(t) # <<>>
        PROVE  Trim(<<"/">> \o Trim(t)) = Trim(t)
    <2>. DEFINE z == Trim(t)
                q == <<"/">> \o z
                kept == DOMAIN q \ Where("/", q)
    <2>1. z \in Text /\ Len(z) >= 1 /\ z[1] # "/" /\ z[Len(z)] # "/" /\ Len(z) \in Nat
      BY <1>2, TrimShape, WhereIs
    <2>. HIDE DEF z
    <2>2. <<"/">> \in Text /\ Len(<<"/">>) = 1 /\ <<"/">>[1] = "/"
      BY OneChar
    <2>3. /\ q \in Text /\ Len(q) = 1 + Len(z) /\ DOMAIN q = 1 .. 1 + Len(z)
          /\ q[1] = "/" /\ \A i \in 1 .. Len(z) : q[1 + i] = z[i]
          /\ SubSeq(q, 1 + 1, Len(q)) = z
      <3>1. 1 \in 1 .. Len(<<"/">>)
        BY <2>2
      <3>2. SubSeq(q, Len(<<"/">>) + 1, Len(q)) = z
        BY <2>1, <2>2, CutApart
      <3>3. q \in Text /\ Len(q) = Len(<<"/">>) + Len(z) /\ DOMAIN q = 1 .. Len(<<"/">>) + Len(z)
            /\ (\A i \in 1 .. Len(<<"/">>) : q[i] = <<"/">>[i])
            /\ \A i \in 1 .. Len(z) : q[Len(<<"/">>) + i] = z[i]
        BY <2>1, <2>2, Joined
      <3>. HIDE DEF q
      <3>. QED
        BY <2>2, <3>1, <3>2, <3>3
    <2>. HIDE DEF q
    <2>4. q[2] # "/" /\ q[1 + Len(z)] # "/"
      <3>1. 1 \in 1 .. Len(z) /\ Len(z) \in 1 .. Len(z) /\ 1 + 1 = 2
        BY <2>1
      <3>. QED
        BY <2>1, <2>3, <3>1
    <2>5. 2 \in kept /\ 1 + Len(z) \in kept /\ \A i \in kept : i >= 2 /\ i <= 1 + Len(z)
      <3>1. 2 \in DOMAIN q /\ 1 + Len(z) \in DOMAIN q
        BY <2>1, <2>3
      <3>2. \A i \in DOMAIN q : i >= 1 /\ i <= 1 + Len(z) /\ i \in Nat
        BY <2>1, <2>3
      <3>. QED
        BY <2>3, <2>4, <3>1, <3>2 DEF Where
    <2>6. kept \in SUBSET (1 .. 1 + Len(z)) /\ kept \in SUBSET Nat /\ kept # {} /\ 1 + Len(z) \in Nat
      BY <2>1, <2>3, <2>5
    <2>7. Trim(q) = SubSeq(q, Min(kept), Max(kept))
      BY <2>6 DEF Trim
    <2>. HIDE DEF kept
    <2>8. Min(kept) = 2
      <3>1. Min(kept) \in kept /\ \A y \in kept : Min(kept) <= y
        BY <2>6, MinIs
      <3>2. Min(kept) >= 2 /\ Min(kept) <= 2 /\ Min(kept) \in Nat
        BY <2>5, <2>6, <3>1
      <3>. QED
        BY <3>2
    <2>9. Max(kept) = 1 + Len(z)
      <3>1. Max(kept) \in kept /\ \A y \in kept : Max(kept) >= y
        BY <2>6, MaxIs
      <3>2. Max(kept) >= 1 + Len(z) /\ Max(kept) <= 1 + Len(z) /\ Max(kept) \in Nat
        BY <2>5, <2>6, <3>1
      <3>. QED
        BY <2>1, <3>2
    <2>10. Trim(q) = z
      <3>1. 1 + 1 = 2
        OBVIOUS
      <3>. QED
        BY <2>3, <2>7, <2>8, <2>9, <3>1
    <2>. QED
      BY <2>10 DEF q, z
  <1>. QED
    BY <1>1, <1>2

\* One text after the other, as an operator with no meaning of its own.
Join(s, t) == s \o t

\* Texts after each other are grouped at will.
LEMMA Regrouped ==
    /\ \A s, t \in Text : Join(s, t) \in Text
    /\ \A s, t, v \in Text : Join(Join(s, t), v) = Join(s, Join(t, v))
  BY ConcatProperties, ConcatAssociative DEF Text, Join

\* What is printed after the "@".
After(jid) ==
    IF Trim(jid.Resource) # <<>> THEN jid.Domain \o (<<"/">> \o Trim(jid.Resource)) ELSE jid.Domain

LEMMA PrintedInTwo ==
    ASSUME NEW jid \in JIDs
    PROVE  /\ jid.Username \in Text /\ jid.Domain \in Text /\ jid.Resource \in Text
           /\ Trim(jid.Resource) \in Text /\ After(jid) \in Text
           /\ <<"@">> \o After(jid) \in Text /\ jid.Username \o <<"@">> \in Text
           /\ Printed(jid) = jid.Username \o (<<"@">> \o After(jid))
           /\ Printed(jid) = (jid.Username \o <<"@">>) \o After(jid)
  <1>. DEFINE u == jid.Username
              d == jid.Domain
              z == Trim(jid.Resource)
              a == <<"@">>
              s == <<"/">>
  <1>1. u \in Text /\ d \in Text /\ jid.Resource \in Text
    BY DEF JIDs
  <1>2. z \in Text /\ a \in Text /\ s \in Text
    BY <1>1, TrimIsText, OneChar
  <1>3. Printed(jid) = IF z # <<>> THEN Join(Join(Join(Join(u, a), d), s), z) ELSE Join(Join(u, a), d)
    BY DEF Printed, Join
  <1>4. After(jid) = IF z # <<>> THEN Join(d, Join(s, z)) ELSE d
    BY DEF After, Join
  <1>. HIDE DEF u, d, z, a, s
  <1>5. /\ Join(u, a) \in Text /\ Join(s, z) \in Text /\ Join(d, Join(s, z)) \in Text
        /\ Join(Join(u, a), d) \in Text
    BY <1>1, <1>2, Regrouped
  <1>6. Join(Join(Join(Join(u, a), d), s), z) = Join(Join(u, a), Join(d, Join(s, z)))
    <2>1. Join(Join(Join(Join(u, a), d), s), z) = Join(Join(Join(u, a), d), Join(s, z))
      BY <1>2, <1>5, Regrouped
    <2>2. Join(Join(Join(u, a), d), Join(s, z)) = Join(Join(u, a), Join(d, Join(s, z)))
      BY <1>1, <1>5, Regrouped
    <2>. QED
      BY <2>1, <2>2
  <1>7. After(jid) \in Text /\ Printed(jid) = Join(Join(u, a), After(jid))
    BY <1>1, <1>3, <1>4, <1>5, <1>6
  <1>8. Join(Join(u, a), After(jid)) = Join(u, Join(a, After(jid))) /\ Join(a, After(jid)) \in Text
    BY <1>1, <1>2, <1>7, Regrouped
  <1>9. /\ jid.Username \o <<"@">> \in Text /\ <<"@">> \o After(jid) \in Text
        /\ Printed(jid) = jid.Username \o (<<"@">> \o After(jid))
        /\ Printed(jid) = (jid.Username \o <<"@">>) \o After(jid)
    <2>1. /\ Join(jid.Username, <<"@">>) \in Text /\ Join(<<"@">>, After(jid)) \in Text
          /\ Printed(jid) = Join(jid.Username, Join(<<"@">>, After(jid)))
          /\ Printed(jid) = Join(Join(jid.Username, <<"@">>), After(jid))
      BY <1>5, <1>7, <1>8 DEF u, a
    <2>. QED
      BY <2>1, Zenon DEF Join
  <1>. QED
    BY <1>1, <1>2, <1>7, <1>9 DEF u, d, z

\* An address has its one "@" after the user.
LEMMA PrintedAt ==
    ASSUME NEW jid \in JIDs
    PROVE  /\ Len(jid.Username) + 1 \in Where("@", Printed(jid))
           /\ IsJID(Printed(jid)) <=> Where("@", jid.Username) = {} /\ Where("@", After(jid)) = {}
  <1>. DEFINE u == jid.Username
              v == After(jid)
              q == Printed(jid)
  <1>1. u \in Text /\ v \in Text /\ <<"@">> \in Text /\ <<"@">> \o v \in Text /\ q = u \o (<<"@">> \o v)
        /\ Len(<<"@">>) = 1 /\ Len(u) \in Nat
    BY PrintedInTwo, OneChar, WhereIs
  <1>. HIDE DEF u, v
  <1>2. /\ \A i \in Where("@", u) : i \in Where("@", q)
        /\ \A i \in Where("@", <<"@">> \o v) : Len(u) + i \in Where("@", q)
        /\ \A i \in Where("@", q) : i \in Where("@", u) \/ i - Len(u) \in Where("@", <<"@">> \o v)
    BY <1>1, WhereJoined
  <1>3. /\ \A i \in Where("@", <<"@">>) : i \in Where("@", <<"@">> \o v)
        /\ \A i \in Where("@", v) : 1 + i \in Where("@", <<"@">> \o v)
        /\ \A i \in Where("@", <<"@">> \o v) : i \in Where("@", <<"@">>) \/ i - 1 \in Where("@", v)
    BY <1>1, WhereJoined
  <1>4. \A i : i \in Where("@", <<"@">>) <=> i = 1
    BY DEF Where
  <1>5. /\ \A i \in Where("@", u) : i \in Nat /\ i >= 1 /\ i <= Len(u)
        /\ \A i \in Where("@", v) : i \in Nat /\ i >= 1
        /\ \A i \in Where("@", q) : i \in Nat
    BY <1>1, WhereIs, PrintedIsText
  <1>. HIDE DEF q
  <1>6. Len(u) + 1 \in Where("@", q)
    BY <1>2, <1>3, <1>4
  <1>7. IsJID(q) <=> \E i \in DOMAIN q : Where("@", q) = {i}
    BY DEF IsJID
  <1>8. \A i \in Where("@", q) : i \in DOMAIN q
    BY DEF Where
  <1>9. ASSUME IsJID(q)
        PROVE  Where("@", u) = {} /\ Where("@", v) = {}
    <2>1. Where("@", q) = {Len(u) + 1}
      BY <1>6, <1>7, <1>9
    <2>2. \A i \in Where("@", u) : FALSE
      BY <1>1, <1>2, <1>5, <2>1
    <2>3. \A i \in Where("@", v) : Len(u) + (1 + i) \in Where("@", q)
      BY <1>2, <1>3
    <2>4. \A i \in Where("@", v) : FALSE
      BY <1>1, <1>5, <2>1, <2>3
    <2>. QED
      BY <2>2, <2>4
  <1>10. ASSUME Where("@", u) = {}, Where("@", v) = {}
         PROVE  IsJID(q)
    <2>1. \A i \in Where("@", q) : i = Len(u) + 1
      <3>. SUFFICES ASSUME NEW i \in Where("@", q) PROVE i = Len(u) + 1
        OBVIOUS
      <3>1. i - Len(u) = 1
        BY <1>2, <1>3, <1>4, <1>10
      <3>. QED
        BY <1>1, <1>5, <3>1
    <2>2. Where("@", q) = {Len(u) + 1}
      BY <1>6, <2>1
    <2>. QED
      BY <1>6, <1>7, <1>8, <2>2
  <1>. QED
    BY <1>6, <1>9, <1>10 DEF u, v, q

\* An address is read back as it was printed: the resource with a slash before
\* it, and without one the resource of before.
LEMMA ReadBack ==
    ASSUME NEW jid \in JIDs, NEW old, IsJID(Printed(jid)),
           jid.Domain # <<>>, Where("/", jid.Domain) = {}
    PROVE  ParseJID(Printed(jid), old) =
               IF Trim(jid.Resource) # <<>>
               THEN JID(jid.Username, jid.Domain, <<"/">> \o Trim(jid.Resource))
               ELSE [old EXCEPT !.Username = jid.Username, !.Domain = jid.Domain]
  <1>. DEFINE u     == jid.Username
              d     == jid.Domain
              z     == Trim(jid.Resource)
              src   == Printed(jid)
              at    == CHOOSE i \in DOMAIN src : src[i] = "@"
              v     == SubSeq(src, at + 1, Len(src))
              slash == Where("/", v)
  <1>1. /\ u \in Text /\ d \in Text /\ z \in Text /\ After(jid) \in Text
        /\ u \o <<"@">> \in Text /\ <<"@">> \o After(jid) \in Text
        /\ src = u \o (<<"@">> \o After(jid)) /\ src = (u \o <<"@">>) \o After(jid)
    BY PrintedInTwo
  <1>2. /\ Len(u) \in Nat /\ Len(d) \in Nat
        /\ <<"@">> \in Text /\ Len(<<"@">>) = 1 /\ <<"/">> \in Text /\ Len(<<"/">>) = 1 /\ <<"/">>[1] = "/"
    BY <1>1, WhereIs, OneChar
  <1>3. at = Len(u) + 1
    <2>1. PICK i \in DOMAIN src : Where("@", src) = {i}
      BY DEF IsJID
    <2>2. Len(u) + 1 \in Where("@", src)
      BY PrintedAt
    <2>3. at \in Where("@", src)
      <3>1. src[i] = "@"
        BY <2>1 DEF Where
      <3>2. at \in DOMAIN src /\ src[at] = "@"
        BY <3>1
      <3>. QED
        BY <3>2 DEF Where
    <2>. HIDE DEF at, src
    <2>. QED
      BY <2>1, <2>2, <2>3
  <1>4. SubSeq(src, 1, at - 1) = u
    <2>. HIDE DEF src, u, at
    <2>1. PICK w \in Text : w = <<"@">> \o After(jid)
      BY <1>1
    <2>2. src = u \o w /\ u \in Text
      BY <1>1, <2>1, Zenon
    <2>3. SubSeq(src, 1, Len(u)) = u
      BY <2>2, CutApart
    <2>4. at - 1 = Len(u)
      BY <1>2, <1>3
    <2>. QED
      BY <2>3, <2>4
  <1>5. v = After(jid)
    <2>. HIDE DEF src, u, at
    <2>1. PICK w \in Text : w = u \o <<"@">>
      BY <1>1
    <2>2. Len(w) = Len(u) + 1
      BY <1>1, <1>2, <2>1, CutApart
    <2>3. src = w \o After(jid)
      BY <1>1, <2>1, Zenon
    <2>4. SubSeq(src, Len(w) + 1, Len(src)) = After(jid)
      BY <1>1, <2>3, CutApart
    <2>. QED
      BY <1>3, <2>2, <2>4
  <1>6. ParseJID(src, old) =
            IF slash # {} /\ Min(slash) > 1
            THEN JID(u, SubSeq(v, 1, Min(slash) - 1), SubSeq(v, Min(slash), Len(v)))
            ELSE [old EXCEPT !.Username = u, !.Domain = v]
    <2>. HIDE DEF slash, v, at, src
    <2>1. ParseJID(src, old) =
              IF slash # {} /\ Min(slash) > 1
              THEN JID(SubSeq(src, 1, at - 1), SubSeq(v, 1, Min(slash) - 1), SubSeq(v, Min(slash), Len(v)))
              ELSE [old EXCEPT !.Username = SubSeq(src, 1, at - 1), !.Domain = v]
      BY Zenon DEF ParseJID, slash, v, at
    <2>. QED
      BY <1>4, <2>1
  <1>. HIDE DEF at, v, src
  <1>7. CASE z = <<>>
    <2>1. v = d
      BY <1>5, <1>7 DEF After
    <2>2. slash = {}
      BY <2>1
    <2>. QED
      BY <1>6, <1>7, <2>1, <2>2 DEF src
  <1>8. CASE z # <<>>
    <2>. DEFINE s == <<"/">> \o z
    <2>1. s \in Text /\ v = d \o s
      <3>1. v = d \o (<<"/">> \o z)
        BY <1>5, <1>8 DEF After
      <3>. QED
        BY <1>1, <1>2, <3>1, Joined
    <2>2. 1 \in Where("/", s)
      <3>1. 1 \in Where("/", <<"/">>)
        BY <1>2 DEF Where
      <3>. QED
        BY <1>1, <1>2, <3>1, WhereJoined
    <2>. HIDE DEF s, z
    <2>3. Len(s) \in Nat /\ (\A i \in Where("/", s) : i \in Nat /\ i >= 1)
          /\ slash \in SUBSET Nat /\ Len(v) = Len(d) + Len(s)
      <3>1. v \in Text /\ Len(v) = Len(d) + Len(s)
        BY <1>1, <2>1, Joined
      <3>. QED
        BY <2>1, <3>1, WhereIs
    <2>4. /\ Len(d) + 1 \in slash
          /\ \A i \in slash : i >= Len(d) + 1
      <3>1. /\ \A i \in Where("/", s) : Len(d) + i \in slash
            /\ \A i \in slash : i \in Where("/", d) \/ i - Len(d) \in Where("/", s)
        BY <1>1, <2>1, WhereJoined
      <3>2. ASSUME NEW i \in slash PROVE i >= Len(d) + 1
        <4>1. i - Len(d) \in Where("/", s) /\ i \in Nat
          BY <2>3, <3>1
        <4>2. i - Len(d) >= 1
          BY <2>3, <4>1
        <4>. QED
          BY <1>2, <4>1, <4>2
      <3>. QED
        BY <2>2, <3>1, <3>2
    <2>. HIDE DEF slash
    <2>5. Min(slash) = Len(d) + 1 /\ slash # {}
      <3>1. Min(slash) \in slash /\ \A y \in slash : Min(slash) <= y
        BY <2>3, <2>4, MinIs
      <3>2. Min(slash) >= Len(d) + 1 /\ Min(slash) <= Len(d) + 1 /\ Min(slash) \in Nat
        BY <2>3, <2>4, <3>1
      <3>. QED
        BY <1>2, <2>4, <3>2
    <2>6. Len(d) > 0
      BY <1>1, <1>2, EmptySeq DEF Text
    <2>7. SubSeq(v, 1, Len(d)) = d /\ SubSeq(v, Len(d) + 1, Len(v)) = s
      <3>1. d \in Text
        BY <1>1
      <3>. HIDE DEF d
      <3>. QED
        BY <2>1, <3>1, CutApart
    <2>8. Min(slash) > 1 /\ Min(slash) - 1 = Len(d)
      BY <1>2, <2>5, <2>6
    <2>9. ParseJID(src, old) = JID(u, d, s)
      BY <1>6, <2>5, <2>7, <2>8
    <2>. QED
      BY <1>8, <2>9 DEF src, s, z
  <1>. QED
    BY <1>7, <1>8

\* What is printed depends on the resource without its outer slashes.
LEMMA PrintedAlike ==
    ASSUME NEW j, NEW k, j.Username = k.Username, j.Domain = k.Domain, Trim(j.Resource) = Trim(k.Resource)
    PROVE  Printed(j) = Printed(k)
  BY DEF Printed

\* Who could be read can be read with another resource that has no "@".
LEMMA StillJID ==
    ASSUME NEW j \in JIDs, NEW k \in JIDs, IsJID(Printed(j)),
           j.Username = k.Username, j.Domain = k.Domain, Where("@", k.Resource) = {}
    PROVE  IsJID(Printed(k))
  <1>. DEFINE d == k.Domain
              z == Trim(k.Resource)
  <1>1. Where("@", j.Username) = {} /\ Where("@", After(j)) = {}
    BY PrintedAt
  <1>2. d \in Text /\ z \in Text /\ <<"/">> \in Text /\ <<"/">> \o Trim(j.Resource) \in Text
        /\ <<"/">> \o z \in Text /\ k.Resource \in Text
    BY PrintedInTwo, OneChar, Joined
  <1>3. Where("@", d) = {}
    <2>1. CASE Trim(j.Resource) # <<>>
      <3>1. After(j) = d \o (<<"/">> \o Trim(j.Resource))
        BY <2>1 DEF After
      <3>2. \A i \in Where("@", d) : i \in Where("@", d \o (<<"/">> \o Trim(j.Resource)))
        BY <1>2, WhereJoined
      <3>. QED
        BY <1>1, <3>1, <3>2
    <2>2. CASE Trim(j.Resource) = <<>>
      BY <1>1, <2>2 DEF After
    <2>. QED
      BY <2>1, <2>2
  <1>4. Where("@", After(k)) = {}
    <2>1. CASE z # <<>>
      <3>1. Where("@", z) = {}
        BY <1>2, <2>1, TrimShape
      <3>2. Where("@", <<"/">>) = {}
        BY DEF Where
      <3>3. Where("@", <<"/">> \o z) = {}
        <4>1. \A i \in Where("@", <<"/">> \o z) :
                  i \in Where("@", <<"/">>) \/ i - Len(<<"/">>) \in Where("@", z)
          BY <1>2, WhereJoined
        <4>. QED
          BY <3>1, <3>2, <4>1
      <3>. DEFINE s == <<"/">> \o z
      <3>4. s \in Text /\ Where("@", s) = {} /\ After(k) = d \o s
        BY <1>2, <2>1, <3>3 DEF After
      <3>. HIDE DEF s
      <3>5. \A i \in Where("@", d \o s) : i \in Where("@", d) \/ i - Len(d) \in Where("@", s)
        BY <1>2, <3>4, WhereJoined
      <3>. QED
        BY <1>3, <3>4, <3>5
    <2>2. CASE z = <<>>
      BY <1>3, <2>2 DEF After
    <2>. QED
      BY <2>1, <2>2
  <1>. QED
    BY <1>1, <1>4, PrintedAt

-----------------------------------------------------------------------------
(* Bindings that are read back *)

\* An element with one child, and one with none.
LEMMA OneKid ==
    ASSUME NEW name, NEW attrs, NEW kid
    PROVE  /\ Elem(name, attrs, <<kid>>).name = name /\ Elem(name, attrs, <<kid>>).attrs = attrs
           /\ \A n : HasChild(Elem(name, attrs, <<kid>>), n) <=> kid.name = n
           /\ Child(Elem(name, attrs, <<kid>>), kid.name) = kid
           /\ \A n : ~HasChild(Elem(name, attrs, <<>>), n)
  <1>. DEFINE e == Elem(name, attrs, <<kid>>)
  <1>1. e.name = name /\ e.attrs = attrs /\ e.kids = <<kid>>
    BY DEF Elem
  <1>2. DOMAIN <<kid>> = {1} /\ <<kid>>[1] = kid
    OBVIOUS
  <1>3. \A n : Named(e, n) = IF kid.name = n THEN {1} ELSE {}
    BY <1>1, <1>2 DEF Named
  <1>4. Child(e, kid.name) = kid
    <2>. HIDE DEF e
    <2>1. Named(e, kid.name) = {1}
      BY <1>3
    <2>2. (CHOOSE i \in Named(e, kid.name) : \A j \in Named(e, kid.name) : i <= j) = 1
      BY <2>1
    <2>. QED
      BY <1>1, <1>2, <2>2 DEF Child
  <1>5. \A n : Named(Elem(name, attrs, <<>>), n) = {}
    BY DEF Named, Elem
  <1>. QED
    BY <1>1, <1>3, <1>4, <1>5 DEF HasChild

\* The attributes of a stanza.
LEMMA StanzaRead ==
    ASSUME NEW t, NEW i, NEW f, NEW to, NEW kids, NEW old
    PROVE  LET e == StanzaToElem(Stanza("iq", t, i, f, to), kids)
           IN  /\ e.name = "iq" /\ e.kids = kids
               /\ StanzaFromElem(old, e, "iq") = Read(Stanza("iq", t, i, f, to))
  BY DEF StanzaToElem, StanzaFromElem, Stanza, NoAttrs, Elem, Read

\* What is read from an iq with a <bind/>.
LEMMA BindRead ==
    ASSUME NEW s, \E t, i, f, to : s = Stanza("iq", t, i, f, to),
           NEW b, b.name = "bind", b.attrs["xmlns"] = NSBind,
           NEW e, e = StanzaToElem(s, <<b>>),
           NEW m, m = [NoIqBind EXCEPT !.IQ = s]
    PROVE  IqBindFromElem(NoIqBind, e) =
               IF HasChild(b, "resource") THEN Read([m EXCEPT !.Resource = Child(b, "resource").text])
               ELSE IF HasChild(b, "jid") THEN Read([m EXCEPT !.JID = Child(b, "jid").text])
               ELSE Read(m)
  <1>. DEFINE r == StanzaFromElem(NoIqBind.IQ, e, "iq")
  <1>1. r = Read(s)
    BY StanzaRead
  <1>3. HasChild(e, "bind") /\ Child(e, "bind") = b
    <2>1. \E a : e = Elem("iq", a, <<b>>)
      BY DEF StanzaToElem, Stanza
    <2>. QED
      BY <2>1, OneKid
  <1>4. r.ok /\ r.val = s
    BY <1>1 DEF Read
  <1>. HIDE DEF r
  <1>5. IqBindFromElem(NoIqBind, e) =
            IF ~r.ok \/ ~HasChild(e, "bind") THEN Refused([NoIqBind EXCEPT !.IQ = r.val])
            ELSE IF Child(e, "bind").attrs["xmlns"] # NSBind THEN Refused([NoIqBind EXCEPT !.IQ = r.val])
            ELSE IF HasChild(Child(e, "bind"), "resource")
            THEN Read([[NoIqBind EXCEPT !.IQ = r.val] EXCEPT !.Resource = Child(Child(e, "bind"), "resource").text])
            ELSE IF HasChild(Child(e, "bind"), "jid")
            THEN Read([[NoIqBind EXCEPT !.IQ = r.val] EXCEPT !.JID = Child(Child(e, "bind"), "jid").text])
            ELSE Read([NoIqBind EXCEPT !.IQ = r.val])
    BY Zenon DEF IqBindFromElem, r
  <1>6. [NoIqBind EXCEPT !.IQ = r.val] = m
    BY <1>4
  <1>. QED
    BY <1>3, <1>4, <1>5, <1>6

Request(c, r)  == IqBindToElem(IqBind(Stanza("iq", TypeSet, <<c>>, None, None), r, None))
Response(c, j) == IqBindToElem(IqBind(Stanza("iq", TypeResult, <<c>>, Domain, None), None, j))

\* The server reads what the client asks for, and its id.
LEMMA RequestRead ==
    ASSUME NEW c, NEW r, NEW ib, ib = IqBindFromElem(NoIqBind, Request(c, r))
    PROVE  ib.ok /\ ib.val.Resource = r /\ ib.val.IQ = Stanza("iq", TypeSet, <<c>>, None, None)
  <1>. DEFINE s == Stanza("iq", TypeSet, <<c>>, None, None)
  <1>1. PICK kids : kids = IF r # None THEN <<Leaf("resource", r)>> ELSE <<>>
    OBVIOUS
  <1>2. PICK b : b = Elem("bind", [NoAttrs EXCEPT !["xmlns"] = NSBind], kids)
    OBVIOUS
  <1>3. PICK m : m = [NoIqBind EXCEPT !.IQ = s]
    OBVIOUS
  <1>4. Request(c, r) = StanzaToElem(s, <<b>>)
    <2>1. TypeSet # TypeResult
      BY DEF TypeSet, TypeResult
    <2>. QED
      BY <1>1, <1>2, <2>1 DEF Request, IqBindToElem, IqBind, Stanza
  <1>5. ib = IF HasChild(b, "resource") THEN Read([m EXCEPT !.Resource = Child(b, "resource").text])
             ELSE IF HasChild(b, "jid") THEN Read([m EXCEPT !.JID = Child(b, "jid").text])
             ELSE Read(m)
    <2>1. PICK e : e = StanzaToElem(s, <<b>>)
      OBVIOUS
    <2>2. ib = IqBindFromElem(NoIqBind, e)
      BY <1>4, <2>1
    <2>3. b.name = "bind" /\ b.attrs["xmlns"] = NSBind
      BY <1>2 DEF Elem, NoAttrs
    <2>4. \E t, i, f, to : s = Stanza("iq", t, i, f, to)
      OBVIOUS
    <2>. HIDE DEF s
    <2>. QED
      BY <1>3, <2>1, <2>2, <2>3, <2>4, BindRead
  <1>6. PICK v : v = [m EXCEPT !.Resource = r]
    OBVIOUS
  <1>7. v.IQ = s /\ v.Resource = r /\ m.IQ = s /\ m.Resource = None
    BY <1>3, <1>6 DEF NoIqBind, IqBind
  <1>8. \A w : Read(w).ok /\ Read(w).val = w
    BY DEF Read
  <1>. HIDE DEF s
  <1>9. CASE r # None
    <2>1. Leaf("resource", r).name = "resource" /\ Leaf("resource", r).text = r
      BY DEF Leaf
    <2>2. HasChild(b, "resource") /\ Child(b, "resource").text = r
      BY <1>1, <1>2, <1>9, <2>1, OneKid
    <2>3. ib = Read(v)
      BY <1>5, <1>6, <2>2
    <2>. QED
      BY <1>7, <1>8, <2>3 DEF s
  <1>10. CASE r = None
    <2>1. \A n : ~HasChild(b, n)
      BY <1>1, <1>2, <1>10, OneKid
    <2>2. ib = Read(m)
      BY <1>5, <2>1
    <2>. QED
      BY <1>7, <1>8, <1>10, <2>2 DEF s
  <1>. QED
    BY <1>9, <1>10

\* The client reads the JID that was bound.
LEMMA ResponseRead ==
    ASSUME NEW c, NEW j, j # None, NEW ib, ib = IqBindFromElem(NoIqBind, Response(c, j))
    PROVE  ib.ok /\ ib.val.JID = j /\ ib.val.IQ.ID = <<c>>
  <1>. DEFINE s == Stanza("iq", TypeResult, <<c>>, Domain, None)
  <1>1. PICK kids : kids = <<Leaf("jid", j)>>
    OBVIOUS
  <1>2. PICK b : b = Elem("bind", [NoAttrs EXCEPT !["xmlns"] = NSBind], kids)
    OBVIOUS
  <1>3. PICK m : m = [NoIqBind EXCEPT !.IQ = s]
    OBVIOUS
  <1>4. Response(c, j) = StanzaToElem(s, <<b>>)
    <2>1. TypeSet # TypeResult
      BY DEF TypeSet, TypeResult
    <2>. QED
      BY <1>1, <1>2, <2>1 DEF Response, IqBindToElem, IqBind, Stanza
  <1>5. ib = IF HasChild(b, "resource") THEN Read([m EXCEPT !.Resource = Child(b, "resource").text])
             ELSE IF HasChild(b, "jid") THEN Read([m EXCEPT !.JID = Child(b, "jid").text])
             ELSE Read(m)
    <2>1. PICK e : e = StanzaToElem(s, <<b>>)
      OBVIOUS
    <2>2. ib = IqBindFromElem(NoIqBind, e)
      BY <1>4, <2>1
    <2>3. b.name = "bind" /\ b.attrs["xmlns"] = NSBind
      BY <1>2 DEF Elem, NoAttrs
    <2>4. \E t, i, f, to : s = Stanza("iq", t, i, f, to)
      OBVIOUS
    <2>. HIDE DEF s
    <2>. QED
      BY <1>3, <2>1, <2>2, <2>3, <2>4, BindRead
  <1>6. PICK v : v = [m EXCEPT !.JID = j]
    OBVIOUS
  <1>7. v.IQ = s /\ v.JID = j /\ s.ID = <<c>>
    BY <1>3, <1>6 DEF NoIqBind, IqBind, Stanza
  <1>8. Read(v).ok /\ Read(v).val = v
    BY DEF Read
  <1>. HIDE DEF s
  <1>9. ~HasChild(b, "resource") /\ HasChild(b, "jid") /\ Child(b, "jid").text = j
    <2>1. Leaf("jid", j).name = "jid" /\ Leaf("jid", j).text = j
      BY DEF Leaf
    <2>. QED
      BY <1>1, <1>2, <2>1, OneKid
  <1>10. ib = Read(v)
    BY <1>5, <1>6, <1>9
  <1>. QED
    BY <1>7, <1>8, <1>10

-----------------------------------------------------------------------------
(* What both ends know of each other *)

\* Names that an address can be read back from: a user and a domain that are
\* not empty, no slash in the domain, and no "@" in a resource to bind.
Addressable ==
    /\ <<>> \notin Users /\ Domain # <<>> /\ Where("/", Domain) = {}
    /\ \A r \in Asked : Where("@", r) = {}

\* Nobody asks for a resource of slashes alone.
Findable == \A r \in Asked : r = <<>> \/ Trim(r) # <<>>

\* The resource of both ends is printed alike, and the server can read the
\* address of the client.
Alike(c) == Trim(sjid[c].Resource) = Trim(cjid[c].Resource) /\ IsJID(Printed(cjid[c]))

\* The server knows the user.
NamedBy(c) == sjid[c].Username = user[c] /\ sjid[c].Domain = Domain

\* What is under way on a connection, and what both ends know then.
Talking(c) ==
    /\ wire[c].kind = "open" => /\ wire[c].text = Printed(cjid[c])
                                /\ IF stage[c] = "new" THEN sjid[c] = NoJID ELSE Alike(c)
    /\ wire[c].kind \in Mechanisms \cup {"success"} => Alike(c)
    /\ wire[c].kind \in {"mechanisms", "bind", "none"} =>
           Alike(c) /\ NamedBy(c) /\ answer[c] = Address(cjid[c])
    /\ wire[c].kind = "iq" =>
           /\ NamedBy(c) /\ IsJID(Printed(cjid[c]))
           /\ stage[c] # "bound" => \E r \in Asked : wire[c].text = Request(c, r)
           /\ stage[c] = "bound" => /\ wire[c].text = Response(c, Printed(sjid[c]))
                                    /\ IsJID(Printed(sjid[c]))
    /\ wire[c].kind = "none" => stage[c] = "bound"
    /\ wire[c].kind = "bind" => stage[c] # "bound"

\* What FindPart compares.
Finding(c) ==
    /\ stage[c] = "bound" => sjid[c].Resource = <<>> \/ Trim(sjid[c].Resource) # <<>>
    /\ wire[c].kind = "none" => Parsed(Printed(cjid[c])).Resource = sjid[c].Resource

Own(c) ==
    /\ sjid[c] \in JIDs /\ cjid[c] \in JIDs
    /\ cjid[c].Username = user[c] /\ cjid[c].Domain = Domain
    /\ Talking(c)
    /\ Findable => Finding(c)

NamesOK  == IsMap(cjid) /\ IsMap(answer) /\ \A c \in Conns : Own(c)
NamesInv == IdInv /\ NamesOK

\* The texts of the constants.
LEMMA TextsOfConstants ==
    /\ Users \subseteq Text /\ Kept \subseteq Text /\ Asked \subseteq Text /\ Domain \in Text
    /\ <<>> \in Text /\ NoJID \in JIDs
    /\ NoJID.Username = <<>> /\ NoJID.Domain = <<>> /\ NoJID.Resource = <<>>
  <1>1. \A s \in Seq(STRING) : s \in Text
    BY SeqMonotonic DEF Text, Chars
  <1>2. /\ Users \subseteq Text /\ Kept \subseteq Text /\ Asked \subseteq Text /\ Domain \in Text
        /\ <<>> \in Text
    BY <1>1, TextsAssumption, EmptySeq DEF Text
  <1>. QED
    BY <1>2 DEF NoJID, JID, JIDs

\* What is taken from an address.
LEMMA TakesOver ==
    ASSUME Addressable, NEW jid \in JIDs, jid.Domain = Domain, IsJID(Printed(jid)),
           NEW old \in JIDs, NEW new, new = ParseJID(Printed(jid), old)
    PROVE  /\ new \in JIDs /\ new.Username = jid.Username /\ new.Domain = jid.Domain
           /\ Trim(jid.Resource) # <<>> =>
                  new.Resource = <<"/">> \o Trim(jid.Resource) /\ Trim(new.Resource) = Trim(jid.Resource)
           /\ Trim(jid.Resource) = <<>> => new.Resource = old.Resource
  <1>1. Printed(jid) \in Text
    BY PrintedIsText
  <1>2. new \in JIDs
    BY <1>1, ParseIsJID
  <1>3. new = IF Trim(jid.Resource) # <<>>
              THEN JID(jid.Username, jid.Domain, <<"/">> \o Trim(jid.Resource))
              ELSE [old EXCEPT !.Username = jid.Username, !.Domain = jid.Domain]
    BY ReadBack DEF Addressable
  <1>4. jid.Resource \in Text
    BY DEF JIDs
  <1>5. CASE Trim(jid.Resource) # <<>>
    <2>1. PICK r : r = <<"/">> \o Trim(jid.Resource)
      OBVIOUS
    <2>2. new = JID(jid.Username, jid.Domain, r)
      BY <1>3, <1>5, <2>1, Zenon
    <2>3. new.Username = jid.Username /\ new.Domain = jid.Domain /\ new.Resource = r
      BY <2>2 DEF JID
    <2>4. Trim(r) = Trim(jid.Resource)
      BY <1>4, <1>5, <2>1, TrimOfKept, Zenon
    <2>. QED
      BY <1>2, <1>5, <2>1, <2>3, <2>4
  <1>6. CASE Trim(jid.Resource) = <<>>
    <2>1. new = [old EXCEPT !.Username = jid.Username, !.Domain = jid.Domain]
      BY <1>3, <1>6
    <2>2. new.Username = jid.Username /\ new.Domain = jid.Domain /\ new.Resource = old.Resource
      BY <2>1 DEF JIDs
    <2>. QED
      BY <1>2, <1>6, <2>2
  <1>. QED
    BY <1>5, <1>6

\* What is known of a connection in every state.
LEMMA KnownOf ==
    ASSUME Addressable, NamesInv, NEW c \in Conns
    PROVE  /\ user[c] \in Text /\ user[c] # <<>>
           /\ sjid[c] \in JIDs /\ cjid[c] \in JIDs
           /\ cjid[c].Username = user[c] /\ cjid[c].Domain = Domain
           /\ Address(cjid[c]) = Printed(cjid[c])
           /\ Printed(cjid[c]) \in Text /\ Printed(cjid[c]) # <<>>
           /\ Talking(c) /\ (Findable => Finding(c))
           /\ IsMap(sjid) /\ IsMap(cjid) /\ IsMap(wire) /\ IsMap(answer)
           /\ stage \in [Conns -> Stages]
           /\ stage[c] = "new" => wire[c].kind \in {"open", "mechanisms", "PLAIN", "SCRAM", "end"}
  <1>1. TypeOK /\ Fresh /\ IsMap(cjid) /\ IsMap(answer) /\ Own(c)
    BY DEF NamesInv, NamesOK, IdInv
  <1>2. user[c] \in Text /\ user[c] # <<>>
    BY <1>1, TextsOfConstants DEF TypeOK, Addressable
  <1>3. sjid[c] \in JIDs /\ cjid[c] \in JIDs /\ cjid[c].Username = user[c] /\ cjid[c].Domain = Domain
        /\ Talking(c) /\ (Findable => Finding(c))
    BY <1>1 DEF Own
  <1>4. Address(cjid[c]) = Printed(cjid[c])
    BY <1>2, <1>3 DEF Address
  <1>5. Printed(cjid[c]) \in Text /\ Printed(cjid[c]) # <<>>
    BY <1>3, PrintedIsText
  <1>6. /\ IsMap(sjid) /\ IsMap(cjid) /\ IsMap(wire) /\ IsMap(answer) /\ stage \in [Conns -> Stages]
        /\ stage[c] = "new" => wire[c].kind \in {"open", "mechanisms", "PLAIN", "SCRAM", "end"}
    BY <1>1 DEF TypeOK, Fresh
  <1>. QED
    BY <1>2, <1>3, <1>4, <1>5, <1>6

\* A step of one connection leaves the others as they are.
LEMMA OwnStep ==
    ASSUME NamesInv, NEW c \in Conns, UNCHANGED user, IsMap(cjid'), IsMap(answer'), Own(c)',
           \A d \in Conns : d # c => /\ sjid'[d] = sjid[d] /\ cjid'[d] = cjid[d] /\ wire'[d] = wire[d]
                                     /\ stage'[d] = stage[d] /\ answer'[d] = answer[d]
    PROVE  NamesOK'
  <1>1. ASSUME NEW d \in Conns PROVE Own(d)'
    <2>1. CASE d = c
      BY <2>1
    <2>2. CASE d # c
      <3>1. Own(d)
        BY DEF NamesInv, NamesOK
      <3>2. /\ sjid'[d] = sjid[d] /\ cjid'[d] = cjid[d] /\ wire'[d] = wire[d]
            /\ stage'[d] = stage[d] /\ answer'[d] = answer[d] /\ user'[d] = user[d]
        BY <2>2
      <3>3. Talking(d)' <=> Talking(d)
        BY <3>2 DEF Talking, Alike, NamedBy
      <3>4. Finding(d)' <=> Finding(d)
        BY <3>2 DEF Finding
      <3>. QED
        BY <3>1, <3>2, <3>3, <3>4 DEF Own
    <2>. QED
      BY <2>1, <2>2
  <1>. QED
    BY <1>1 DEF NamesOK

\* At the start a client's header is under way.
LEMMA NamesInit == Addressable /\ Init => NamesOK
  <1>. SUFFICES ASSUME Addressable, Init PROVE NamesOK
    OBVIOUS
  <1>1. IsMap(cjid) /\ IsMap(answer)
    BY DEF Init, IsMap
  <1>2. ASSUME NEW c \in Conns PROVE Own(c)
    <2>1. user[c] \in Text /\ user[c] # <<>>
      BY TextsOfConstants DEF Init, Addressable
    <2>2. cjid[c] \in JIDs /\ cjid[c].Username = user[c] /\ cjid[c].Domain = Domain
      <3>1. PICK r \in [Conns -> Kept] : cjid = [d \in Conns |-> JID(user[d], Domain, r[d])]
        BY DEF Init
      <3>2. cjid[c] = JID(user[c], Domain, r[c]) /\ r[c] \in Text
        BY <3>1, TextsOfConstants
      <3>. QED
        BY <2>1, <3>2, TextsOfConstants DEF JID, JIDs
    <2>3. sjid[c] = NoJID /\ sjid[c] \in JIDs /\ stage[c] = "new"
          /\ wire[c].kind = "open" /\ wire[c].text = Address(cjid[c])
      BY TextsOfConstants DEF Init, Message
    <2>4. Address(cjid[c]) = Printed(cjid[c])
      BY <2>1, <2>2 DEF Address
    <2>5. Talking(c) /\ Finding(c)
      BY <2>3, <2>4, MechanismsAssumption DEF Talking, Finding
    <2>. QED
      BY <2>2, <2>3, <2>5 DEF Own
  <1>. QED
    BY <1>1, <1>2 DEF NamesOK

\* A header: the server takes over the name, and the resource as it is printed.
LEMMA OpensNames ==
    ASSUME Addressable, NamesInv, NEW c \in Conns, Opens(c)
    PROVE  NamesOK'
  <1>0. /\ user[c] \in Text /\ user[c] # <<>>
        /\ sjid[c] \in JIDs /\ cjid[c] \in JIDs
        /\ cjid[c].Username = user[c] /\ cjid[c].Domain = Domain
        /\ Address(cjid[c]) = Printed(cjid[c])
        /\ Printed(cjid[c]) \in Text /\ Printed(cjid[c]) # <<>>
        /\ Talking(c) /\ (Findable => Finding(c))
        /\ IsMap(sjid) /\ IsMap(cjid) /\ IsMap(wire) /\ IsMap(answer)
    BY KnownOf
  <1>1. /\ wire[c].kind = "open" /\ stage[c] \in {"new", "listed", "bound"}
        /\ wire[c].text = <<>> \/ IsJID(wire[c].text)
        /\ sjid' = [sjid EXCEPT ![c] = FromHeader(sjid[c], wire[c].text)]
        /\ answer' = [answer EXCEPT ![c] = Address(sjid'[c])]
        /\ wire' = [wire EXCEPT ![c] = Message(Features(c), <<>>)]
        /\ UNCHANGED <<user, cjid, stage>>
    BY <1>0 DEF Opens, IsMap
  <1>2. wire[c].text = Printed(cjid[c]) /\ IsJID(Printed(cjid[c]))
    BY <1>0, <1>1 DEF Talking
  <1>. DEFINE z   == Trim(cjid[c].Resource)
              new == ParseJID(Printed(cjid[c]), sjid[c])
  <1>3. /\ IsMap(sjid') /\ sjid'[c] = new /\ IsMap(answer') /\ answer'[c] = Address(new)
        /\ IsMap(wire') /\ wire'[c] = Message(Features(c), <<>>) /\ IsMap(cjid')
        /\ \A d \in Conns : d # c => sjid'[d] = sjid[d] /\ answer'[d] = answer[d] /\ wire'[d] = wire[d]
    <2>. HIDE DEF new
    <2>1. FromHeader(sjid[c], wire[c].text) = new
      BY <1>0, <1>2 DEF FromHeader, new
    <2>. QED
      BY <1>0, <1>1, <2>1 DEF IsMap
  <1>4. /\ new \in JIDs /\ new.Username = user[c] /\ new.Domain = Domain
        /\ z # <<>> => new.Resource = <<"/">> \o z /\ Trim(new.Resource) = z
        /\ z = <<>> => new.Resource = sjid[c].Resource
    BY <1>0, <1>2, TakesOver
  <1>5. stage[c] = "new" => sjid[c].Resource = <<>>
    BY <1>0, <1>1, TextsOfConstants DEF Talking
  <1>6. z = <<>> => Trim(sjid[c].Resource) = <<>>
    <2>1. CASE stage[c] = "new"
      BY <1>5, <2>1, TrimOfKept
    <2>2. CASE stage[c] # "new"
      BY <1>0, <1>1, <2>2 DEF Talking, Alike
    <2>. QED
      BY <2>1, <2>2
  <1>. HIDE DEF z, new
  <1>7. Trim(new.Resource) = z
    BY <1>4, <1>6
  <1>8. /\ wire'[c].kind = Features(c)
        /\ Features(c) = IF stage[c] = "new" THEN "mechanisms" ELSE IF stage[c] = "listed" THEN "bind" ELSE "none"
    BY <1>1, <1>3 DEF Message, Features
  <1>9. Talking(c)'
    <2>1. Alike(c)' /\ NamedBy(c)'
      BY <1>1, <1>2, <1>3, <1>4, <1>7 DEF Alike, NamedBy, z
    <2>2. Printed(new) = Printed(cjid[c])
      BY <1>0, <1>4, <1>7, PrintedAlike DEF z
    <2>3. Address(new) = Printed(new)
      BY <1>0, <1>4 DEF Address
    <2>4. answer'[c] = Address(cjid'[c])
      BY <1>0, <1>1, <1>3, <2>2, <2>3
    <2>. QED
      BY <1>1, <1>8, <2>1, <2>4, MechanismsAssumption DEF Talking
  <1>10. ASSUME Findable PROVE Finding(c)'
    <2>1. stage[c] = "bound" => sjid[c].Resource = <<>> \/ Trim(sjid[c].Resource) # <<>>
      BY <1>0, <1>10 DEF Finding
    <2>2. stage[c] = "bound" => new.Resource = <<>> \/ Trim(new.Resource) # <<>>
      BY <1>4, <2>1
    <2>3. wire'[c].kind = "none" => stage[c] = "bound"
      BY <1>1, <1>8
    <2>4. stage[c] = "bound" => Parsed(Printed(cjid[c])).Resource = new.Resource
      <3>. SUFFICES ASSUME stage[c] = "bound" PROVE Parsed(Printed(cjid[c])).Resource = new.Resource
        OBVIOUS
      <3>1. Parsed(Printed(cjid[c])) = ParseJID(Printed(cjid[c]), NoJID)
        BY <1>2 DEF Parsed
      <3>2. /\ z # <<>> => Parsed(Printed(cjid[c])).Resource = <<"/">> \o z
            /\ z = <<>> => Parsed(Printed(cjid[c])).Resource = <<>>
        BY <1>0, <1>2, <3>1, TakesOver, TextsOfConstants DEF z
      <3>3. z = <<>> => new.Resource = <<>>
        BY <1>4, <1>6, <2>1
      <3>. QED
        BY <1>4, <3>2, <3>3
    <2>. QED
      BY <1>1, <1>3, <2>2, <2>3, <2>4 DEF Finding
  <1>11. Own(c)'
    BY <1>0, <1>1, <1>3, <1>4, <1>9, <1>10 DEF Own
  <1>. QED
    BY <1>1, <1>3, <1>11, OwnStep

\* SASL: the name and the domain are the server's, the resource stays.
LEMMA AuthenticatesNames ==
    ASSUME Addressable, NamesInv, NEW c \in Conns, Authenticates(c)
    PROVE  NamesOK'
  <1>0. /\ user[c] \in Text
        /\ sjid[c] \in JIDs /\ cjid[c] \in JIDs
        /\ cjid[c].Username = user[c] /\ cjid[c].Domain = Domain
        /\ Talking(c)
        /\ IsMap(sjid) /\ IsMap(cjid) /\ IsMap(wire) /\ IsMap(answer) /\ stage \in [Conns -> Stages]
    BY KnownOf
  <1>1. /\ stage[c] = "new" /\ wire[c].kind \in Mechanisms
        /\ wire' = [wire EXCEPT ![c] = Message("success", <<>>)]
        /\ sjid' = [sjid EXCEPT ![c] = [sjid[c] EXCEPT !.Username = Returned(wire[c].kind, wire[c].text),
                                                       !.Domain = Domain]]
        /\ stage' = [stage EXCEPT ![c] = "appending"]
        /\ UNCHANGED <<user, cjid, answer>>
    BY <1>0 DEF Authenticates, IsMap
  <1>2. Returned(wire[c].kind, wire[c].text) \in Text
    <2>1. wire[c].text = user[c]
      BY <1>1 DEF NamesInv, IdInv, Fresh
    <2>. QED
      BY <1>0, <2>1, TextsOfConstants DEF Returned
  <1>. DEFINE new == [sjid[c] EXCEPT !.Username = Returned(wire[c].kind, wire[c].text), !.Domain = Domain]
  <1>3. new \in JIDs /\ new.Resource = sjid[c].Resource
    BY <1>0, <1>2, TextsOfConstants DEF JIDs
  <1>. HIDE DEF new
  <1>4. /\ sjid'[c] = new /\ wire'[c] = Message("success", <<>>) /\ stage'[c] = "appending"
        /\ IsMap(cjid') /\ IsMap(answer')
        /\ \A d \in Conns : d # c => sjid'[d] = sjid[d] /\ stage'[d] = stage[d] /\ wire'[d] = wire[d]
    BY <1>0, <1>1 DEF IsMap, new
  <1>5. Talking(c)' /\ Finding(c)'
    <2>1. Alike(c)
      BY <1>0, <1>1 DEF Talking
    <2>2. Alike(c)'
      BY <1>1, <1>3, <1>4, <2>1 DEF Alike
    <2>3. wire'[c].kind = "success"
      BY <1>4 DEF Message
    <2>. QED
      BY <1>4, <2>2, <2>3 DEF Talking, Finding
  <1>6. Own(c)'
    BY <1>0, <1>1, <1>3, <1>4, <1>5 DEF Own
  <1>. QED
    BY <1>1, <1>4, <1>6, OwnStep

\* A binding: the resource that was asked for, which nobody else touches.
LEMMA BindsNames ==
    ASSUME Addressable, NamesInv, NEW c \in Conns, Binds(c)
    PROVE  NamesOK'
  <1>0. /\ sjid[c] \in JIDs /\ cjid[c] \in JIDs
        /\ cjid[c].Username = user[c] /\ cjid[c].Domain = Domain
        /\ Talking(c)
        /\ IsMap(sjid) /\ IsMap(cjid) /\ IsMap(wire) /\ IsMap(answer) /\ stage \in [Conns -> Stages]
    BY KnownOf
  <1>1. PICK ib : /\ ib = IqBindFromElem(NoIqBind, wire[c].text)
                  /\ sjid' = [sjid EXCEPT ![c].Resource = ib.val.Resource]
                  /\ wire' = [wire EXCEPT ![c] = Message("iq", Result(ib.val.IQ, Printed(sjid'[c])))]
    BY DEF Binds
  <1>2. /\ wire[c].kind = "iq" /\ stage[c] = "listed" /\ stage' = [stage EXCEPT ![c] = "bound"]
        /\ UNCHANGED <<user, cjid, answer>>
    BY DEF Binds
  <1>3. PICK r \in Asked : wire[c].text = Request(c, r)
    BY <1>0, <1>2 DEF Talking
  <1>4. NamedBy(c) /\ IsJID(Printed(cjid[c]))
    BY <1>0, <1>2 DEF Talking
  <1>5. ib.val.Resource = r /\ ib.val.IQ = Stanza("iq", TypeSet, <<c>>, None, None)
    BY <1>1, <1>3, RequestRead
  <1>. DEFINE new == [sjid[c] EXCEPT !.Resource = r]
  <1>6. sjid' = [sjid EXCEPT ![c] = new]
    BY <1>0, <1>1, <1>5 DEF IsMap
  <1>7. /\ new \in JIDs /\ new.Resource = r /\ new.Username = user[c] /\ new.Domain = Domain
        /\ r \in Text /\ Where("@", r) = {}
    BY <1>0, <1>4, TextsOfConstants DEF JIDs, NamedBy, Addressable
  <1>. HIDE DEF new
  <1>8. /\ sjid'[c] = new /\ wire'[c] = Message("iq", Result(ib.val.IQ, Printed(new))) /\ stage'[c] = "bound"
        /\ IsMap(cjid') /\ IsMap(answer')
        /\ \A d \in Conns : d # c => sjid'[d] = sjid[d] /\ stage'[d] = stage[d] /\ wire'[d] = wire[d]
    BY <1>0, <1>1, <1>2, <1>6 DEF IsMap
  <1>9. IsJID(Printed(new))
    BY <1>0, <1>4, <1>7, StillJID
  <1>10. wire'[c].kind = "iq" /\ wire'[c].text = Response(c, Printed(sjid'[c]))
    <2>1. ib.val.IQ.ID = <<c>> /\ ib.val.IQ.From = None
      BY <1>5 DEF Stanza
    <2>. QED
      BY <1>8, <2>1 DEF Message, Result, Response
  <1>11. Talking(c)'
    <2>1. NamedBy(c)' /\ IsJID(Printed(cjid'[c])) /\ IsJID(Printed(sjid'[c]))
      BY <1>2, <1>4, <1>7, <1>8, <1>9 DEF NamedBy
    <2>. QED
      BY <1>8, <1>10, <2>1, MechanismsAssumption DEF Talking
  <1>12. ASSUME Findable PROVE Finding(c)'
    BY <1>7, <1>8, <1>10, <1>12 DEF Finding, Findable
  <1>13. Own(c)'
    BY <1>0, <1>2, <1>7, <1>8, <1>11, <1>12 DEF Own
  <1>. QED
    BY <1>2, <1>8, <1>13, OwnStep

\* The client takes over the resource it was bound to.
LEMMA BoundToNames ==
    ASSUME Addressable, NamesInv, NEW c \in Conns, BoundTo(c)
    PROVE  NamesOK'
  <1>0. /\ user[c] \in Text /\ user[c] # <<>>
        /\ sjid[c] \in JIDs /\ cjid[c] \in JIDs
        /\ cjid[c].Username = user[c] /\ cjid[c].Domain = Domain
        /\ Talking(c) /\ (Findable => Finding(c))
        /\ IsMap(sjid) /\ IsMap(cjid) /\ IsMap(wire) /\ IsMap(answer)
    BY KnownOf
  <1>1. PICK ib : /\ ib = IqBindFromElem(NoIqBind, wire[c].text)
                  /\ cjid' = [cjid EXCEPT ![c].Resource = Parsed(ib.val.JID).Resource]
    BY DEF BoundTo
  <1>2. /\ wire[c].kind = "iq" /\ stage[c] = "bound"
        /\ wire' = [wire EXCEPT ![c] = Message("open", Address(cjid'[c]))]
        /\ UNCHANGED <<user, sjid, answer, stage>>
    BY DEF BoundTo
  <1>3. wire[c].text = Response(c, Printed(sjid[c])) /\ NamedBy(c) /\ IsJID(Printed(sjid[c]))
    BY <1>0, <1>2 DEF Talking
  <1>4. ib.val.JID = Printed(sjid[c])
    <2>1. Printed(sjid[c]) # None
      BY <1>0, PrintedIsText DEF None
    <2>. QED
      BY <1>1, <1>3, <2>1, ResponseRead
  <1>. DEFINE read == Parsed(Printed(sjid[c]))
              z    == Trim(sjid[c].Resource)
              new  == [cjid[c] EXCEPT !.Resource = read.Resource]
  <1>5. /\ read \in JIDs /\ Trim(read.Resource) = z
    <2>1. read = ParseJID(Printed(sjid[c]), NoJID)
      BY <1>3 DEF Parsed
    <2>2. /\ read \in JIDs /\ (z # <<>> => Trim(read.Resource) = z)
          /\ z = <<>> => read.Resource = NoJID.Resource
      BY <1>0, <1>3, <2>1, TakesOver, TextsOfConstants DEF NamedBy
    <2>. QED
      BY <2>2, TextsOfConstants, TrimOfKept
  <1>6. cjid' = [cjid EXCEPT ![c] = new]
    BY <1>0, <1>1, <1>4 DEF IsMap
  <1>7. /\ new \in JIDs /\ new.Username = user[c] /\ new.Domain = Domain /\ Trim(new.Resource) = z
    <2>. HIDE DEF read
    <2>. QED
      BY <1>0, <1>5 DEF JIDs
  <1>. HIDE DEF new
  <1>8. /\ cjid'[c] = new /\ wire'[c] = Message("open", Address(new)) /\ IsMap(cjid') /\ IsMap(answer')
        /\ \A d \in Conns : d # c => cjid'[d] = cjid[d] /\ wire'[d] = wire[d]
    BY <1>0, <1>2, <1>6 DEF IsMap
  <1>9. Printed(new) = Printed(sjid[c])
    BY <1>3, <1>7, PrintedAlike DEF NamedBy
  <1>10. Address(new) = Printed(new)
    BY <1>0, <1>7 DEF Address
  <1>11. wire'[c].kind = "open" /\ wire'[c].text = Printed(cjid'[c])
    BY <1>8, <1>10 DEF Message
  <1>12. Talking(c)' /\ (Findable => Finding(c)')
    <2>1. Alike(c)'
      BY <1>2, <1>3, <1>7, <1>8, <1>9 DEF Alike
    <2>2. Findable => Finding(c)'
      BY <1>0, <1>2, <1>11 DEF Finding
    <2>. QED
      BY <1>2, <1>11, <2>1, <2>2, MechanismsAssumption DEF Talking
  <1>13. Own(c)'
    BY <1>0, <1>2, <1>7, <1>8, <1>12 DEF Own
  <1>. QED
    BY <1>2, <1>8, <1>13, OwnStep

\* What else is said, and the second half of the append.
LEMMA OthersName ==
    ASSUME Addressable, NamesInv, NEW c \in Conns,
           \/ RefusesHeader(c) \/ FailsToAuthenticate(c) \/ Lists(c)
           \/ ToAuth(c) \/ Reopens(c) \/ AsksToBind(c)
    PROVE  NamesOK'
  <1>0. /\ sjid[c] \in JIDs /\ cjid[c] \in JIDs
        /\ cjid[c].Username = user[c] /\ cjid[c].Domain = Domain
        /\ Address(cjid[c]) = Printed(cjid[c])
        /\ Talking(c) /\ (Findable => Finding(c))
        /\ IsMap(sjid) /\ IsMap(cjid) /\ IsMap(wire) /\ IsMap(answer) /\ stage \in [Conns -> Stages]
        /\ stage[c] = "new" => wire[c].kind \in {"open", "mechanisms", "PLAIN", "SCRAM", "end"}
    BY KnownOf
  <1>1. /\ UNCHANGED <<user, sjid, cjid, answer>> /\ IsMap(cjid') /\ IsMap(answer')
        /\ \A d \in Conns : d # c => stage'[d] = stage[d] /\ wire'[d] = wire[d]
    BY <1>0 DEF RefusesHeader, FailsToAuthenticate, Lists, ToAuth, Reopens, AsksToBind, IsMap
  <1>2. \A k, x : Message(k, x).kind = k /\ Message(k, x).text = x
    BY DEF Message
  <1>3. SUFFICES Talking(c)' /\ (Findable => Finding(c)')
    BY <1>0, <1>1, OwnStep DEF Own
  <1>4. CASE RefusesHeader(c) \/ FailsToAuthenticate(c)
    <2>1. stage'[c] = "ended" /\ wire'[c].kind = "end"
      BY <1>0, <1>2, <1>4 DEF RefusesHeader, FailsToAuthenticate, IsMap
    <2>. QED
      BY <2>1, MechanismsAssumption DEF Talking, Finding
  <1>5. CASE Lists(c)
    <2>1. stage[c] = "appending" /\ stage'[c] = "listed" /\ wire' = wire
      BY <1>0, <1>5 DEF Lists
    <2>. QED
      BY <1>0, <1>1, <2>1 DEF Talking, Finding, Alike, NamedBy
  <1>6. CASE ToAuth(c)
    <2>1. PICK m \in Mechanisms : wire' = [wire EXCEPT ![c] = Message(m, user[c])]
      BY <1>6 DEF ToAuth
    <2>2. wire[c].kind = "mechanisms" /\ stage' = stage
      BY <1>6 DEF ToAuth
    <2>3. wire'[c].kind = m
      BY <1>0, <1>2, <2>1 DEF IsMap
    <2>4. Alike(c)'
      BY <1>0, <1>1, <2>2 DEF Talking, Alike
    <2>. QED
      BY <1>0, <1>1, <2>2, <2>3, <2>4, MechanismsAssumption DEF Talking, Finding
  <1>7. CASE Reopens(c)
    <2>1. /\ wire[c].kind = "success" /\ stage' = stage
          /\ wire' = [wire EXCEPT ![c] = Message("open", Address(cjid[c]))]
      BY <1>7 DEF Reopens
    <2>2. wire'[c].kind = "open" /\ wire'[c].text = Printed(cjid[c]) /\ stage[c] # "new"
      BY <1>0, <1>2, <2>1 DEF IsMap
    <2>3. Alike(c)'
      BY <1>0, <1>1, <2>1 DEF Talking, Alike
    <2>. QED
      BY <1>0, <1>1, <2>1, <2>2, <2>3, MechanismsAssumption DEF Talking, Finding
  <1>8. CASE AsksToBind(c)
    <2>1. PICK r \in Asked : wire' = [wire EXCEPT ![c] = Message("iq", Request(c, r))]
      BY <1>8 DEF AsksToBind, Request
    <2>2. wire[c].kind = "bind" /\ stage' = stage
      BY <1>8 DEF AsksToBind
    <2>3. wire'[c].kind = "iq" /\ wire'[c].text = Request(c, r)
      BY <1>0, <1>2, <2>1 DEF IsMap
    <2>4. Alike(c) /\ NamedBy(c) /\ stage[c] # "bound"
      BY <1>0, <2>2 DEF Talking
    <2>5. NamedBy(c)' /\ IsJID(Printed(cjid'[c]))
      BY <1>1, <2>4 DEF Alike, NamedBy
    <2>. QED
      BY <1>0, <1>1, <2>2, <2>3, <2>4, <2>5, MechanismsAssumption DEF Talking, Finding
  <1>. QED
    BY <1>4, <1>5, <1>6, <1>7, <1>8

\* Every step keeps it.
LEMMA NamesNext == Addressable /\ NamesInv /\ [Next]_vars => NamesInv'
  <1>. SUFFICES ASSUME Addressable, NamesInv, [Next]_vars PROVE NamesInv'
    OBVIOUS
  <1>1. IdInv'
    BY IdNext DEF NamesInv
  <1>2. CASE UNCHANGED vars
    <2>1. NamesOK'
      <3>1. \A c \in Conns : Own(c)
        BY DEF NamesInv, NamesOK
      <3>2. ASSUME NEW c \in Conns PROVE Own(c)'
        BY <1>2, <3>1 DEF vars, Own, Talking, Finding, Alike, NamedBy
      <3>3. IsMap(cjid)' /\ IsMap(answer)'
        BY <1>2 DEF vars, NamesInv, NamesOK, IsMap
      <3>. QED
        BY <3>2, <3>3 DEF NamesOK
    <2>. QED
      BY <1>1, <2>1 DEF NamesInv
  <1>3. CASE Next
    <2>1. NamesOK'
      BY <1>3, OpensNames, AuthenticatesNames, BindsNames, BoundToNames, OthersName DEF Next
    <2>. QED
      BY <1>1, <2>1 DEF NamesInv
  <1>. QED
    BY <1>2, <1>3

\* Whatever the clients are called, whatever resource they had and ask for, by
\* whichever mechanism they authenticate: a name that can be read back is known
\* at both ends once they have negotiated.
THEOREM NamesInvariant ==
    ASSUME Addressable
    PROVE  Spec => []NamesInv
  <1>1. Init => NamesInv
    BY IdInit, NamesInit DEF NamesInv
  <1>2. NamesInv /\ [Next]_vars => NamesInv'
    BY NamesNext
  <1>. QED
    BY <1>1, <1>2, PTL DEF Spec

\* Once negotiation is over both ends have the same JID, the user's.
THEOREM BothEndsAlike ==
    ASSUME Addressable
    PROVE  Spec => []BoundAlike
  <1>1. NamesInv => BoundAlike
    <2>. SUFFICES ASSUME NamesInv, NEW c \in Conns, wire[c].kind = "none"
                  PROVE  Printed(sjid[c]) = Printed(cjid[c]) /\ sjid[c].Username = user[c]
      BY DEF BoundAlike, Negotiated
    <2>1. Alike(c) /\ NamedBy(c) /\ cjid[c].Username = user[c] /\ cjid[c].Domain = Domain
      BY KnownOf DEF Talking
    <2>. QED
      BY <2>1, PrintedAlike DEF Alike, NamedBy
  <1>. QED
    BY <1>1, NamesInvariant, PTL

\* A header is answered to the JID it came from.
THEOREM HeadersAnsweredByName ==
    ASSUME Addressable
    PROVE  Spec => []AnsweredByName
  <1>1. NamesInv => AnsweredByName
    BY KnownOf DEF AnsweredByName, Talking
  <1>. QED
    BY <1>1, NamesInvariant, PTL

\* Where nobody asks for slashes alone, who has negotiated is found under the
\* JID the client knows of itself, unless its entry was lost to a race.
THEOREM FoundByItsName ==
    ASSUME Addressable, Findable
    PROVE  Spec => []FoundByOwnJid
  <1>1. NamesInv => FoundByOwnJid
    <2>. SUFFICES ASSUME NamesInv, NEW c \in Conns, wire[c].kind = "none", c \notin raced
                  PROVE  FindPart(Parsed(Printed(cjid[c]))) \in Conns
      BY DEF FoundByOwnJid, Negotiated
    <2>1. /\ sjid[c] \in JIDs /\ cjid[c] \in JIDs /\ cjid[c].Username = user[c] /\ cjid[c].Domain = Domain
          /\ Talking(c) /\ Finding(c)
      BY KnownOf
    <2>2. stage[c] = "bound" /\ NamedBy(c) /\ IsJID(Printed(cjid[c]))
          /\ Parsed(Printed(cjid[c])).Resource = sjid[c].Resource
      BY <2>1 DEF Talking, Finding, Alike
    <2>3. Equal(Parsed(Printed(cjid[c])), sjid[c])
      <3>1. Parsed(Printed(cjid[c])) = ParseJID(Printed(cjid[c]), NoJID)
        BY <2>2 DEF Parsed
      <3>2. Parsed(Printed(cjid[c])).Username = user[c] /\ Parsed(Printed(cjid[c])).Domain = Domain
        BY <2>1, <2>2, <3>1, TakesOver, TextsOfConstants
      <3>. QED
        BY <2>2, <3>2 DEF Equal, NamedBy
    <2>4. parts \in Seq(Conns) /\ c \in Entries(parts)
      BY <2>2 DEF NamesInv, IdInv, Listing, Counted, Done
    <2>. DEFINE at == {i \in DOMAIN parts : Equal(Parsed(Printed(cjid[c])), sjid[parts[i]])}
    <2>5. at \in SUBSET Nat /\ at # {} /\ at \subseteq DOMAIN parts /\ DOMAIN parts = 1 .. Len(parts)
      <3>1. PICK i \in DOMAIN parts : parts[i] = c
        BY <2>4 DEF Entries
      <3>2. i \in at
        BY <2>3, <3>1
      <3>. QED
        BY <2>4, <3>2, LenProperties
    <2>. HIDE DEF at
    <2>6. Min(at) \in at
      BY <2>5, MinIs
    <2>7. parts[Min(at)] \in Conns
      BY <2>4, <2>5, <2>6, ElementOfSeq
    <2>. QED
      BY <2>5, <2>7 DEF FindPart, at
  <1>. QED
    BY <1>1, NamesInvariant, PTL
===============================================================================
