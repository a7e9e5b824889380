------------------------------- MODULE MdnsProofs -------------------------------
(***************************************************************************)
(* Proofs about Mdns, for any interfaces, any engines wanted, and any      *)
(* packets, as many as may come.                                           *)
(*                                                                         *)
(* First the decoder.  read_name calls itself behind a label and at a      *)
(* pointer; what it reads next lies further on or has less of the budget,  *)
(* so it is defined everywhere (MeasuredRecursion), and by induction on    *)
(* the walk it returns what the cells met spell.  The same for the loop    *)
(* over the records, with the records to come for a measure.  Then the     *)
(* broker: what it reports comes from the answers of the packet, and from  *)
(* the engine those answers name.                                          *)
(***************************************************************************)
EXTENDS Mdns, Induction, FiniteSetTheorems, SequenceTheorems, TLAPS


IsSequence(s) == s \in Seq(ToSet(s))

LEMMA SequenceFacts ==
  ASSUME NEW s, IsSequence(s)
  PROVE  Len(s) \in Nat /\ DOMAIN s = 1..Len(s)
BY DEF IsSequence

\* Where a walk goes is given by where it stands.
LEMMA WalkSteps ==
  ASSUME NEW cells, IsSequence(cells), NEW p
  PROVE  /\ Walk(cells, p)[0] = p
         /\ \A n \in Nat : Walk(cells, p)[n + 1] = NextCell(cells, Walk(cells, p)[n])
<1> DEFINE T == Nat \cup {p} \cup { cells[q].to : q \in DOMAIN cells }
           Body(f) == [n \in Nat |-> IF n = 0 THEN p ELSE NextCell(cells, f[n - 1])]
           step == [x \in Nat \X T |-> NextCell(cells, x[2])]
<1>1. \A q \in T : NextCell(cells, q) \in T
  BY SequenceFacts DEF NextCell, At
<1>2. step \in [Nat \X T -> T] /\ p \in T
  BY <1>1
<1>3. \A n \in Nat, q \in T : step[<<n, q>>] = NextCell(cells, q)
  OBVIOUS
<1> HIDE DEF step, T
<1>4. PICK f \in [Nat -> T] : Iterates(f, p, step)
  BY <1>2, Recursion
<1>5. \A n \in Nat : f[n] = IF n = 0 THEN p ELSE NextCell(cells, f[n - 1])
  <2> SUFFICES ASSUME NEW n \in Nat PROVE f[n] = IF n = 0 THEN p ELSE NextCell(cells, f[n - 1])
    OBVIOUS
  <2>1. CASE n = 0
    BY <1>4, <2>1 DEF Iterates
  <2>2. CASE n # 0
    <3>1. n - 1 \in Nat /\ (n - 1) + 1 = n
      BY <2>2
    <3>2. f[n - 1] \in T
      BY <1>4, <3>1
    <3>3. f[(n - 1) + 1] = step[<<n - 1, f[n - 1]>>]
      BY <1>4, <3>1 DEF Iterates
    <3>. QED
      BY <1>3, <2>2, <3>1, <3>2, <3>3
  <2>. QED
    BY <2>1, <2>2
<1>6. f = Body(f)
  BY <1>4, <1>5
<1>7. Walk(cells, p) = CHOOSE g : g = Body(g)
  BY DEF Walk
<1> DEFINE walk == Walk(cells, p)
<1>8. walk = Body(walk)
  BY <1>6, <1>7
<1> HIDE DEF walk
<1>9. \A n \in Nat : walk[n] = IF n = 0 THEN p ELSE NextCell(cells, walk[n - 1])
  BY <1>8
<1>10. \A n \in Nat : n + 1 \in Nat /\ n + 1 # 0 /\ (n + 1) - 1 = n
  OBVIOUS
<1>11. walk[0] = p /\ \A n \in Nat : walk[n + 1] = NextCell(cells, walk[n])
  BY <1>9, <1>10
<1>. QED
  BY <1>11 DEF walk
LabelTexts(cells) == { cells[q].text : q \in DOMAIN cells }

LEMMA TextIsSequence ==
  ASSUME NEW cells, NEW q
  PROVE  TextOf(cells, q) \in Seq(LabelTexts(cells))
<1>1. CASE At(cells, q, "label")
  <2>1. cells[q].text \in LabelTexts(cells)
    BY <1>1 DEF At, LabelTexts
  <2>. QED
    BY <1>1, <2>1 DEF TextOf
<1>2. CASE ~At(cells, q, "label")
  BY <1>2 DEF TextOf
<1>. QED
  BY <1>1, <1>2

LEMMA TextSteps ==
  ASSUME NEW cells, NEW p
  PROVE  /\ Texts(cells, p)[0] = << >>
         /\ \A n \in Nat :
              /\ Texts(cells, p)[n] \in Seq(LabelTexts(cells))
              /\ Texts(cells, p)[n + 1] = Texts(cells, p)[n] \o TextOf(cells, Walk(cells, p)[n])
<1> DEFINE T == Seq(LabelTexts(cells))
           walk == Walk(cells, p)
           Body(f) == [n \in Nat |-> IF n = 0 THEN << >> ELSE f[n - 1] \o TextOf(cells, walk[n - 1])]
           step == [x \in Nat \X T |-> x[2] \o TextOf(cells, walk[x[1]])]
<1>1. \A n \in Nat, t \in T : t \o TextOf(cells, walk[n]) \in T
  <2> SUFFICES ASSUME NEW n \in Nat, NEW t \in T PROVE t \o TextOf(cells, walk[n]) \in T
    OBVIOUS
  <2>1. TextOf(cells, walk[n]) \in T
    BY TextIsSequence
  <2> HIDE DEF walk
  <2>. QED
    BY <2>1
<1>2. step \in [Nat \X T -> T] /\ << >> \in T
  BY <1>1
<1>3. \A n \in Nat, t \in T : step[<<n, t>>] = t \o TextOf(cells, walk[n])
  OBVIOUS
<1> HIDE DEF step, T, walk
<1>4. PICK f \in [Nat -> T] : Iterates(f, << >>, step)
  BY <1>2, Recursion
<1>5. ASSUME NEW n \in Nat
      PROVE  f[n] = IF n = 0 THEN << >> ELSE f[n - 1] \o TextOf(cells, walk[n - 1])
  <2>1. CASE n = 0
    BY <1>4, <2>1 DEF Iterates
  <2>2. CASE n # 0
    <3>1. n - 1 \in Nat /\ (n - 1) + 1 = n
      BY <2>2
    <3>2. f[n - 1] \in T
      BY <1>4, <3>1
    <3>3. f[(n - 1) + 1] = step[<<n - 1, f[n - 1]>>]
      BY <1>4, <3>1 DEF Iterates
    <3>. QED
      BY <1>3, <2>2, <3>1, <3>2, <3>3
  <2>. QED
    BY <2>1, <2>2
<1>6. f = Body(f)
  BY <1>4, <1>5
<1>7. Texts(cells, p) = CHOOSE g : g = Body(g)
  BY DEF Texts, walk
<1> DEFINE text == Texts(cells, p)
<1>8. text = Body(text)
  BY <1>6, <1>7
<1> HIDE DEF text
<1>9. \A n \in Nat : text[n] = IF n = 0 THEN << >> ELSE text[n - 1] \o TextOf(cells, walk[n - 1])
  BY <1>8
<1>10. \A n \in Nat : n + 1 \in Nat /\ n + 1 # 0 /\ (n + 1) - 1 = n
  OBVIOUS
<1>11. text[0] = << >> /\ \A n \in Nat : text[n + 1] = text[n] \o TextOf(cells, walk[n])
  BY <1>9, <1>10
<1> DEFINE S == {n \in Nat : text[n] \in T}
<1>12. 0 \in S
  BY <1>2, <1>11
<1>12a. ASSUME NEW n \in Nat, n \in S PROVE n + 1 \in S
  <2>1. text[n] \in T
    BY <1>12a
  <2>2. text[n + 1] = text[n] \o TextOf(cells, walk[n])
    BY <1>11
  <2>3. text[n] \o TextOf(cells, walk[n]) \in T
    BY <1>1, <2>1
  <2>4. n + 1 \in Nat
    OBVIOUS
  <2>. QED
    BY <2>2, <2>3, <2>4
<1>13. Nat \subseteq S
  <2> HIDE DEF S
  <2>. QED
    BY <1>12, <1>12a, Induction
<1>. QED
  BY <1>11, <1>13 DEF text, walk, T

-----------------------------------------------------------------------------
Places(cells) == (1..(Len(cells) + 1)) \X (0..Redirects)

\* What a call of read_name reads behind lies further on, or has less of the budget.
Left(cells) ==
  [x \in Places(cells) |-> x[2] * (Len(cells) + 2) + (Len(cells) + 1 - x[1])]

Labels(cells) == Seq(LabelTexts(cells) \cup {NoText})

Readable(cells) == { Name(labels, behind) : labels \in Labels(cells), behind \in Nat }

NameSet(cells) == {Malformed} \cup Readable(cells)

LEMMA ReadsAhead ==
  ASSUME NEW cells, IsSequence(cells), NEW q \in DOMAIN cells, NEW b \in 0..Redirects
  PROVE  /\ <<q, b>> \in Places(cells) /\ <<q + 1, b>> \in Places(cells)
         /\ Left(cells)[<<q + 1, b>>] < Left(cells)[<<q, b>>]
         /\ \A to \in DOMAIN cells :
              MayRedirect(b) => /\ <<to, b - 1>> \in Places(cells)
                                /\ Left(cells)[<<to, b - 1>>] < Left(cells)[<<q, b>>]
<1>1. Len(cells) \in Nat /\ DOMAIN cells = 1..Len(cells) /\ Redirects \in Nat
  BY SequenceFacts, RedirectsAssumption
<1>2. <<q, b>> \in Places(cells) /\ <<q + 1, b>> \in Places(cells)
  BY <1>1 DEF Places
<1>3. PICK K \in Nat : K = Len(cells) + 2
  BY <1>1
<1>4. PICK c \in Nat : c = b * K
  BY <1>1, <1>3
<1>5. (b - 1) * K = c - K
  BY <1>1, <1>3, <1>4
<1>6. Left(cells)[<<q, b>>] = c + (Len(cells) + 1 - q)
  BY <1>2, <1>3, <1>4 DEF Left
<1>7. Left(cells)[<<q + 1, b>>] = c + (Len(cells) + 1 - (q + 1))
  BY <1>2, <1>3, <1>4 DEF Left
<1>8. Left(cells)[<<q + 1, b>>] < Left(cells)[<<q, b>>]
  BY <1>1, <1>4, <1>6, <1>7
<1>9. ASSUME NEW to \in DOMAIN cells, MayRedirect(b)
      PROVE  /\ <<to, b - 1>> \in Places(cells)
             /\ Left(cells)[<<to, b - 1>>] < Left(cells)[<<q, b>>]
  <2>1. <<to, b - 1>> \in Places(cells)
    BY <1>1, <1>9 DEF Places, MayRedirect
  <2>2. Left(cells)[<<to, b - 1>>] = (b - 1) * K + (Len(cells) + 1 - to)
    BY <1>3, <2>1 DEF Left
  <2>3. Left(cells)[<<to, b - 1>>] = c - K + (Len(cells) + 1 - to)
    BY <1>5, <2>2
  <2>4. K \in Nat /\ c \in Nat /\ to \in 1..Len(cells) /\ q \in 1..Len(cells) /\ Len(cells) \in Nat
    BY <1>1, <1>3, <1>4
  <2>5. c - K + (Len(cells) + 1 - to) < c + (Len(cells) + 1 - q)
    BY <1>3, <2>4
  <2>. QED
    BY <1>6, <2>1, <2>3, <2>5
<1>. QED
  BY <1>2, <1>8, <1>9

LEMMA ReadNameCases ==
  ASSUME NEW cells, NEW read, NEW q, NEW b
  PROVE  /\ At(cells, q, "root") => ReadName(cells, read, q, b) = Name(<< >>, q + 1)
         /\ At(cells, q, "label") =>
              ReadName(cells, read, q, b) =
                IF read[<<q + 1, b>>].ok
                  THEN Name(<<cells[q].text>> \o Dotted(cells, q + 1, read[<<q + 1, b>>].labels),
                            read[<<q + 1, b>>].next)
                  ELSE Malformed
         /\ At(cells, q, "pointer") =>
              ReadName(cells, read, q, b) =
                IF cells[q].to \in DOMAIN cells /\ MayRedirect(b) /\ read[<<cells[q].to, b - 1>>].ok
                  THEN Name(read[<<cells[q].to, b - 1>>].labels, q + 1)
                  ELSE Malformed
         /\ ~At(cells, q, "root") /\ ~At(cells, q, "label") /\ ~At(cells, q, "pointer") =>
              ReadName(cells, read, q, b) = Malformed
BY Zenon DEF ReadName, At

LEMMA NameSetFacts ==
  ASSUME NEW cells, NEW r \in NameSet(cells)
  PROVE  /\ r.ok \in BOOLEAN
         /\ r.ok => r.labels \in Labels(cells) /\ r.next \in Nat
         /\ ~r.ok => r = Malformed
<1> DEFINE T == Labels(cells)
<1>1. CASE r = Malformed
  BY <1>1 DEF Malformed
<1>2. CASE r # Malformed
  <2>1. r \in Readable(cells)
    BY <1>2 DEF NameSet
  <2>1a. PICK labels \in Labels(cells), behind \in Nat : r = Name(labels, behind)
    BY <2>1 DEF Readable
  <2>1b. labels \in T
    BY DEF Labels
  <2> HIDE DEF T
  <2>2. r.ok = TRUE /\ r.labels = labels /\ r.next = behind
    BY <2>1a DEF Name
  <2>3. r.labels \in T /\ r.next \in Nat
    BY <2>1a, <2>1b, <2>2
  <2>. QED
    BY <2>2, <2>3 DEF T
<1>. QED
  BY <1>1, <1>2

LEMMA NameInSet ==
  ASSUME NEW cells, NEW labels \in Labels(cells), NEW behind \in Nat
  PROVE  Name(labels, behind) \in NameSet(cells)
BY DEF NameSet, Readable, Labels

LEMMA ReadNameTyped ==
  ASSUME NEW cells, IsSequence(cells), NEW read \in [Places(cells) -> NameSet(cells)],
         NEW x \in Places(cells)
  PROVE  ReadName(cells, read, x[1], x[2]) \in NameSet(cells)
<1>1. PICK q \in 1..(Len(cells) + 1), b \in 0..Redirects : x = <<q, b>> /\ x[1] = q /\ x[2] = b
  BY DEF Places
<1>2. q \in Nat /\ q + 1 \in Nat /\ Malformed \in NameSet(cells)
  BY <1>1, SequenceFacts DEF NameSet
<1>3. CASE At(cells, q, "root")
  <2>1. << >> \in Labels(cells)
    BY DEF Labels
  <2>. QED
    BY <1>1, <1>2, <1>3, <2>1, NameInSet, ReadNameCases
<1>4. CASE At(cells, q, "label")
  <2> DEFINE rest == read[<<q + 1, b>>]
  <2>1. rest \in NameSet(cells)
    BY <1>4, ReadsAhead DEF At
  <2>2. ASSUME rest.ok
        PROVE  <<cells[q].text>> \o Dotted(cells, q + 1, rest.labels) \in Labels(cells) /\ rest.next \in Nat
    <3>1. rest.labels \in Labels(cells) /\ rest.next \in Nat
      BY <2>1, <2>2, NameSetFacts
    <3>2. Dotted(cells, q + 1, rest.labels) \in Labels(cells)
      <4> HIDE DEF rest
      <4>1. <<NoText>> \in Labels(cells)
        BY DEF Labels
      <4>. QED
        BY <3>1, <4>1 DEF Dotted
    <3>3. cells[q].text \in LabelTexts(cells) \cup {NoText}
      BY <1>4 DEF At, LabelTexts
    <3> HIDE DEF rest
    <3>. QED
      BY <3>1, <3>2, <3>3 DEF Labels
  <2>3. ReadName(cells, read, q, b) =
          IF rest.ok THEN Name(<<cells[q].text>> \o Dotted(cells, q + 1, rest.labels), rest.next)
                     ELSE Malformed
    BY <1>4, ReadNameCases
  <2> HIDE DEF rest
  <2>. QED
    BY <1>1, <1>2, <2>2, <2>3, NameInSet
<1>5. CASE At(cells, q, "pointer")
  <2> DEFINE rest == read[<<cells[q].to, b - 1>>]
  <2>1. ASSUME cells[q].to \in DOMAIN cells, MayRedirect(b), rest.ok
        PROVE  rest.labels \in Labels(cells)
    <3>1. <<cells[q].to, b - 1>> \in Places(cells)
      BY <1>5, <2>1, ReadsAhead DEF At
    <3>2. rest \in NameSet(cells)
      BY <3>1
    <3>. QED
      BY <2>1, <3>2, NameSetFacts
  <2>2. ReadName(cells, read, q, b) =
          IF cells[q].to \in DOMAIN cells /\ MayRedirect(b) /\ rest.ok
            THEN Name(rest.labels, q + 1) ELSE Malformed
    BY <1>5, ReadNameCases
  <2> HIDE DEF rest
  <2>. QED
    BY <1>1, <1>2, <2>1, <2>2, NameInSet
<1>. QED
  BY <1>1, <1>2, <1>3, <1>4, <1>5, ReadNameCases

LEMMA ReadNameLooksAhead ==
  ASSUME NEW cells, IsSequence(cells), NEW f, NEW g, NEW x \in Places(cells),
         \A y \in Places(cells) : Left(cells)[y] < Left(cells)[x] => f[y] = g[y]
  PROVE  ReadName(cells, f, x[1], x[2]) = ReadName(cells, g, x[1], x[2])
<1>1. PICK q \in 1..(Len(cells) + 1), b \in 0..Redirects : x = <<q, b>> /\ x[1] = q /\ x[2] = b
  BY DEF Places
<1>2. CASE At(cells, q, "label")
  <2>1. f[<<q + 1, b>>] = g[<<q + 1, b>>]
    BY <1>1, <1>2, ReadsAhead DEF At
  <2>2. \A h : ReadName(cells, h, q, b) =
          IF h[<<q + 1, b>>].ok
            THEN Name(<<cells[q].text>> \o Dotted(cells, q + 1, h[<<q + 1, b>>].labels),
                      h[<<q + 1, b>>].next)
            ELSE Malformed
    BY <1>2, ReadNameCases
  <2>. QED
    BY <1>1, <2>1, <2>2, Zenon
<1>3. CASE At(cells, q, "pointer")
  <2>1. cells[q].to \in DOMAIN cells /\ MayRedirect(b) =>
          f[<<cells[q].to, b - 1>>] = g[<<cells[q].to, b - 1>>]
    BY <1>1, <1>3, ReadsAhead DEF At
  <2>2. \A h : ReadName(cells, h, q, b) =
          IF cells[q].to \in DOMAIN cells /\ MayRedirect(b) /\ h[<<cells[q].to, b - 1>>].ok
            THEN Name(h[<<cells[q].to, b - 1>>].labels, q + 1) ELSE Malformed
    BY <1>3, ReadNameCases
  <2>. QED
    BY <1>1, <2>1, <2>2
<1>4. CASE At(cells, q, "root")
  <2>1. \A h : ReadName(cells, h, q, b) = Name(<< >>, q + 1)
    BY <1>4, ReadNameCases
  <2>. QED
    BY <1>1, <2>1
<1>5. CASE ~At(cells, q, "root") /\ ~At(cells, q, "label") /\ ~At(cells, q, "pointer")
  <2>1. \A h : ReadName(cells, h, q, b) = Malformed
    BY <1>5, ReadNameCases
  <2>. QED
    BY <1>1, <2>1
<1>. QED
  BY <1>2, <1>3, <1>4, <1>5

\* read_name is defined at every position with every budget: it is what one level
\* of it makes of the results of its calls.
LEMMA ReadNameEnds ==
  ASSUME NEW cells, IsSequence(cells), NEW q \in 1..(Len(cells) + 1), NEW b \in 0..Redirects
  PROVE  NamesByPlace(cells)[<<q, b>>] = ReadName(cells, NamesByPlace(cells), q, b)
<1> DEFINE S == Places(cells)
           T == NameSet(cells)
           Body(f) == [x \in S |-> ReadName(cells, f, x[1], x[2])]
           body == [f \in [S -> T] |-> Body(f)]
<1>1. \A f \in [S -> T] : Body(f) \in [S -> T]
  BY ReadNameTyped
<1>2. body \in [[S -> T] -> [S -> T]] /\ \A f \in [S -> T] : body[f] = Body(f)
  BY <1>1
<1>3. Left(cells) \in [S -> Nat]
  <2>1. ASSUME NEW x \in S PROVE x[2] * (Len(cells) + 2) + (Len(cells) + 1 - x[1]) \in Nat
    <3>1. PICK p \in 1..(Len(cells) + 1), c \in 0..Redirects : x = <<p, c>> /\ x[1] = p /\ x[2] = c
      BY DEF Places
    <3>2. Len(cells) \in Nat /\ p \in Nat /\ c \in Nat /\ Len(cells) + 1 - p \in Nat
      BY <3>1, SequenceFacts
    <3>3. c * (Len(cells) + 2) \in Nat
      BY <3>2
    <3>. QED
      BY <3>1, <3>2, <3>3
  <2>. QED
    BY <2>1 DEF Left
<1>4. Malformed \in T
  BY DEF NameSet
<1>5. ASSUME NEW f \in [S -> T], NEW g \in [S -> T], NEW x \in S,
             \A y \in S : Left(cells)[y] < Left(cells)[x] => f[y] = g[y]
      PROVE  body[f][x] = body[g][x]
  BY <1>2, <1>5, ReadNameLooksAhead
<1> HIDE DEF body, T, S
<1>6. PICK f \in [S -> T] : f = body[f]
  <2>1. PICK left : left = Left(cells)
    OBVIOUS
  <2>2. \A f, g \in [S -> T] : \A x \in S :
          (\A y \in S : left[y] < left[x] => f[y] = g[y]) => body[f][x] = body[g][x]
    BY <1>5, <2>1
  <2>3. left \in [S -> Nat] /\ body \in [[S -> T] -> [S -> T]]
    BY <1>2, <1>3, <2>1
  <2>. QED
    <3>1. LooksBelow(body, left, S, T)
      BY <2>2, <2>3 DEF LooksBelow
    <3>. QED
      BY <1>4, <3>1, MeasuredRecursion
<1>7. f = Body(f)
  BY <1>2, <1>6
<1>8. NamesByPlace(cells) = CHOOSE g : g = Body(g)
  BY DEF NamesByPlace, Places, S
<1> DEFINE names == NamesByPlace(cells)
<1>9. names = Body(names)
  BY <1>7, <1>8
<1> HIDE DEF names
<1>10. <<q, b>> \in S /\ <<q, b>>[1] = q /\ <<q, b>>[2] = b
  BY DEF S, Places
<1>11. names[<<q, b>>] = ReadName(cells, names, q, b)
  BY <1>9, <1>10
<1>. QED
  BY <1>11 DEF names

-----------------------------------------------------------------------------
LEMMA WalkAhead ==
  ASSUME NEW cells, IsSequence(cells), NEW p, NEW n \in Nat
  PROVE  Walk(cells, NextCell(cells, p))[n] = Walk(cells, p)[n + 1]
<1> DEFINE S == { k \in Nat : Walk(cells, NextCell(cells, p))[k] = Walk(cells, p)[k + 1] }
<1>1. 0 \in S
  <2>1. Walk(cells, p)[0 + 1] = NextCell(cells, p)
    BY WalkSteps
  <2>. QED
    BY <2>1, WalkSteps
<1>2. ASSUME NEW k \in Nat, k \in S PROVE k + 1 \in S
  <2>1. k + 1 \in Nat
    OBVIOUS
  <2>2. Walk(cells, NextCell(cells, p))[k + 1] = NextCell(cells, Walk(cells, NextCell(cells, p))[k])
    BY WalkSteps
  <2>3. Walk(cells, p)[(k + 1) + 1] = NextCell(cells, Walk(cells, p)[k + 1])
    BY <2>1, WalkSteps
  <2>. QED
    BY <1>2, <2>1, <2>2, <2>3
<1> HIDE DEF S
<1>3. n \in S
  BY <1>1, <1>2, Induction
<1>. QED
  BY <1>3 DEF S

\* A walk that has left the message does not come back, and stands still at a root.
LEMMA WalkStops ==
  ASSUME NEW cells, IsSequence(cells), NEW p, NEW i \in Nat,
         ~At(cells, Walk(cells, p)[i], "label"), ~At(cells, Walk(cells, p)[i], "pointer"),
         NEW n \in Nat, i < n
  PROVE  Walk(cells, p)[n] = 0 /\ ~EndsIn(cells, p, n)
<1> DEFINE S == { k \in Nat : i < k => Walk(cells, p)[k] = 0 }
<1>1. 0 \in S
  OBVIOUS
<1>2. ~At(cells, 0, "label") /\ ~At(cells, 0, "pointer") /\ ~At(cells, 0, "root")
  BY SequenceFacts DEF At
<1>3. ASSUME NEW k \in Nat, k \in S PROVE k + 1 \in S
  <2>1. k + 1 \in Nat
    OBVIOUS
  <2>2. Walk(cells, p)[k + 1] = NextCell(cells, Walk(cells, p)[k])
    BY WalkSteps
  <2>3. i < k + 1 => k = i \/ i < k
    OBVIOUS
  <2>. QED
    BY <1>2, <1>3, <2>1, <2>2, <2>3 DEF NextCell
<1> HIDE DEF S
<1>4. n \in S
  BY <1>1, <1>3, Induction
<1>5. Walk(cells, p)[n] = 0
  BY <1>4 DEF S
<1>. QED
  BY <1>2, <1>5 DEF EndsIn

LEMMA EndsAhead ==
  ASSUME NEW cells, IsSequence(cells), NEW p, NEW n \in Nat
  PROVE  /\ EndsIn(cells, p, 0) <=> At(cells, p, "root")
         /\ EndsIn(cells, p, n + 1) <=>
              /\ At(cells, p, "label") \/ At(cells, p, "pointer")
              /\ EndsIn(cells, NextCell(cells, p), n)
<1>1. EndsIn(cells, p, 0) <=> At(cells, p, "root")
  BY WalkSteps DEF EndsIn
<1>2. EndsIn(cells, p, n + 1) <=> EndsIn(cells, NextCell(cells, p), n)
  BY WalkAhead DEF EndsIn
<1>3. ASSUME ~At(cells, p, "label"), ~At(cells, p, "pointer") PROVE ~EndsIn(cells, p, n + 1)
  <2>1. Walk(cells, p)[0] = p /\ n + 1 \in Nat /\ 0 < n + 1 /\ 0 \in Nat
    BY WalkSteps
  <2>. QED
    BY <1>3, <2>1, WalkStops
<1>. QED
  BY <1>1, <1>2, <1>3

LEMMA TextsAhead ==
  ASSUME NEW cells, IsSequence(cells), NEW p, NEW n \in Nat
  PROVE  Texts(cells, p)[n + 1] = TextOf(cells, p) \o Texts(cells, NextCell(cells, p))[n]
<1> DEFINE first == TextOf(cells, p)
           here  == Texts(cells, p)
           ahead == Texts(cells, NextCell(cells, p))
           T == LabelTexts(cells)
           S == { k \in Nat : here[k + 1] = first \o ahead[k] }
<1>0. first \in Seq(T) /\ \A k \in Nat : here[k] \in Seq(T) /\ ahead[k] \in Seq(T)
  BY TextIsSequence, TextSteps
<1>1. 0 \in S
  <2>1. here[0 + 1] = here[0] \o TextOf(cells, Walk(cells, p)[0])
    BY TextSteps
  <2>2. here[0] = << >> /\ ahead[0] = << >> /\ Walk(cells, p)[0] = p
    BY TextSteps, WalkSteps
  <2> HIDE DEF first, here, ahead
  <2>3. here[0 + 1] = << >> \o first
    BY <2>1, <2>2 DEF first
  <2>4. << >> \o first = first /\ first \o << >> = first
    BY <1>0
  <2>. QED
    BY <2>2, <2>3, <2>4
<1>2. ASSUME NEW k \in Nat, k \in S PROVE k + 1 \in S
  <2>1. k + 1 \in Nat
    OBVIOUS
  <2>2. PICK t : t = TextOf(cells, Walk(cells, p)[k + 1]) /\ t \in Seq(T)
    BY TextIsSequence
  <2>3. here[(k + 1) + 1] = here[k + 1] \o t
    BY <2>1, <2>2, TextSteps
  <2>4. ahead[k + 1] = ahead[k] \o t
    <3>1. ahead[k + 1] = ahead[k] \o TextOf(cells, Walk(cells, NextCell(cells, p))[k])
      BY TextSteps
    <3>. QED
      BY <2>2, <3>1, WalkAhead
  <2>5. here[k + 1] = first \o ahead[k]
    BY <1>2
  <2>5a. PICK a, u : a = ahead[k] /\ u = first /\ a \in Seq(T) /\ u \in Seq(T)
    BY <1>0
  <2> HIDE DEF here, ahead, first, T
  <2>6. (first \o ahead[k]) \o t = first \o (ahead[k] \o t)
    <3>1. a \in Seq(T) /\ u \in Seq(T) /\ t \in Seq(T)
      BY <2>2, <2>5a
    <3>2. (u \o a) \o t = u \o (a \o t)
      BY <3>1, ConcatAssociative
    <3>. QED
      BY <2>5a, <3>2
  <2>. QED
    BY <2>1, <2>3, <2>4, <2>5, <2>6
<1> HIDE DEF S
<1>3. n \in S
  BY <1>1, <1>2, Induction
<1>. QED
  BY <1>3 DEF S

LEMMA PointersAhead ==
  ASSUME NEW cells, IsSequence(cells), NEW p, NEW n \in Nat
  PROVE  /\ Cardinality(PointersMet(cells, p, 0)) = 0
         /\ IsFiniteSet(PointersMet(cells, p, n)) /\ Cardinality(PointersMet(cells, p, n)) \in Nat
         /\ Cardinality(PointersMet(cells, p, n + 1)) =
              Cardinality(PointersMet(cells, NextCell(cells, p), n))
                + IF At(cells, p, "pointer") THEN 1 ELSE 0
<1> DEFINE met(q, k) == PointersMet(cells, q, k)
<1>1. met(p, 0) = {}
  BY DEF PointersMet
<1>2. \A q, k : k \in Nat => IsFiniteSet(met(q, k)) /\ Cardinality(met(q, k)) \in Nat
  <2> SUFFICES ASSUME NEW q, NEW k \in Nat
               PROVE  IsFiniteSet(met(q, k)) /\ Cardinality(met(q, k)) \in Nat
    OBVIOUS
  <2>1. met(q, k) \subseteq 0..(k - 1)
    BY DEF PointersMet
  <2>2. IsFiniteSet(0..(k - 1))
    BY FS_Interval
  <2>. QED
    BY <2>1, <2>2, FS_Subset, FS_CardinalityType
<1> DEFINE P == met(NextCell(cells, p), n)
           moved == { i + 1 : i \in P }
<1>3. met(p, n + 1) = moved \cup (IF At(cells, p, "pointer") THEN {0} ELSE {})
  <2>1. Walk(cells, p)[0] = p
    BY WalkSteps
  <2>2. \A i \in Nat : Walk(cells, NextCell(cells, p))[i] = Walk(cells, p)[i + 1]
    BY WalkAhead
  <2>3. ASSUME NEW i \in met(p, n + 1), i # 0 PROVE i \in moved
    <3>1. i - 1 \in 0..(n - 1) /\ i - 1 \in Nat /\ (i - 1) + 1 = i /\ At(cells, Walk(cells, p)[i], "pointer")
      BY <2>3 DEF PointersMet
    <3>2. i - 1 \in P
      BY <2>2, <3>1 DEF PointersMet
    <3>. QED
      BY <3>1, <3>2
  <2>4. ASSUME NEW i \in P PROVE i + 1 \in met(p, n + 1)
    BY <2>2 DEF PointersMet
  <2>5. 0 \in met(p, n + 1) <=> At(cells, p, "pointer")
    BY <2>1 DEF PointersMet
  <2> HIDE DEF met
  <2>. QED
    BY <2>3, <2>4, <2>5
<1>4. IsFiniteSet(moved) /\ Cardinality(moved) = Cardinality(P)
  <2> DEFINE f == [i \in P |-> i + 1]
  <2>1. f \in Bijection(P, moved)
    <3>1. P \subseteq Nat
      BY DEF PointersMet
    <3> HIDE DEF P
    <3>. QED
      BY <3>1 DEF Bijection, Injection, Surjection, IsInjective
  <2>2. IsFiniteSet(P)
    BY <1>2
  <2> HIDE DEF f, P, moved
  <2>3. ExistsBijection(P, moved)
    BY <2>1 DEF ExistsBijection
  <2>. QED
    BY <2>2, <2>3, FS_Bijection
<1>5. 0 \notin moved
  BY DEF PointersMet
<1> HIDE DEF met, P, moved
<1>6. Cardinality(P) \in Nat
  BY <1>2 DEF P
<1>7. Cardinality(met(p, n + 1)) = Cardinality(P) + IF At(cells, p, "pointer") THEN 1 ELSE 0
  <2>1. CASE At(cells, p, "pointer")
    <3>1. met(p, n + 1) = moved \cup {0}
      BY <1>3, <2>1
    <3>. QED
      BY <1>4, <1>5, <2>1, <3>1, FS_AddElement
  <2>2. CASE ~At(cells, p, "pointer")
    <3>1. met(p, n + 1) = moved
      BY <1>3, <2>2
    <3>. QED
      BY <1>4, <1>6, <2>2, <3>1
  <2>. QED
    BY <2>1, <2>2
<1>8. Cardinality(met(p, 0)) = 0
  BY <1>1, FS_EmptySet
<1>. QED
  BY <1>2, <1>7, <1>8 DEF met, P

\* A name of pointers alone spells nothing, and one that spells nothing is a root or
\* begins and ends with a pointer.
LEMMA SilentWalk ==
  ASSUME NEW cells, IsSequence(cells), NEW p, NEW n \in Nat \ {0}, EndsIn(cells, p, n),
         Texts(cells, p)[n] = << >>
  PROVE  At(cells, p, "pointer") /\ At(cells, Walk(cells, p)[n - 1], "pointer")
<1>1. PICK k \in Nat : k = n - 1 /\ k + 1 = n /\ k < n
  OBVIOUS
<1>2. \A q : TextOf(cells, q) = << >> => ~At(cells, q, "label")
  BY DEF TextOf
<1>3. \A T : \A a, b \in Seq(T) : a \o b = << >> => a = << >> /\ b = << >>
  OBVIOUS
<1>4. ~At(cells, Walk(cells, p)[k], "label")
  <2>1. PICK a, b : /\ a = Texts(cells, p)[k] /\ a \in Seq(LabelTexts(cells))
                    /\ b = TextOf(cells, Walk(cells, p)[k]) /\ b \in Seq(LabelTexts(cells))
    BY TextSteps, TextIsSequence
  <2>2. Texts(cells, p)[k + 1] = a \o b
    BY <2>1, TextSteps
  <2>3. a \o b = << >>
    BY <1>1, <2>2
  <2>. QED
    BY <1>2, <1>3, <2>1, <2>3
<1>5. At(cells, Walk(cells, p)[k], "pointer")
  BY <1>1, <1>4, WalkStops
<1>6. ~At(cells, p, "label")
  <2>1. PICK a, b : /\ a = TextOf(cells, p) /\ a \in Seq(LabelTexts(cells))
                    /\ b = Texts(cells, NextCell(cells, p))[k] /\ b \in Seq(LabelTexts(cells))
    BY TextSteps, TextIsSequence
  <2>2. Texts(cells, p)[k + 1] = a \o b
    BY <2>1, TextsAhead
  <2>3. a \o b = << >>
    BY <1>1, <2>2
  <2>. QED
    BY <1>2, <1>3, <2>1, <2>3
<1>. QED
  BY <1>1, <1>5, <1>6, EndsAhead

LEMMA SpelledAhead ==
  ASSUME NEW cells, IsSequence(cells), NEW p, NEW n \in Nat, EndsIn(cells, p, n + 1)
  PROVE  LET rest == Spelled(cells, NextCell(cells, p), n)
         IN  /\ At(cells, p, "label") =>
                  Spelled(cells, p, n + 1) = <<cells[p].text>> \o Dotted(cells, p + 1, rest)
             /\ At(cells, p, "pointer") => Spelled(cells, p, n + 1) = rest
             /\ Spelled(cells, p, 0) = << >>
             /\ rest \in Labels(cells)
<1> DEFINE to   == NextCell(cells, p)
           rest == Spelled(cells, to, n)
<1>1. PICK t : t = Texts(cells, to)[n] /\ t \in Seq(LabelTexts(cells))
  BY TextSteps
<1>2. Texts(cells, p)[n + 1] = TextOf(cells, p) \o t
  BY <1>1, TextsAhead
<1>3. PICK dot \in BOOLEAN : dot = At(cells, Walk(cells, p)[n], "pointer")
  BY DEF At
<1>4. Spelled(cells, p, n + 1) =
        IF TextOf(cells, p) \o t # << >> /\ dot THEN Append(TextOf(cells, p) \o t, NoText)
                                                ELSE TextOf(cells, p) \o t
  <2>1. (n + 1) - 1 = n
    OBVIOUS
  <2>. QED
    BY <1>2, <1>3, <2>1 DEF Spelled
<1>5. n # 0 => Walk(cells, p)[n] = Walk(cells, to)[n - 1]
  <2>1. n # 0 => n - 1 \in Nat /\ (n - 1) + 1 = n
    OBVIOUS
  <2>. QED
    BY <2>1, WalkAhead
<1>6. n = 0 => t = << >> /\ Walk(cells, p)[n] = p
  <2>1. Texts(cells, to)[0] = << >> /\ Walk(cells, p)[0] = p
    BY TextSteps, WalkSteps
  <2>. QED
    BY <1>1, <2>1
<1>7. rest = IF t # << >> /\ dot THEN Append(t, NoText) ELSE t
  <2>1. CASE n = 0
    BY <1>1, <1>6, <2>1 DEF Spelled
  <2>2. CASE n # 0
    BY <1>1, <1>3, <1>5, <2>2 DEF Spelled
  <2>. QED
    BY <2>1, <2>2
<1>8. Spelled(cells, p, 0) = << >>
  BY TextSteps DEF Spelled
<1>9. EndsIn(cells, to, n)
  BY EndsAhead
<1>10. rest \in Labels(cells)
  BY <1>1, <1>7 DEF Labels
<1>11. ASSUME At(cells, p, "pointer") PROVE Spelled(cells, p, n + 1) = rest
  <2>1. TextOf(cells, p) = << >>
    BY <1>11 DEF TextOf, At
  <2>2. << >> \o t = t
    BY <1>1
  <2>. QED
    BY <1>4, <1>7, <2>1, <2>2
<1>12. ASSUME At(cells, p, "label")
       PROVE  Spelled(cells, p, n + 1) = <<cells[p].text>> \o Dotted(cells, p + 1, rest)
  <2>1. PICK x : x = cells[p].text /\ TextOf(cells, p) = <<x>> /\ to = p + 1
    BY <1>12 DEF TextOf, NextCell, At
  <2>2. dot /\ t = << >> => At(cells, p + 1, "pointer")
    <3>1. n # 0 /\ t = << >> => At(cells, to, "pointer")
      BY <1>1, <1>9, SilentWalk
    <3>2. n = 0 => ~dot
      BY <1>3, <1>6, <1>12 DEF At
    <3>. QED
      BY <2>1, <3>1, <3>2
  <2>3. t = << >> /\ At(cells, p + 1, "pointer") => dot
    <3>1. n # 0 /\ t = << >> => dot
      BY <1>1, <1>3, <1>5, <1>9, SilentWalk
    <3>2. n = 0 => ~At(cells, p + 1, "pointer")
      BY <1>9, <2>1, EndsAhead DEF At
    <3>. QED
      BY <3>1, <3>2
  <2>4. Spelled(cells, p, n + 1) = IF dot THEN Append(<<x>> \o t, NoText) ELSE <<x>> \o t
    <3>1. <<x>> \o t # << >>
      BY <1>1
    <3>. QED
      BY <1>4, <2>1, <3>1
  <2>5. Dotted(cells, p + 1, rest) = IF dot THEN Append(t, NoText) ELSE t
    <3>1. CASE t = << >>
      <4>1. Append(t, NoText) = <<NoText>>
        BY <3>1
      <4>. QED
        BY <1>7, <2>2, <2>3, <3>1, <4>1 DEF Dotted
    <3>2. CASE t # << >>
      <4>1. Append(t, NoText) # << >>
        BY <1>1
      <4>. QED
        BY <1>7, <3>2, <4>1 DEF Dotted
    <3>. QED
      BY <3>1, <3>2
  <2>6. Append(<<x>> \o t, NoText) = <<x>> \o Append(t, NoText)
    BY <1>1
  <2>. QED
    BY <2>1, <2>4, <2>5, <2>6
<1>. QED
  BY <1>8, <1>10, <1>11, <1>12

\* What read_name makes of a name whose walk ends.
LEMMA NameIsRead ==
  ASSUME NEW cells, IsSequence(cells), NEW n \in Nat
  PROVE  \A p : \A b \in 1..Redirects :
           EndsIn(cells, p, n) =>
             LET name == NamesByPlace(cells)[<<p, b>>]
             IN  /\ name.ok \in BOOLEAN
                 /\ name.ok <=> Cardinality(PointersMet(cells, p, n)) < b
                 /\ name.ok => name.labels = Spelled(cells, p, n)
<1> DEFINE names == NamesByPlace(cells)
           IsRead(p, b, k) ==
             LET name == names[<<p, b>>]
             IN  /\ name.ok \in BOOLEAN
                 /\ name.ok <=> Cardinality(PointersMet(cells, p, k)) < b
                 /\ name.ok => name.labels = Spelled(cells, p, k)
           S == { k \in Nat : \A p : \A b \in 1..Redirects : EndsIn(cells, p, k) => IsRead(p, b, k) }
<1>1. ASSUME NEW p \in DOMAIN cells, NEW b \in 1..Redirects
      PROVE  names[<<p, b>>] = ReadName(cells, names, p, b)
  BY RedirectsAssumption, SequenceFacts, ReadNameEnds
<1>2. 0 \in S
  <2> SUFFICES ASSUME NEW p, NEW b \in 1..Redirects, EndsIn(cells, p, 0) PROVE IsRead(p, b, 0)
    OBVIOUS
  <2>1. At(cells, p, "root") /\ p \in DOMAIN cells
    BY EndsAhead DEF At
  <2>2. names[<<p, b>>] = Name(<< >>, p + 1)
    <3>1. ReadName(cells, names, p, b) = Name(<< >>, p + 1)
      BY <2>1, ReadNameCases
    <3>. QED
      BY <1>1, <2>1, <3>1
  <2>3. Spelled(cells, p, 0) = << >>
    BY TextSteps DEF Spelled
  <2>4. Cardinality(PointersMet(cells, p, 0)) = 0
    BY PointersAhead
  <2>. QED
    BY <2>2, <2>3, <2>4 DEF Name
<1>3. ASSUME NEW k \in Nat, k \in S PROVE k + 1 \in S
  <2>0. k + 1 \in Nat
    OBVIOUS
  <2> SUFFICES ASSUME NEW p, NEW b \in 1..Redirects, EndsIn(cells, p, k + 1)
               PROVE  IsRead(p, b, k + 1)
    BY <2>0
  <2> DEFINE to == NextCell(cells, p)
  <2>1. (At(cells, p, "label") \/ At(cells, p, "pointer")) /\ EndsIn(cells, to, k) /\ p \in DOMAIN cells
    BY EndsAhead DEF At
  <2>2. PICK c \in Nat : c = Cardinality(PointersMet(cells, to, k))
    BY PointersAhead
  <2>3. Cardinality(PointersMet(cells, p, k + 1)) = c + IF At(cells, p, "pointer") THEN 1 ELSE 0
    BY <2>2, PointersAhead
  <2>4. CASE At(cells, p, "label")
    <3>1. to = p + 1 /\ ~At(cells, p, "pointer")
      BY <2>4 DEF NextCell, At
    <3>2. IsRead(to, b, k)
      BY <1>3, <2>1
    <3>3. Cardinality(PointersMet(cells, p, k + 1)) = c
      BY <2>2, <2>3, <3>1
    <3> DEFINE rest == names[<<to, b>>]
    <3>4. names[<<p, b>>] =
            IF rest.ok THEN Name(<<cells[p].text>> \o Dotted(cells, p + 1, rest.labels), rest.next)
                       ELSE Malformed
      <4>1. ReadName(cells, names, p, b) =
              IF names[<<p + 1, b>>].ok
                THEN Name(<<cells[p].text>> \o Dotted(cells, p + 1, names[<<p + 1, b>>].labels),
                          names[<<p + 1, b>>].next)
                ELSE Malformed
        BY <2>4, ReadNameCases
      <4>. QED
        BY <1>1, <2>1, <3>1, <4>1
    <3>5. rest.ok \in BOOLEAN /\ (rest.ok <=> c < b) /\ (rest.ok => rest.labels = Spelled(cells, to, k))
      BY <2>2, <3>2
    <3>6. Spelled(cells, p, k + 1) = <<cells[p].text>> \o Dotted(cells, p + 1, Spelled(cells, to, k))
      BY <2>4, SpelledAhead
    <3> HIDE DEF rest, names, to
    <3>7. CASE rest.ok
      BY <3>3, <3>4, <3>5, <3>6, <3>7 DEF Name
    <3>8. CASE ~rest.ok
      BY <3>3, <3>4, <3>5, <3>8 DEF Malformed
    <3>. QED
      BY <3>7, <3>8
  <2>5. CASE At(cells, p, "pointer")
    <3>1. to = cells[p].to
      BY <2>5 DEF NextCell, At
    <3>2. to \in DOMAIN cells
      <4>1. CASE k = 0
        BY <2>1, <4>1, EndsAhead DEF At
      <4>2. CASE k # 0
        <5>1. PICK j \in Nat : k = j + 1
          <6>1. k - 1 \in Nat /\ k = (k - 1) + 1
            BY <4>2
          <6>. QED
            BY <6>1
        <5>. QED
          BY <2>1, <5>1, EndsAhead DEF At
      <4>. QED
        BY <4>1, <4>2
    <3>3. Cardinality(PointersMet(cells, p, k + 1)) = c + 1
      BY <2>3, <2>5
    <3> DEFINE rest == names[<<to, b - 1>>]
    <3>4. names[<<p, b>>] =
            IF MayRedirect(b) /\ rest.ok THEN Name(rest.labels, p + 1) ELSE Malformed
      <4>1. ReadName(cells, names, p, b) =
              IF cells[p].to \in DOMAIN cells /\ MayRedirect(b) /\ names[<<cells[p].to, b - 1>>].ok
                THEN Name(names[<<cells[p].to, b - 1>>].labels, p + 1)
                ELSE Malformed
        BY <2>5, ReadNameCases
      <4>. QED
        BY <1>1, <2>1, <3>1, <3>2, <4>1
    <3>5. Spelled(cells, p, k + 1) = Spelled(cells, to, k)
      BY <2>5, SpelledAhead
    <3>6. CASE b > 1
      <4>1. b - 1 \in 1..Redirects /\ MayRedirect(b) /\ (c + 1 < b <=> c < b - 1)
        BY <2>2, <3>6, RedirectsAssumption DEF MayRedirect
      <4>2. rest.ok \in BOOLEAN /\ (rest.ok <=> c < b - 1) /\ (rest.ok => rest.labels = Spelled(cells, to, k))
        BY <1>3, <2>1, <2>2, <4>1
      <4> HIDE DEF rest, names, to
      <4>3. CASE rest.ok
        BY <3>3, <3>4, <3>5, <4>1, <4>2, <4>3 DEF Name
      <4>4. CASE ~rest.ok
        BY <3>3, <3>4, <4>1, <4>2, <4>4 DEF Malformed
      <4>. QED
        BY <4>3, <4>4
    <3>7. CASE ~(b > 1)
      <4>1. ~MayRedirect(b) /\ ~(c + 1 < b)
        BY <2>2, <3>7 DEF MayRedirect
      <4> HIDE DEF rest, names, to
      <4>2. names[<<p, b>>] = Malformed
        BY <3>4, <4>1
      <4>. QED
        BY <3>3, <4>1, <4>2 DEF Malformed
    <3>. QED
      BY <3>6, <3>7
  <2>. QED
    BY <2>1, <2>4, <2>5
<1> HIDE DEF S
<1>4. n \in S
  BY <1>2, <1>3, Induction
<1>. QED
  BY <1>4 DEF S

\* A walk that ends meets no cell twice.
LEMMA WalkIsShort ==
  ASSUME NEW cells, IsSequence(cells), NEW p, NEW n \in Nat, EndsIn(cells, p, n)
  PROVE  n \in 0..Len(cells)
<1> DEFINE walk == Walk(cells, p)
<1>0. Len(cells) \in Nat /\ DOMAIN cells = 1..Len(cells)
  BY SequenceFacts
<1>1. \A q : At(cells, q, "root") => ~At(cells, q, "label") /\ ~At(cells, q, "pointer")
  BY DEF At
<1>2. ASSUME NEW i \in 0..n PROVE walk[i] \in DOMAIN cells
  <2>1. CASE i = n
    BY <2>1 DEF EndsIn, At
  <2>2. CASE i # n
    <3>1. i \in Nat /\ i < n
      BY <2>2
    <3>2. At(cells, walk[i], "label") \/ At(cells, walk[i], "pointer")
      BY <3>1, WalkStops
    <3>. QED
      BY <3>2 DEF At
  <2>. QED
    BY <2>1, <2>2
<1>3. ASSUME NEW x \in 0..n, NEW y \in 0..n, x < y, walk[x] = walk[y] PROVE FALSE
  <2> DEFINE S == { k \in Nat : walk[x + k] = walk[y + k] }
  <2>1. 0 \in S
    BY <1>3
  <2>2. ASSUME NEW k \in Nat, k \in S PROVE k + 1 \in S
    <3>1. x + k \in Nat /\ y + k \in Nat /\ (x + k) + 1 = x + (k + 1) /\ (y + k) + 1 = y + (k + 1)
      OBVIOUS
    <3>2. walk[(x + k) + 1] = NextCell(cells, walk[x + k])
      BY <3>1, WalkSteps
    <3>3. walk[(y + k) + 1] = NextCell(cells, walk[y + k])
      BY <3>1, WalkSteps
    <3> HIDE DEF walk
    <3>. QED
      BY <2>2, <3>1, <3>2, <3>3
  <2> HIDE DEF S
  <2>3. n - y \in S
    BY <2>1, <2>2, Induction
  <2>4. walk[x + (n - y)] = walk[y + (n - y)]
    BY <2>3 DEF S
  <2>5. y + (n - y) = n /\ x + (n - y) \in Nat /\ x + (n - y) < n
    BY <1>3
  <2>6. At(cells, walk[x + (n - y)], "root")
    BY <2>4, <2>5 DEF EndsIn
  <2>. QED
    BY <1>1, <2>5, <2>6, WalkStops
<1>4. CASE n + 1 > Len(cells)
  <2> DEFINE f == [i \in 0..n |-> walk[i]]
  <2>1. f \in [0..n -> 1..Len(cells)]
    BY <1>0, <1>2
  <2>2. IsFiniteSet(0..n) /\ Cardinality(0..n) = n + 1
    BY FS_Interval
  <2>3. IsFiniteSet(1..Len(cells)) /\ Cardinality(1..Len(cells)) = Len(cells)
    <3>1. PICK l \in Nat : l = Len(cells)
      BY <1>0
    <3>2. IsFiniteSet(1..l) /\ Cardinality(1..l) = IF 1 > l THEN 0 ELSE l - 1 + 1
      BY FS_Interval
    <3>. QED
      BY <3>1, <3>2
  <2> HIDE DEF f
  <2>4. PICK x, y \in 0..n : x # y /\ f[x] = f[y]
    BY <1>0, <1>4, <2>1, <2>2, <2>3, FS_PigeonHole
  <2>5. walk[x] = walk[y] /\ (x < y \/ y < x)
    BY <2>4 DEF f
  <2>. QED
    BY <1>3, <2>5
<1>5. CASE ~(n + 1 > Len(cells))
  BY <1>0, <1>5
<1>. QED
  BY <1>4, <1>5

\* A name that is read is one whose walk ends.
LEMMA ReadNameHasEnd ==
  ASSUME NEW cells, IsSequence(cells), NEW q \in 1..(Len(cells) + 1), NEW b \in 0..Redirects,
         NamesByPlace(cells)[<<q, b>>].ok
  PROVE  \E n \in 0..Len(cells) : EndsIn(cells, q, n)
<1> DEFINE names == NamesByPlace(cells)
           Ends(p) == \E n \in Nat : EndsIn(cells, p, n)
           S == { k \in Nat : \A p \in 1..(Len(cells) + 1), c \in 0..Redirects :
                               Left(cells)[<<p, c>>] < k /\ names[<<p, c>>].ok => Ends(p) }
<1>0. ASSUME NEW p \in 1..(Len(cells) + 1), NEW c \in 0..Redirects
      PROVE  /\ names[<<p, c>>] = ReadName(cells, names, p, c)
             /\ Left(cells)[<<p, c>>] \in Nat
  <2>1. names[<<p, c>>] = ReadName(cells, names, p, c)
    BY ReadNameEnds
  <2>2. <<p, c>> \in Places(cells) /\ Len(cells) \in Nat /\ Redirects \in Nat
    BY SequenceFacts, RedirectsAssumption DEF Places
  <2>3. Left(cells)[<<p, c>>] = c * (Len(cells) + 2) + (Len(cells) + 1 - p)
    BY <2>2 DEF Left
  <2>4. c * (Len(cells) + 2) \in Nat /\ Len(cells) + 1 - p \in Nat
    BY <2>2
  <2>. QED
    BY <2>1, <2>3, <2>4
<1>1. 0 \in S
  BY <1>0
<1>2. ASSUME NEW p, Ends(NextCell(cells, p)), At(cells, p, "label") \/ At(cells, p, "pointer")
      PROVE  Ends(p)
  <2>1. PICK n \in Nat : EndsIn(cells, NextCell(cells, p), n)
    BY <1>2
  <2>2. n + 1 \in Nat /\ EndsIn(cells, p, n + 1)
    BY <1>2, <2>1, EndsAhead
  <2>. QED
    BY <2>2
<1>3. ASSUME NEW k \in Nat, k \in S PROVE k + 1 \in S
  <2>0. k + 1 \in Nat
    OBVIOUS
  <2> SUFFICES ASSUME NEW p \in 1..(Len(cells) + 1), NEW c \in 0..Redirects,
                      Left(cells)[<<p, c>>] < k + 1, names[<<p, c>>].ok
               PROVE  Ends(p)
    BY <2>0
  <2>1. ReadName(cells, names, p, c).ok
    BY <1>0
  <2>2. ~Malformed.ok
    BY DEF Malformed
  <2>3. \A r \in 1..(Len(cells) + 1), d \in 0..Redirects :
          Left(cells)[<<r, d>>] < Left(cells)[<<p, c>>] /\ names[<<r, d>>].ok => Ends(r)
    <3> SUFFICES ASSUME NEW r \in 1..(Len(cells) + 1), NEW d \in 0..Redirects,
                        Left(cells)[<<r, d>>] < Left(cells)[<<p, c>>], names[<<r, d>>].ok
                 PROVE  Ends(r)
      OBVIOUS
    <3>1. \A x, y \in Nat : x < y /\ y < k + 1 => x < k
      OBVIOUS
    <3>2. Left(cells)[<<r, d>>] < k
      BY <1>0, <3>1
    <3>. QED
      BY <1>3, <3>2
  <2>4. CASE At(cells, p, "root")
    BY <2>4, EndsAhead
  <2>5. CASE At(cells, p, "label")
    <3>1. names[<<p + 1, c>>].ok
      <4>1. ReadName(cells, names, p, c) =
              IF names[<<p + 1, c>>].ok
                THEN Name(<<cells[p].text>> \o Dotted(cells, p + 1, names[<<p + 1, c>>].labels),
                          names[<<p + 1, c>>].next)
                ELSE Malformed
        BY <2>5, ReadNameCases
      <4>. QED
        BY <2>1, <2>2, <4>1
    <3>2. /\ Left(cells)[<<p + 1, c>>] < Left(cells)[<<p, c>>]
          /\ p + 1 \in 1..(Len(cells) + 1)
      BY <2>5, ReadsAhead, SequenceFacts DEF At
    <3>3. Ends(p + 1) /\ NextCell(cells, p) = p + 1
      BY <2>3, <2>5, <3>1, <3>2 DEF NextCell, At
    <3>. QED
      BY <1>2, <2>5, <3>3
  <2>6. CASE At(cells, p, "pointer")
    <3> DEFINE to == cells[p].to
    <3>1. to \in DOMAIN cells /\ MayRedirect(c) /\ names[<<to, c - 1>>].ok
      <4>1. ReadName(cells, names, p, c) =
              IF cells[p].to \in DOMAIN cells /\ MayRedirect(c) /\ names[<<cells[p].to, c - 1>>].ok
                THEN Name(names[<<cells[p].to, c - 1>>].labels, p + 1)
                ELSE Malformed
        BY <2>6, ReadNameCases
      <4>. QED
        BY <2>1, <2>2, <4>1
    <3>2. Left(cells)[<<to, c - 1>>] < Left(cells)[<<p, c>>]
      BY <2>6, <3>1, ReadsAhead DEF At
    <3>3. to \in 1..(Len(cells) + 1) /\ c - 1 \in 0..Redirects
      BY <3>1, SequenceFacts, RedirectsAssumption DEF MayRedirect
    <3>4. Ends(to) /\ NextCell(cells, p) = to
      BY <2>3, <2>6, <3>1, <3>2, <3>3 DEF NextCell, At
    <3>. QED
      BY <1>2, <2>6, <3>4
  <2>7. CASE ~At(cells, p, "root") /\ ~At(cells, p, "label") /\ ~At(cells, p, "pointer")
    BY <2>1, <2>2, <2>7, ReadNameCases
  <2>. QED
    BY <2>4, <2>5, <2>6, <2>7
<1> HIDE DEF S
<1>4. Left(cells)[<<q, b>>] + 1 \in Nat /\ Left(cells)[<<q, b>>] < Left(cells)[<<q, b>>] + 1
  BY <1>0
<1>5. Left(cells)[<<q, b>>] + 1 \in S
  BY <1>1, <1>3, <1>4, Induction
<1>6. Ends(q)
  BY <1>4, <1>5 DEF S
<1>. QED
  BY <1>6, WalkIsShort

\* mdns.rs:416, read_name: on any cells whatever it ends, and what it returns is
\* what the budget allows of the name that stands there.
THEOREM NamesAlwaysDecode ==
  ASSUME NEW cells, IsSequence(cells)
  PROVE  NamesDecode(cells)
<1> SUFFICES ASSUME NEW p \in DOMAIN cells
             PROVE  LET name  == NameAt(cells, p)
                        steps == { n \in 0..Len(cells) : EndsIn(cells, p, n) }
                    IN  /\ name.ok <=> (\E n \in steps : Cardinality(PointersMet(cells, p, n)) < Redirects)
                        /\ name.ok => \A n \in steps : name.labels = Spelled(cells, p, n)
  BY DEF NamesDecode
<1> DEFINE name == NamesByPlace(cells)[<<p, Redirects>>]
<1>1. NameAt(cells, p) = name
  BY DEF NameAt
<1>2. Redirects \in 1..Redirects /\ Redirects \in 0..Redirects /\ p \in 1..(Len(cells) + 1)
  BY RedirectsAssumption, SequenceFacts
<1>3. ASSUME NEW n \in 0..Len(cells), EndsIn(cells, p, n)
      PROVE  /\ name.ok <=> Cardinality(PointersMet(cells, p, n)) < Redirects
             /\ name.ok => name.labels = Spelled(cells, p, n)
  <2>1. n \in Nat
    OBVIOUS
  <2>2. \A b \in 1..Redirects :
          LET r == NamesByPlace(cells)[<<p, b>>]
          IN  /\ r.ok <=> Cardinality(PointersMet(cells, p, n)) < b
              /\ r.ok => r.labels = Spelled(cells, p, n)
    BY <1>3, <2>1, NameIsRead
  <2>. QED
    BY <1>2, <2>2
<1>4. name.ok => \E n \in 0..Len(cells) : EndsIn(cells, p, n)
  BY <1>2, ReadNameHasEnd
<1>. QED
  BY <1>1, <1>3, <1>4

-----------------------------------------------------------------------------
LEMMA NextIsRead ==
  ASSUME NEW cells, IsSequence(cells), NEW b \in 0..Redirects, NEW d \in Nat
  PROVE  \A p, behind :
           NameFills(cells, p, behind) /\ behind - p = d + 1 /\ NamesByPlace(cells)[<<p, b>>].ok =>
             NamesByPlace(cells)[<<p, b>>].next = behind
<1> DEFINE names == NamesByPlace(cells)
           IsNext(p, behind, k) ==
             NameFills(cells, p, behind) /\ behind - p = k + 1 /\ names[<<p, b>>].ok =>
               names[<<p, b>>].next = behind
           S == { k \in Nat : \A p, behind : IsNext(p, behind, k) }
<1>0. Len(cells) \in Nat /\ DOMAIN cells = 1..Len(cells)
  BY SequenceFacts
<1>1. ASSUME NEW p \in DOMAIN cells PROVE names[<<p, b>>] = ReadName(cells, names, p, b)
  BY <1>0, ReadNameEnds
<1>2. ~Malformed.ok
  BY DEF Malformed
<1>2a. \A p, read : At(cells, p, "root") => ReadName(cells, read, p, b) = Name(<< >>, p + 1)
  BY ReadNameCases
<1>3. 0 \in S
  <2> SUFFICES ASSUME NEW p, NEW behind, NameFills(cells, p, behind), behind - p = 0 + 1,
                      names[<<p, b>>].ok
               PROVE  names[<<p, b>>].next = behind
    OBVIOUS
  <2>1. p \in DOMAIN cells /\ p \in Nat /\ behind = p + 1 /\ behind - 1 = p
    BY <1>0 DEF NameFills
  <2>2. At(cells, p, "root") \/ At(cells, p, "pointer")
    BY <2>1 DEF NameFills
  <2>3. CASE At(cells, p, "root")
    <3>1. ReadName(cells, names, p, b) = Name(<< >>, p + 1)
      BY <1>2a, <2>3
    <3>2. names[<<p, b>>] = Name(<< >>, p + 1)
      BY <1>1, <2>1, <3>1
    <3> HIDE DEF names
    <3>. QED
      BY <2>1, <3>2 DEF Name
  <2>4. CASE At(cells, p, "pointer")
    <3>1. ReadName(cells, names, p, b) =
            IF cells[p].to \in DOMAIN cells /\ MayRedirect(b) /\ names[<<cells[p].to, b - 1>>].ok
              THEN Name(names[<<cells[p].to, b - 1>>].labels, p + 1)
              ELSE Malformed
      BY <2>4, ReadNameCases
    <3>2. names[<<p, b>>] = ReadName(cells, names, p, b)
      BY <1>1, <2>1
    <3> HIDE DEF names
    <3>. QED
      BY <1>2, <2>1, <3>1, <3>2 DEF Name
  <2>. QED
    BY <2>2, <2>3, <2>4
<1>4. ASSUME NEW k \in Nat, k \in S PROVE k + 1 \in S
  <2>0. k + 1 \in Nat
    OBVIOUS
  <2> SUFFICES ASSUME NEW p, NEW behind, NameFills(cells, p, behind), behind - p = (k + 1) + 1,
                      names[<<p, b>>].ok
               PROVE  names[<<p, b>>].next = behind
    BY <2>0
  <2>1. p \in DOMAIN cells /\ p \in Nat /\ behind \in Nat /\ behind = p + k + 2
    <3>1. p \in DOMAIN cells /\ p \in Nat
      BY <1>0 DEF NameFills
    <3>2. behind \in (p + 1)..(Len(cells) + 1)
      BY DEF NameFills
    <3>. QED
      BY <1>0, <3>1, <3>2
  <2>2. /\ behind \in (p + 1)..(Len(cells) + 1)
        /\ \A i \in p..(behind - 2) : At(cells, i, "label")
        /\ At(cells, behind - 1, "root") \/ At(cells, behind - 1, "pointer")
    BY DEF NameFills
  <2>2a. At(cells, p, "label")
    <3>1. p \in p..(behind - 2)
      BY <2>1
    <3>. QED
      BY <2>2, <3>1
  <2>3. NameFills(cells, p + 1, behind) /\ behind - (p + 1) = k + 1
    <3>1. /\ p + 1 \in DOMAIN cells /\ behind \in ((p + 1) + 1)..(Len(cells) + 1)
          /\ (p + 1)..(behind - 2) \subseteq p..(behind - 2)
          /\ behind - (p + 1) = k + 1
      BY <1>0, <2>1, <2>2
    <3>. QED
      BY <2>2, <3>1 DEF NameFills
  <2>4. ReadName(cells, names, p, b) =
          IF names[<<p + 1, b>>].ok
            THEN Name(<<cells[p].text>> \o Dotted(cells, p + 1, names[<<p + 1, b>>].labels),
                      names[<<p + 1, b>>].next)
            ELSE Malformed
    BY <2>2a, ReadNameCases
  <2>5. names[<<p + 1, b>>].ok
    BY <1>1, <1>2, <2>1, <2>4
  <2>6. names[<<p + 1, b>>].next = behind
    BY <1>4, <2>3, <2>5
  <2>. QED
    BY <1>1, <2>1, <2>4, <2>5, <2>6 DEF Name
<1> HIDE DEF S
<1>5. d \in S
  BY <1>3, <1>4, Induction
<1>. QED
  BY <1>5 DEF S

\* A name that is written by the rules is read as it is spelled.
LEMMA WrittenNameIsRead ==
  ASSUME NEW cells, IsSequence(cells), NEW p \in DOMAIN cells,
         NEW n \in 0..Len(cells), IsName(cells, p, n)
  PROVE  /\ NameAt(cells, p).ok
         /\ NameAt(cells, p).labels = Spelled(cells, p, n)
         /\ \A behind : NameFills(cells, p, behind) => NameAt(cells, p).next = behind
<1> DEFINE name == NamesByPlace(cells)[<<p, Redirects>>]
<1>1. NameAt(cells, p) = name
  BY DEF NameAt
<1>2. Redirects \in 1..Redirects /\ Redirects \in 0..Redirects
  BY RedirectsAssumption
<1>3. name.ok /\ name.labels = Spelled(cells, p, n)
  <2>1. n \in Nat
    OBVIOUS
  <2>2. \A b \in 1..Redirects :
          LET r == NamesByPlace(cells)[<<p, b>>]
          IN  /\ r.ok <=> Cardinality(PointersMet(cells, p, n)) < b
              /\ r.ok => r.labels = Spelled(cells, p, n)
    BY <2>1, NameIsRead DEF IsName
  <2>. QED
    BY <1>2, <2>2 DEF IsName
<1>4. ASSUME NEW behind, NameFills(cells, p, behind) PROVE name.next = behind
  <2>1. p \in Nat /\ behind \in (p + 1)..(Len(cells) + 1)
    BY <1>4, SequenceFacts DEF NameFills
  <2>2. PICK d \in Nat : behind - p = d + 1
    <3>1. behind - p - 1 \in Nat /\ behind - p = (behind - p - 1) + 1
      BY <2>1
    <3>. QED
      BY <3>1
  <2>. QED
    BY <1>2, <1>3, <1>4, <2>2, NextIsRead
<1>. QED
  BY <1>1, <1>3, <1>4

LEMMA QuestionSteps ==
  ASSUME NEW cells
  PROVE  /\ AfterQuestions(cells)[0] = 1
         /\ \A k \in Nat : AfterQuestions(cells)[k + 1] = SkipQuestion(cells, AfterQuestions(cells)[k])
<1> DEFINE T == {0, 1} \cup { NameAt(cells, q).next + 1 : q \in DOMAIN cells }
           Body(f) == [k \in Nat |-> IF k = 0 THEN 1 ELSE SkipQuestion(cells, f[k - 1])]
           step == [x \in Nat \X T |-> SkipQuestion(cells, x[2])]
<1>1. \A p : SkipQuestion(cells, p) \in T
  <2>1. \A p : NameAt(cells, p).ok => p \in DOMAIN cells
    BY DEF NameAt, Malformed
  <2>. QED
    BY <2>1 DEF SkipQuestion
<1>2. step \in [Nat \X T -> T] /\ 1 \in T
  BY <1>1
<1>3. \A k \in Nat, p \in T : step[<<k, p>>] = SkipQuestion(cells, p)
  OBVIOUS
<1> HIDE DEF step, T
<1>4. PICK f \in [Nat -> T] : Iterates(f, 1, step)
  BY <1>2, Recursion
<1>5. ASSUME NEW k \in Nat PROVE f[k] = IF k = 0 THEN 1 ELSE SkipQuestion(cells, f[k - 1])
  <2>1. CASE k = 0
    BY <1>4, <2>1 DEF Iterates
  <2>2. CASE k # 0
    <3>1. k - 1 \in Nat /\ (k - 1) + 1 = k
      BY <2>2
    <3>2. f[k - 1] \in T
      BY <1>4, <3>1
    <3>3. f[(k - 1) + 1] = step[<<k - 1, f[k - 1]>>]
      BY <1>4, <3>1 DEF Iterates
    <3>. QED
      BY <1>3, <2>2, <3>1, <3>2, <3>3
  <2>. QED
    BY <2>1, <2>2
<1>6. f = Body(f)
  BY <1>4, <1>5
<1>7. AfterQuestions(cells) = CHOOSE g : g = Body(g)
  BY DEF AfterQuestions
<1> DEFINE skip == AfterQuestions(cells)
<1>8. skip = Body(skip)
  BY <1>6, <1>7
<1> HIDE DEF skip
<1>9. \A k \in Nat : skip[k] = IF k = 0 THEN 1 ELSE SkipQuestion(cells, skip[k - 1])
  BY <1>8
<1>10. \A k \in Nat : k + 1 \in Nat /\ k + 1 # 0 /\ (k + 1) - 1 = k
  OBVIOUS
<1>11. skip[0] = 1 /\ \A k \in Nat : skip[k + 1] = SkipQuestion(cells, skip[k])
  BY <1>9, <1>10
<1>. QED
  BY <1>11 DEF skip

-----------------------------------------------------------------------------
\* The data of a record is some number of cells long.
IsWire(cells) ==
  /\ IsSequence(cells)
  /\ \A q \in DOMAIN cells : At(cells, q, "fixed") => cells[q].size \in Nat

TypeAt(cells, p) == cells[NameAt(cells, p).next].type

AfterRecord(cells, p) == NameAt(cells, p).next + 1 + cells[NameAt(cells, p).next].size

ReadsOn(cells, k, p) ==
  /\ k # 0 /\ ~(p > Len(cells))
  /\ NameAt(cells, p).ok /\ IsWhole(cells, NameAt(cells, p).next)
  /\ ~EndsParse(TypeAt(cells, p))

LEMMA ReadRecordsCases ==
  ASSUME NEW cells, NEW k, NEW p, NEW read
  PROVE  /\ ReadsOn(cells, k, p) =>
              ReadRecords(cells, read, k, p) =
                IF /\ DataParses(cells, NameAt(cells, p).next + 1, TypeAt(cells, p))
                   /\ read[<<k - 1, AfterRecord(cells, p)>>].ok
                  THEN Answers(<<RecordAt(cells, p)>> \o read[<<k - 1, AfterRecord(cells, p)>>].answers)
                  ELSE Malformed
         /\ ~ReadsOn(cells, k, p) =>
              ReadRecords(cells, read, k, p) =
                IF \/ k = 0 \/ p > Len(cells)
                   \/ NameAt(cells, p).ok /\ IsWhole(cells, NameAt(cells, p).next)
                  THEN Answers(<< >>) ELSE Malformed
BY Zenon DEF ReadRecords, ReadsOn, TypeAt, AfterRecord

AnswersOf(cells) == Seq({ RecordAt(cells, q) : q \in DOMAIN cells })

Parses(cells) == { Answers(answers) : answers \in AnswersOf(cells) }

ParseSet(cells) == {Malformed} \cup Parses(cells)

LEMMA ParseSetFacts ==
  ASSUME NEW cells, NEW r \in ParseSet(cells), r.ok
  PROVE  r.answers \in AnswersOf(cells)
<1>1. ~Malformed.ok
  BY DEF Malformed
<1>2. r \in Parses(cells)
  BY <1>1 DEF ParseSet
<1>3. PICK answers \in AnswersOf(cells) : r = Answers(answers)
  BY <1>2 DEF Parses
<1>. QED
  BY <1>3 DEF Answers

LEMMA BehindRecord ==
  ASSUME NEW cells, IsWire(cells), NEW f, IsWhole(cells, f)
  PROVE  f + 1 + cells[f].size \in 1..(Len(cells) + 1)
<1>1. Len(cells) \in Nat /\ f \in 1..Len(cells) /\ cells[f].size \in Nat /\ f + cells[f].size <= Len(cells)
  BY SequenceFacts DEF IsWire, IsWhole, At
<1>. QED
  BY <1>1

LEMMA RecordSteps ==
  ASSUME NEW cells, IsWire(cells), NEW k \in Nat, NEW p \in 1..(Len(cells) + 1)
  PROVE  RecordsByPlace(cells)[<<k, p>>] = ReadRecords(cells, RecordsByPlace(cells), k, p)
<1> DEFINE S == Nat \X (1..(Len(cells) + 1))
           T == ParseSet(cells)
           Body(f) == [x \in S |-> ReadRecords(cells, f, x[1], x[2])]
           body == [f \in [S -> T] |-> Body(f)]
           left == [x \in S |-> x[1]]
<1>0. Len(cells) \in Nat /\ DOMAIN cells = 1..Len(cells)
  BY SequenceFacts DEF IsWire
<1>1. \A f \in [S -> T] : Body(f) \in [S -> T]
  <2> SUFFICES ASSUME NEW f \in [S -> T], NEW j \in Nat, NEW q \in 1..(Len(cells) + 1)
               PROVE  ReadRecords(cells, f, j, q) \in T
    OBVIOUS
  <2> DEFINE after == AfterRecord(cells, q)
  <2>2. Malformed \in T /\ Answers(<< >>) \in T
    <3>1. << >> \in AnswersOf(cells)
      BY DEF AnswersOf
    <3>. QED
      BY <3>1 DEF ParseSet, Parses
  <2>3. CASE ReadsOn(cells, j, q)
    <3> DEFINE rest == f[<<j - 1, after>>]
    <3>1. after \in 1..(Len(cells) + 1) /\ j - 1 \in Nat
      BY <2>3, BehindRecord DEF ReadsOn, AfterRecord
    <3>2. rest \in T
      BY <3>1
    <3>3. ReadRecords(cells, f, j, q) =
            IF DataParses(cells, NameAt(cells, q).next + 1, TypeAt(cells, q)) /\ rest.ok
              THEN Answers(<<RecordAt(cells, q)>> \o rest.answers) ELSE Malformed
      BY <2>3, ReadRecordsCases
    <3>4. ASSUME rest.ok PROVE Answers(<<RecordAt(cells, q)>> \o rest.answers) \in T
      <4>1. rest.answers \in AnswersOf(cells)
        BY <3>2, <3>4, ParseSetFacts
      <4>2. q \in DOMAIN cells
        BY <1>0, <2>3 DEF ReadsOn
      <4> HIDE DEF rest
      <4>3. <<RecordAt(cells, q)>> \o rest.answers \in AnswersOf(cells)
        <5>1. RecordAt(cells, q) \in { RecordAt(cells, i) : i \in DOMAIN cells }
          BY <4>2
        <5>. QED
          BY <4>1, <5>1 DEF AnswersOf
      <4>. QED
        BY <4>3 DEF ParseSet, Parses
    <3> HIDE DEF rest, T
    <3>. QED
      BY <2>2, <3>3, <3>4
  <2>4. CASE ~ReadsOn(cells, j, q)
    <3>1. ReadRecords(cells, f, j, q) \in {Malformed, Answers(<< >>)}
      BY <2>4, ReadRecordsCases
    <3>. QED
      BY <2>2, <3>1
  <2>. QED
    BY <2>3, <2>4
<1>2. body \in [[S -> T] -> [S -> T]] /\ \A f \in [S -> T] : body[f] = Body(f)
  BY <1>1
<1>3. left \in [S -> Nat] /\ \A x \in S : left[x] = x[1]
  OBVIOUS
<1>4. Malformed \in T
  BY DEF ParseSet
<1> HIDE DEF T, left
<1>5. ASSUME NEW f \in [S -> T], NEW g \in [S -> T], NEW x \in S,
             \A y \in S : left[y] < left[x] => f[y] = g[y]
      PROVE  Body(f)[x] = Body(g)[x]
  <2>1. PICK j \in Nat, q \in 1..(Len(cells) + 1) : x = <<j, q>> /\ x[1] = j /\ x[2] = q
    OBVIOUS
  <2> DEFINE after == AfterRecord(cells, q)
  <2>3. CASE ReadsOn(cells, j, q)
    <3>1. after \in 1..(Len(cells) + 1) /\ j - 1 \in Nat
      BY <2>3, BehindRecord DEF ReadsOn, AfterRecord
    <3>2. f[<<j - 1, after>>] = g[<<j - 1, after>>]
      <4>1. <<j - 1, after>> \in S /\ left[<<j - 1, after>>] = j - 1 /\ left[x] = j
        BY <1>3, <2>1, <3>1
      <4>. QED
        BY <1>5, <4>1
    <3>3. \A h : ReadRecords(cells, h, j, q) =
            IF DataParses(cells, NameAt(cells, q).next + 1, TypeAt(cells, q)) /\ h[<<j - 1, after>>].ok
              THEN Answers(<<RecordAt(cells, q)>> \o h[<<j - 1, after>>].answers) ELSE Malformed
      BY <2>3, ReadRecordsCases
    <3>4. ReadRecords(cells, f, j, q) = ReadRecords(cells, g, j, q)
      BY <3>2, <3>3, Zenon
    <3>. QED
      BY <2>1, <3>4
  <2>4. CASE ~ReadsOn(cells, j, q)
    <3> DEFINE same == IF \/ j = 0 \/ q > Len(cells)
                          \/ NameAt(cells, q).ok /\ IsWhole(cells, NameAt(cells, q).next)
                         THEN Answers(<< >>) ELSE Malformed
    <3>0. \A h : ReadRecords(cells, h, j, q) = same
      BY <2>4, ReadRecordsCases
    <3> HIDE DEF same
    <3>1. ReadRecords(cells, f, j, q) = ReadRecords(cells, g, j, q)
      BY <3>0
    <3>. QED
      BY <2>1, <3>1
  <2>. QED
    BY <2>3, <2>4
<1> HIDE DEF S, body
<1>6. PICK f \in [S -> T] : f = body[f]
  <2>1. \A f, g \in [S -> T] : \A x \in S :
          (\A y \in S : left[y] < left[x] => f[y] = g[y]) => body[f][x] = body[g][x]
    <3> SUFFICES ASSUME NEW f \in [S -> T], NEW g \in [S -> T], NEW x \in S,
                        \A y \in S : left[y] < left[x] => f[y] = g[y]
                 PROVE  body[f][x] = body[g][x]
      OBVIOUS
    <3>1. Body(f)[x] = Body(g)[x]
      BY <1>5
    <3> HIDE DEF Body
    <3>. QED
      BY <1>2, <3>1
  <2> HIDE DEF Body
  <2>2. LooksBelow(body, left, S, T)
    BY <1>2, <1>3, <2>1 DEF LooksBelow
  <2>. QED
    BY <1>4, <2>2, MeasuredRecursion
<1>7. f = Body(f)
  BY <1>2, <1>6
<1>8. RecordsByPlace(cells) = CHOOSE g : g = Body(g)
  BY DEF RecordsByPlace, S
<1> DEFINE records == RecordsByPlace(cells)
<1>9. records = Body(records)
  BY <1>7, <1>8
<1> HIDE DEF records
<1>10. <<k, p>> \in S /\ <<k, p>>[1] = k /\ <<k, p>>[2] = p
  BY DEF S
<1>11. records[<<k, p>>] = ReadRecords(cells, records, k, p)
  BY <1>9, <1>10
<1>. QED
  BY <1>11 DEF records

LEMMA WrittenStringsAreRead ==
  ASSUME NEW strings, NEW texts, StringsStand(strings, texts)
  PROVE  TxtStrings(strings) = texts
<1>1. CASE texts = << >> /\ strings = << >>
  BY <1>1 DEF TxtStrings
<1>2. CASE texts = << >> /\ strings = <<NoText>>
  <2>1. Front(strings) = << >> /\ Last(strings) = NoText /\ strings # << >>
    BY <1>2 DEF Front, Last
  <2>. QED
    BY <1>2, <2>1 DEF TxtStrings
<1>3. CASE texts # << >>
  BY <1>3 DEF StringsStand, TxtStrings, Last
<1>. QED
  BY <1>1, <1>2, <1>3 DEF StringsStand

\* The data of a record that is written by the rules, and of a known type.
LEMMA WrittenDataIsRead ==
  ASSUME NEW cells, IsSequence(cells), NEW p, NEW size, NEW r, r.type \in KnownTypes,
         DataStands(cells, p, size, r)
  PROVE  DataParses(cells, p, r.type) /\ DataAt(cells, p, r.type, size) = r.data
<1>1. CASE r.type \in {"A", "AAAA"}
  BY <1>1 DEF DataStands, DataParses, DataAt
<1>2. CASE r.type = "PTR"
  <2>1. p \in DOMAIN cells /\ NameStands(cells, p, r.data)
    BY <1>2 DEF DataStands
  <2>2. PICK n \in 0..Len(cells) : IsName(cells, p, n) /\ r.data = Spelled(cells, p, n)
    BY <2>1 DEF NameStands
  <2>3. NameAt(cells, p).ok /\ NameAt(cells, p).labels = r.data
    BY <2>1, <2>2, WrittenNameIsRead
  <2>. QED
    BY <1>2, <2>3 DEF DataParses, DataAt
<1>3. CASE r.type = "TXT"
  <2>1. TxtStrings(ItemsOf(SubSeq(cells, p, p + size - 1))) = r.data
    BY <1>3, WrittenStringsAreRead DEF DataStands
  <2>. QED
    BY <1>3, <2>1 DEF DataParses, DataAt
<1>4. CASE r.type = "SRV"
  BY <1>4 DEF DataStands, DataParses, DataAt
<1>. QED
  BY <1>1, <1>2, <1>3, <1>4 DEF KnownTypes

LEMMA WrittenRecordIsRead ==
  ASSUME NEW cells, IsWire(cells), NEW p, NEW end, NEW r,
         RecordStands(cells, p, end, r), r = Record(r.name, r.type, r.data)
  PROVE  /\ p \in DOMAIN cells
         /\ NameAt(cells, p).ok /\ IsWhole(cells, NameAt(cells, p).next)
         /\ TypeAt(cells, p) = r.type /\ AfterRecord(cells, p) = end
         /\ r.type \in KnownTypes =>
              /\ DataParses(cells, NameAt(cells, p).next + 1, r.type)
              /\ RecordAt(cells, p) = r
<1>1. PICK f \in DOMAIN cells :
        /\ NameFills(cells, p, f) /\ NameStands(cells, p, r.name)
        /\ At(cells, f, "fixed") /\ cells[f].type = r.type
        /\ end = f + 1 + cells[f].size /\ end <= Len(cells) + 1
        /\ DataStands(cells, f + 1, cells[f].size, r)
  BY DEF RecordStands
<1>2. p \in DOMAIN cells /\ IsSequence(cells)
  BY <1>1 DEF NameFills, IsWire
<1>3. PICK n \in 0..Len(cells) : IsName(cells, p, n) /\ r.name = Spelled(cells, p, n)
  BY <1>1 DEF NameStands
<1>4. NameAt(cells, p).ok /\ NameAt(cells, p).labels = r.name /\ NameAt(cells, p).next = f
  BY <1>1, <1>2, <1>3, WrittenNameIsRead
<1>5. IsWhole(cells, f)
  <2>1. PICK size \in Nat, l \in Nat : size = cells[f].size /\ l = Len(cells) /\ f \in Nat
    BY <1>1, <1>2, SequenceFacts DEF IsWire
  <2>2. f + size <= l
    BY <1>1, <2>1
  <2>. QED
    BY <1>1, <2>1, <2>2 DEF IsWhole
<1>6. ASSUME r.type \in KnownTypes
      PROVE  DataParses(cells, f + 1, r.type) /\ RecordAt(cells, p) = r
  <2>1. /\ DataParses(cells, f + 1, r.type)
        /\ DataAt(cells, f + 1, r.type, cells[f].size) = r.data
    BY <1>1, <1>2, <1>6, WrittenDataIsRead
  <2>2. RecordAt(cells, p) = Record(r.name, r.type, r.data)
    BY <1>1, <1>4, <2>1 DEF RecordAt
  <2>. QED
    BY <2>1, <2>2
<1>. QED
  BY <1>1, <1>2, <1>4, <1>5, <1>6 DEF TypeAt, AfterRecord

LEMMA WrittenQuestionIsSkipped ==
  ASSUME NEW cells, IsSequence(cells), NEW p, NEW end \in Nat, QuestionStands(cells, p, end)
  PROVE  SkipQuestion(cells, p) = end
<1>1. PICK n \in 0..Len(cells) : IsName(cells, p, n)
  BY DEF QuestionStands
<1>2. p \in DOMAIN cells /\ NameFills(cells, p, end - 1) /\ At(cells, end - 1, "question")
  BY DEF QuestionStands, NameFills
<1>3. NameAt(cells, p).ok /\ NameAt(cells, p).next = end - 1
  BY <1>1, <1>2, WrittenNameIsRead
<1>. QED
  BY <1>2, <1>3 DEF SkipQuestion

-----------------------------------------------------------------------------
\* Where the records of a message that is written by the rules begin.
LEMMA WrittenQuestionsAreSkipped ==
  ASSUME NEW m \in Messages, IsWritten(m)
  PROVE  AfterQuestions(m.wire.cells)[m.wire.questions] = m.at[m.wire.questions + 1]
<1> DEFINE cells == m.wire.cells
           n == m.wire.questions
           at == m.at
           S == { k \in Nat : k <= n => AfterQuestions(cells)[k] = at[k + 1] }
<1>1. IsSequence(cells) /\ n \in Nat /\ m.wire.records \in Nat
  BY MessagesAssumption DEF IsSequence
<1>2. /\ at \in Seq(1..(Len(cells) + 1)) /\ Len(at) = n + m.wire.records + 1 /\ at[1] = 1
      /\ \A i \in 1..n : QuestionStands(cells, at[i], at[i + 1])
  BY DEF IsWritten, Carries
<1>3. 0 \in S
  BY <1>2, QuestionSteps
<1>4. ASSUME NEW k \in Nat, k \in S PROVE k + 1 \in S
  <2>0. k + 1 \in Nat
    OBVIOUS
  <2> SUFFICES ASSUME k + 1 <= n PROVE AfterQuestions(cells)[k + 1] = at[(k + 1) + 1]
    BY <2>0
  <2>1. k <= n /\ k + 1 \in 1..n /\ (k + 1) + 1 \in 1..(n + m.wire.records + 1)
    BY <1>1
  <2>2. AfterQuestions(cells)[k] = at[k + 1]
    BY <1>4, <2>1
  <2>3. at[(k + 1) + 1] \in Nat
    <3>1. at[(k + 1) + 1] \in 1..(Len(cells) + 1)
      BY <1>2, <2>1
    <3>. QED
      BY <3>1
  <2>4. QuestionStands(cells, at[k + 1], at[(k + 1) + 1])
    BY <1>2, <2>1
  <2> HIDE DEF at, cells, n
  <2>5. SkipQuestion(cells, at[k + 1]) = at[(k + 1) + 1]
    BY <1>1, <2>3, <2>4, WrittenQuestionIsSkipped
  <2>. QED
    BY <2>2, <2>5, QuestionSteps
<1> HIDE DEF S
<1>5. n \in S
  BY <1>1, <1>3, <1>4, Induction
<1>. QED
  BY <1>1, <1>5 DEF S

-----------------------------------------------------------------------------
\* What is looked at of a packet: the records up to an unknown type.
LEMMA SeenIsPrefix ==
  ASSUME NEW m \in Messages
  PROVE  \E n \in 0..Len(m.said) :
           /\ Len(m.said) \in Nat
           /\ Seen(m) = SubSeq(m.said, 1, n)
           /\ DOMAIN Seen(m) = 1..n
           /\ \A i \in 1..n : /\ i \in DOMAIN m.said /\ Seen(m)[i] = m.said[i]
                            /\ m.said[i].type \in KnownTypes
           /\ n < Len(m.said) => m.said[n + 1].type \notin KnownTypes
<1> DEFINE said     == m.said
           known(n) == \A i \in 1..n : said[i].type \in KnownTypes
           IsLast(n) == n \in 0..Len(said) /\ known(n) /\ (n < Len(said) => ~known(n + 1))
           last == CHOOSE n : IsLast(n)
<1>1. said \in Seq(ToSet(said)) /\ Len(said) \in Nat /\ DOMAIN said = 1..Len(said)
  BY MessagesAssumption
<1>2. \E n : IsLast(n)
  <2> DEFINE odd == {k \in Nat : k < Len(said) /\ ~known(k + 1)}
  <2>1. CASE odd = {}
    <3>1. known(Len(said))
      <4>1. CASE Len(said) = 0
        BY <4>1
      <4>2. CASE Len(said) # 0
        <5>1. Len(said) - 1 \in Nat /\ Len(said) - 1 < Len(said) /\ (Len(said) - 1) + 1 = Len(said)
          BY <1>1, <4>2
        <5>. QED
          BY <2>1, <5>1
      <4>. QED
        BY <4>1, <4>2
    <3>. QED
      BY <1>1, <3>1
  <2>2. CASE odd # {}
    <3>1. PICK k \in odd : \A j \in odd : k <= j
      BY <2>2, LeastNumber
    <3>2. known(k)
      <4>1. CASE k = 0
        BY <4>1
      <4>2. CASE k # 0
        <5>1. k - 1 \in Nat /\ k - 1 < Len(said) /\ (k - 1) + 1 = k /\ k - 1 \notin odd
          BY <1>1, <3>1, <4>2
        <5>. QED
          BY <5>1
      <4>. QED
        BY <4>1, <4>2
    <3>. QED
      BY <1>1, <3>1, <3>2
  <2>. QED
    BY <2>1, <2>2
<1>3. IsLast(last)
  BY <1>2
<1>4. Seen(m) = SubSeq(said, 1, last)
  <2>1. last = CHOOSE n \in 0..Len(m.said) : known(n) /\ (n < Len(m.said) => ~known(n + 1))
    OBVIOUS
  <2>. QED
    BY <2>1 DEF Seen
<1> HIDE DEF last
<1>5. /\ DOMAIN Seen(m) = 1..last
      /\ \A i \in 1..last : i \in DOMAIN said /\ Seen(m)[i] = said[i]
  BY <1>1, <1>3, <1>4
<1>6. last < Len(said) => said[last + 1].type \notin KnownTypes
  <2> SUFFICES ASSUME last < Len(said), said[last + 1].type \in KnownTypes PROVE FALSE
    OBVIOUS
  <2>1. \A i \in 1..(last + 1) : i \in 1..last \/ i = last + 1
    BY <1>1, <1>3
  <2>. QED
    BY <1>3, <2>1
<1>. QED
  BY <1>1, <1>3, <1>4, <1>5, <1>6

\* The records of a message that is written by the rules stand where it says.
LEMMA WrittenPlaces ==
  ASSUME NEW m \in Messages, IsWritten(m), NEW i \in 1..(Len(m.said) + 1)
  PROVE  /\ m.at[m.wire.questions + i] \in 1..(Len(m.wire.cells) + 1)
         /\ i <= Len(m.said) =>
              /\ RecordStands(m.wire.cells, m.at[m.wire.questions + i],
                              m.at[m.wire.questions + (i + 1)], m.said[i])
              /\ m.said[i] = Record(m.said[i].name, m.said[i].type, m.said[i].data)
<1> DEFINE q == m.wire.questions
           L == Len(m.said)
           C == 1..(Len(m.wire.cells) + 1)
<1>1. /\ L \in Nat /\ q \in Nat /\ DOMAIN m.said = 1..L
      /\ \A r \in ToSet(m.said) : r = Record(r.name, r.type, r.data)
  BY MessagesAssumption
<1>2. /\ m.at \in Seq(C) /\ Len(m.at) = q + L + 1
      /\ \A j \in 1..L : RecordStands(m.wire.cells, m.at[q + j], m.at[q + j + 1], m.said[j])
  BY DEF IsWritten, Carries
<1>3. q + i \in 1..(q + L + 1) /\ q + (i + 1) = q + i + 1
  BY <1>1
<1>4. m.at[q + i] \in C
  <2> HIDE DEF C
  <2>. QED
    BY <1>2, <1>3
<1>5. ASSUME i <= L PROVE i \in 1..L /\ m.said[i] \in ToSet(m.said)
  BY <1>1, <1>5 DEF ToSet
<1>. QED
  BY <1>1, <1>2, <1>3, <1>4, <1>5

\* What the decoder makes of a message from its i-th record on.
FromRecord(m, i) ==
  RecordsByPlace(m.wire.cells)[<<Len(m.said) + 1 - i, m.at[m.wire.questions + i]>>]

\* The decoder stops behind the last record, or at one of an unknown type.
LEMMA WrittenEndIsSeen ==
  ASSUME NEW m \in Messages, IsWritten(m), NEW i \in 1..(Len(m.said) + 1),
         i <= Len(m.said) => m.said[i].type \notin KnownTypes
  PROVE  FromRecord(m, i) = Answers(<< >>)
<1> DEFINE cells == m.wire.cells
           p == m.at[m.wire.questions + i]
           k == Len(m.said) + 1 - i
<1>1. IsWire(cells) /\ Len(m.said) \in Nat
  BY MessagesAssumption DEF IsWire, IsSequence
<1>2. p \in 1..(Len(cells) + 1) /\ k \in Nat
  BY <1>1, WrittenPlaces
<1>3. RecordsByPlace(cells)[<<k, p>>] = ReadRecords(cells, RecordsByPlace(cells), k, p)
  <2> HIDE DEF cells, p, k
  <2>. QED
    BY <1>1, <1>2, RecordSteps
<1>4. CASE i <= Len(m.said)
  <2>1. /\ NameAt(cells, p).ok /\ IsWhole(cells, NameAt(cells, p).next)
        /\ TypeAt(cells, p) = m.said[i].type
    BY <1>1, <1>4, WrittenPlaces, WrittenRecordIsRead
  <2>2. ~ReadsOn(cells, k, p)
    BY <1>4, <2>1 DEF ReadsOn, EndsParse
  <2> HIDE DEF cells, p, k
  <2>3. ReadRecords(cells, RecordsByPlace(cells), k, p) = Answers(<< >>)
    BY <2>1, <2>2, ReadRecordsCases
  <2>. QED
    BY <1>3, <2>3 DEF FromRecord, cells, p, k
<1>5. CASE ~(i <= Len(m.said))
  <2>1. k = 0
    BY <1>1, <1>5
  <2>2. ~ReadsOn(cells, k, p)
    BY <2>1 DEF ReadsOn
  <2> HIDE DEF cells, p, k
  <2>3. ReadRecords(cells, RecordsByPlace(cells), k, p) = Answers(<< >>)
    BY <2>1, <2>2, ReadRecordsCases
  <2>. QED
    BY <1>3, <2>3 DEF FromRecord, cells, p, k
<1>. QED
  BY <1>4, <1>5

\* The decoder puts a record of a known type before what it makes of the rest.
LEMMA WrittenRecordIsPutFirst ==
  ASSUME NEW m \in Messages, IsWritten(m), NEW i \in 1..Len(m.said),
         m.said[i].type \in KnownTypes, FromRecord(m, i + 1).ok
  PROVE  FromRecord(m, i) = Answers(<<m.said[i]>> \o FromRecord(m, i + 1).answers)
<1> DEFINE cells == m.wire.cells
           p == m.at[m.wire.questions + i]
           k == Len(m.said) + 1 - i
           rest == FromRecord(m, i + 1)
<1>1. IsWire(cells) /\ Len(m.said) \in Nat /\ DOMAIN cells = 1..Len(cells) /\ Len(cells) \in Nat
  BY MessagesAssumption DEF IsWire, IsSequence
<1>2. k \in Nat /\ k # 0 /\ i \in 1..(Len(m.said) + 1) /\ i <= Len(m.said)
  BY <1>1
<1>3. p \in 1..(Len(cells) + 1)
  BY <1>2, WrittenPlaces
<1>4. /\ p \in DOMAIN cells
      /\ NameAt(cells, p).ok /\ IsWhole(cells, NameAt(cells, p).next)
      /\ TypeAt(cells, p) = m.said[i].type
      /\ AfterRecord(cells, p) = m.at[m.wire.questions + (i + 1)]
      /\ DataParses(cells, NameAt(cells, p).next + 1, m.said[i].type)
      /\ RecordAt(cells, p) = m.said[i]
  BY <1>1, <1>2, WrittenPlaces, WrittenRecordIsRead
<1>5. ReadsOn(cells, k, p)
  BY <1>1, <1>2, <1>4 DEF ReadsOn, EndsParse
<1>6. RecordsByPlace(cells)[<<k - 1, AfterRecord(cells, p)>>] = rest
  <2>1. k - 1 = Len(m.said) + 1 - (i + 1)
    <3>1. \A l, j \in Nat : (l + 1 - j) - 1 = l + 1 - (j + 1)
      OBVIOUS
    <3>2. i \in Nat /\ Len(m.said) \in Nat
      BY <1>1
    <3>. QED
      BY <3>1, <3>2
  <2>. QED
    BY <1>4, <2>1 DEF FromRecord
<1>7. RecordsByPlace(cells)[<<k, p>>] = ReadRecords(cells, RecordsByPlace(cells), k, p)
  <2> HIDE DEF cells, p, k
  <2>. QED
    BY <1>1, <1>2, <1>3, RecordSteps
<1>8. RecordsByPlace(cells)[<<k, p>>] = FromRecord(m, i)
  BY DEF FromRecord
<1> HIDE DEF cells, p, k, rest
<1>9. ReadRecords(cells, RecordsByPlace(cells), k, p) = Answers(<<m.said[i]>> \o rest.answers)
  <2>1. rest.ok
    BY DEF rest
  <2>2. \A read : read[<<k - 1, AfterRecord(cells, p)>>] = rest =>
          ReadRecords(cells, read, k, p) = Answers(<<RecordAt(cells, p)>> \o rest.answers)
    BY <1>4, <1>5, <2>1, ReadRecordsCases
  <2>. QED
    BY <1>4, <1>6, <2>2
<1>. QED
  BY <1>7, <1>8, <1>9 DEF rest

\* The part of a sequence from a place on is what stands there, and the rest.
LEMMA PartFromPlace ==
  ASSUME NEW S, NEW s \in Seq(S), NEW n \in 0..Len(s), NEW i \in 1..n
  PROVE  SubSeq(s, i, n) = <<s[i]>> \o SubSeq(s, i + 1, n)
OBVIOUS

\* mdns.rs:501, parse_dns: a message that is written by the rules decodes, and
\* gives the records its sender put down, up to the first of an unknown type.
THEOREM WrittenMessagesDecode == \A m \in Messages : DecodesAsSaid(m)
<1> SUFFICES ASSUME NEW m \in Messages, IsWritten(m)
             PROVE  ParseDns(m.wire) = Answers(Seen(m))
  BY DEF DecodesAsSaid
<1>1. PICK n \in 0..Len(m.said) :
        /\ Len(m.said) \in Nat
        /\ Seen(m) = SubSeq(m.said, 1, n)
        /\ \A i \in 1..n : m.said[i].type \in KnownTypes
        /\ n < Len(m.said) => m.said[n + 1].type \notin KnownTypes
  BY SeenIsPrefix
<1> DEFINE Gives(i) == FromRecord(m, i) = Answers(SubSeq(m.said, i, n))
           S == { j \in Nat : j <= n => Gives(n + 1 - j) }
<1>2. m.said \in Seq(ToSet(m.said)) /\ n \in Nat
  BY <1>1, MessagesAssumption
<1>3. 0 \in S
  <2>1. n + 1 \in 1..(Len(m.said) + 1) /\ (n + 1 <= Len(m.said) => n < Len(m.said))
    BY <1>1
  <2>2. FromRecord(m, n + 1) = Answers(<< >>)
    BY <1>1, <2>1, WrittenEndIsSeen
  <2>3. SubSeq(m.said, n + 1, n) = << >>
    BY <1>1, <1>2
  <2>4. n + 1 - 0 = n + 1
    BY <1>2
  <2>. QED
    BY <2>2, <2>3, <2>4
<1>4. ASSUME NEW j \in Nat, j \in S PROVE j + 1 \in S
  <2> SUFFICES ASSUME j + 1 <= n PROVE Gives(n + 1 - (j + 1))
    OBVIOUS
  <2>1. PICK i : i = n - j
    OBVIOUS
  <2>2. /\ i \in 1..n /\ i \in 1..Len(m.said) /\ j <= n
        /\ n + 1 - (j + 1) = i /\ n + 1 - j = i + 1
    BY <1>1, <1>2, <2>1
  <2>3. FromRecord(m, i + 1) = Answers(SubSeq(m.said, i + 1, n))
    BY <1>4, <2>2
  <2>4. m.said[i].type \in KnownTypes
    BY <1>1, <2>2
  <2>5. FromRecord(m, i) = Answers(<<m.said[i]>> \o SubSeq(m.said, i + 1, n))
    <3>1. FromRecord(m, i + 1).ok /\ FromRecord(m, i + 1).answers = SubSeq(m.said, i + 1, n)
      BY <2>3 DEF Answers
    <3>. QED
      BY <2>2, <2>4, <3>1, WrittenRecordIsPutFirst
  <2>6. SubSeq(m.said, i, n) = <<m.said[i]>> \o SubSeq(m.said, i + 1, n)
    BY <1>2, <2>2, PartFromPlace
  <2>. QED
    BY <2>2, <2>5, <2>6
<1>5. Gives(1)
  <2> HIDE DEF S
  <2>1. n \in S
    BY <1>2, <1>3, <1>4, Induction
  <2> USE DEF S
  <2>2. n + 1 - n = 1
    BY <1>2
  <2>. QED
    BY <1>2, <2>1, <2>2
<1>6. /\ m.wire.cells # << >> /\ m.wire.records = Len(m.said)
      /\ Len(m.said) + 1 - 1 = m.wire.records
  BY <1>1 DEF IsWritten, Carries
<1>7. AfterQuestions(m.wire.cells)[m.wire.questions] = m.at[m.wire.questions + 1]
  BY WrittenQuestionsAreSkipped
<1>8. m.at[m.wire.questions + 1] # 0
  <2>1. 1 \in 1..(Len(m.said) + 1)
    BY <1>1
  <2>. QED
    BY <2>1, WrittenPlaces
<1>. QED
  BY <1>1, <1>5, <1>6, <1>7, <1>8 DEF ParseDns, FromRecord

-----------------------------------------------------------------------------
PhaseTyped ==
  /\ phase \in {"binding", "registering", "listening", "cancelled"}
  /\ next \in Nat

\* Who registered a domain: an engine wanted, and its own domain.
HandlersAreOwners ==
  \A d \in DOMAIN handlers : handlers[d] \in Wanted /\ d \in DomainSet(handlers[d])

Registered(i) == Registrations[i].domain \in DOMAIN handlers

\* No wanted domain is passed over on the way.
RegisteredInOrder ==
  \A i \in DOMAIN Registrations :
    /\ Registrations[i].engine \in Wanted
    /\ phase # "binding"
    /\ phase = "registering" => i < next
    => Registered(i)

\* A report is founded on what the decoder made of its packet.
FoundedInAnswers ==
  \A r \in reports :
    LET parsed == ParseDns(r.of.wire)
    IN  r.of \in Messages /\ parsed.ok /\ Founded(r, parsed.answers)

\* Its device is one the engine makes of all the answers.
Converted ==
  \A r \in reports : r.device \in Convert(r.by, ParseDns(r.of.wire).answers)

\* Only a wanted engine reports.
WantedReport == \A r \in reports : r.by \in Wanted

\* What the registered engines make of a packet has been reported.
HeardIsReported ==
  \A h \in heard :
    /\ h.message \in Messages
    /\ h.complete => phase \in {"listening", "cancelled"} /\ ReportsOf(h.message) \subseteq reports

MdnsInv ==
  /\ PhaseTyped /\ HandlersAreOwners /\ RegisteredInOrder
  /\ FoundedInAnswers /\ Converted /\ WantedReport /\ HeardIsReported

-----------------------------------------------------------------------------
LEMMA RegistrationsAre ==
  /\ DOMAIN Registrations = 1..4
  /\ \A i \in DOMAIN Registrations :
       /\ Registrations[i].engine \in MdnsEngineNames
       /\ Registrations[i].domain \in DomainSet(Registrations[i].engine)
BY DEF Registrations, Registration, MdnsEngineNames, DomainSet

\* Every device an engine makes of a packet has an address the packet gives.
LEMMA ConvertIsFounded ==
  ASSUME NEW e \in MdnsEngineNames, NEW answers, NEW d \in Convert(e, answers)
  PROVE  d.protocol = e /\ d.ip \in Addresses(answers)
<1>1. CASE e = "Axis"
  <2>1. d \in AxisConvert(answers)
    BY <1>1 DEF Convert
  <2>2. PICK a \in Reported(Addresses(answers)) :
          d = DeviceAt("Axis", a, IF Has(NamedBy(answers), Spaced)
                                    THEN Before(NamedBy(answers), Spaced)
                                    ELSE NamedBy(answers),
                       AxisSerial(answers), AxisMac(answers))
    BY <2>1, Zenon DEF AxisConvert
  <2>. QED
    BY <1>1, <2>2 DEF DeviceAt, Reported
<1>2. CASE e = "Google"
  <2>1. d \in GoogleConvert(answers)
    BY <1>2 DEF Convert
  <2>2. PICK a \in FirstAddress(answers, "A") \cup FirstAddress(answers, "AAAA") :
          d = DeviceAt("Google", a, GoogleValue(answers, "md"), GoogleValue(answers, "fn"),
                       NoText)
    BY <2>1, Zenon DEF GoogleConvert
  <2>3. a \in Addresses(answers)
    BY DEF FirstAddress, FirstAmong, PositionsOf, Addresses
  <2>. QED
    BY <1>2, <2>2, <2>3 DEF DeviceAt
<1>3. CASE e = "Arecont"
  <2>1. d \in ArecontConvert(answers)
    BY <1>3 DEF Convert
  <2>2. PICK a \in Reported(Addresses(answers)) :
          d = DeviceAt("Arecont", a,
                       ArecontModel(NamedBy(answers), FlattenSeq(Txts(answers))),
                       ArecontSerial(NamedBy(answers)), NoText)
    BY <2>1, Zenon DEF ArecontConvert
  <2>. QED
    BY <1>3, <2>2 DEF DeviceAt, Reported
<1>. QED
  BY <1>1, <1>2, <1>3 DEF MdnsEngineNames

\* The engine a packet is handed to is one whose domain an answer names.
LEMMA ReportIsFounded ==
  ASSUME HandlersAreOwners, NEW m \in Messages, NEW r \in ReportsOf(m)
  PROVE  /\ r.of = m /\ ParseDns(m.wire).ok /\ r.by \in Wanted
         /\ Founded(r, ParseDns(m.wire).answers)
         /\ r.device \in Convert(r.by, ParseDns(m.wire).answers)
<1> DEFINE answers == ParseDns(m.wire).answers
<1>1. ParseDns(m.wire).ok
  BY DEF ReportsOf
<1>2. PICK e \in Triggered(answers) :
        \E d \in Convert(e, answers) : r = [by |-> e, of |-> m, device |-> d]
  BY <1>1 DEF ReportsOf
<1>3. PICK d \in Convert(e, answers) : r = [by |-> e, of |-> m, device |-> d]
  BY <1>2
<1>4. PICK i \in DOMAIN answers :
        answers[i].name \in DOMAIN handlers /\ e = handlers[answers[i].name]
  BY DEF Triggered, FirstAmong
<1>5. e \in Wanted /\ e \in MdnsEngineNames /\ answers[i].name \in DomainSet(e)
  BY <1>4, WantedAssumption DEF HandlersAreOwners
<1>6. d.protocol = e /\ d.ip \in Addresses(answers)
  BY <1>5, ConvertIsFounded
<1>7. r.by = e /\ r.of = m /\ r.device = d
  BY <1>3
<1>8. answers[i].name \in NamesOf(answers) \cap DomainSet(r.by)
  BY <1>5, <1>7 DEF NamesOf
<1>. QED
  BY <1>1, <1>3, <1>5, <1>6, <1>7, <1>8 DEF Founded

-----------------------------------------------------------------------------
LEMMA InitMdnsInv == MdnsInit => MdnsInv
BY DEF MdnsInit, MdnsInv, PhaseTyped, HandlersAreOwners, RegisteredInOrder, FoundedInAnswers,
       Converted, WantedReport, HeardIsReported

\* The steps of the broker that touch neither handlers nor reports.
LEMMA BrokerSteps ==
  ASSUME MdnsInv, UNCHANGED <<handlers, reports, heard>>,
         \/ UNCHANGED <<phase, next>>
         \/ phase = "binding" /\ phase' = "binding" /\ next' = next + 1
         \/ BrokerListens
         \/ AllRegistered
         \/ Cancel
  PROVE  MdnsInv'
<1>1. PhaseTyped'
  BY DEF MdnsInv, PhaseTyped, BrokerListens, AllRegistered, Cancel
<1>2. HandlersAreOwners' /\ FoundedInAnswers' /\ Converted' /\ WantedReport'
  BY DEF MdnsInv, HandlersAreOwners, FoundedInAnswers, Converted, WantedReport
<1>4. HeardIsReported'
  <2>1. \A m : ReportsOf(m)' = ReportsOf(m)
    BY DEF ReportsOf, Triggered
  <2>2. phase \in {"listening", "cancelled"} => phase' \in {"listening", "cancelled"}
    BY DEF BrokerListens, AllRegistered, Cancel
  <2>. QED
    BY <2>1, <2>2 DEF MdnsInv, HeardIsReported
<1>3. RegisteredInOrder'
  <2> SUFFICES ASSUME NEW i \in DOMAIN Registrations,
                      Registrations[i].engine \in Wanted,
                      phase' # "binding",
                      phase' = "registering" => i < next'
               PROVE  Registered(i)'
    BY DEF RegisteredInOrder
  <2>1. i \in 1..4
    BY RegistrationsAre
  <2>2. CASE UNCHANGED <<phase, next>>
    BY <2>2 DEF MdnsInv, RegisteredInOrder, Registered
  <2>3. CASE BrokerListens
    BY <2>1, <2>3 DEF BrokerListens
  <2>4. CASE AllRegistered
    <3>1. i < next
      BY <2>1, <2>4 DEF AllRegistered, ToRegister, MdnsInv, PhaseTyped
    <3>. QED
      BY <2>4, <3>1 DEF AllRegistered, MdnsInv, RegisteredInOrder, Registered
  <2>5. CASE Cancel
    BY <2>5 DEF Cancel, MdnsInv, RegisteredInOrder, Registered
  <2>. QED
    BY <2>2, <2>3, <2>4, <2>5
<1>. QED
  BY <1>1, <1>2, <1>3, <1>4 DEF MdnsInv

LEMMA RegisterDomainInv == MdnsInv /\ RegisterDomain => MdnsInv'
<1> SUFFICES ASSUME MdnsInv, RegisterDomain PROVE MdnsInv'
  OBVIOUS
<1>1. PICK i \in FirstAmong(ToRegister) :
        handlers' = WithHandler(Registrations[i]) /\ next' = i + 1
  BY DEF RegisterDomain
<1>2. /\ i \in 1..4 /\ i >= next /\ Registrations[i].engine \in Wanted
      /\ \A j \in ToRegister : i <= j
  BY <1>1, RegistrationsAre DEF FirstAmong, ToRegister
<1>3. /\ DOMAIN handlers' = DOMAIN handlers \cup {Registrations[i].domain}
      /\ \A d \in DOMAIN handlers' :
           handlers'[d] = IF d = Registrations[i].domain THEN Registrations[i].engine
                                                        ELSE handlers[d]
  BY <1>1 DEF WithHandler
<1>4. PhaseTyped' /\ FoundedInAnswers' /\ Converted' /\ WantedReport' /\ HeardIsReported'
  BY <1>1, <1>2 DEF MdnsInv, PhaseTyped, FoundedInAnswers, Converted, WantedReport,
                    HeardIsReported, RegisterDomain
<1>5. HandlersAreOwners'
  BY <1>2, <1>3, RegistrationsAre DEF MdnsInv, HandlersAreOwners
<1>6. RegisteredInOrder'
  <2> SUFFICES ASSUME NEW j \in DOMAIN Registrations,
                      Registrations[j].engine \in Wanted, j < next'
               PROVE  Registered(j)'
    BY DEF RegisteredInOrder, RegisterDomain
  <2>1. j \in 1..4 /\ next \in Nat
    BY RegistrationsAre DEF MdnsInv, PhaseTyped
  <2>2. CASE j < next
    BY <1>3, <2>2 DEF MdnsInv, RegisteredInOrder, RegisterDomain, Registered
  <2>3. CASE j >= next
    <3>1. i <= j
      BY <1>2, <2>3 DEF ToRegister
    <3>2. i = j
      BY <1>1, <1>2, <2>1, <3>1
    <3>. QED
      BY <1>3, <3>2 DEF Registered
  <2>. QED
    BY <2>1, <2>2, <2>3
<1>. QED
  BY <1>4, <1>5, <1>6 DEF MdnsInv

LEMMA HearsInv ==
  ASSUME MdnsInv, NEW s, NEW m \in Messages, Hears(s, m)
  PROVE  MdnsInv'
<1>1. UNCHANGED <<phase, next, handlers>> /\ reports' = reports \cup ReportsOf(m)
  BY DEF Hears
<1>2. FoundedInAnswers' /\ Converted' /\ WantedReport'
  BY <1>1, ReportIsFounded DEF MdnsInv, FoundedInAnswers, Converted, WantedReport
<1>3. HeardIsReported'
  <2>1. heard' = heard \cup {[message |-> m, complete |-> phase \in {"listening", "cancelled"}]}
    BY DEF Hears
  <2>2. \A k : ReportsOf(k)' = ReportsOf(k)
    BY <1>1 DEF ReportsOf, Triggered
  <2>3. ASSUME NEW h \in heard
        PROVE  /\ h.message \in Messages
               /\ h.complete => /\ phase' \in {"listening", "cancelled"}
                                /\ ReportsOf(h.message)' \subseteq reports'
    BY <1>1, <2>2 DEF MdnsInv, HeardIsReported
  <2>4. ReportsOf(m)' \subseteq reports'
    BY <1>1, <2>2
  <2>5. ASSUME NEW h, h = [message |-> m, complete |-> phase \in {"listening", "cancelled"}]
        PROVE  h.message = m /\ (h.complete <=> phase \in {"listening", "cancelled"})
    BY <2>5
  <2>. QED
    BY <1>1, <2>1, <2>3, <2>4, <2>5 DEF HeardIsReported
<1>. QED
  BY <1>1, <1>2, <1>3 DEF MdnsInv, PhaseTyped, HandlersAreOwners, RegisteredInOrder, Registered

LEMMA NextMdnsInv == MdnsInv /\ [MdnsNext]_mdnsVars => MdnsInv'
<1> SUFFICES ASSUME MdnsInv, [MdnsNext]_mdnsVars PROVE MdnsInv'
  OBVIOUS
<1>1. ASSUME NEW s, Listens(s) \/ LeavesOut(s) PROVE MdnsInv'
  BY <1>1, BrokerSteps DEF Listens, LeavesOut, BindsNext
<1>2. CASE BrokerListens \/ AllRegistered \/ Cancel
  BY <1>2, BrokerSteps DEF BrokerListens, AllRegistered, Cancel
<1>3. CASE RegisterDomain
  BY <1>3, RegisterDomainInv
<1>4. CASE Scan
  BY <1>4, BrokerSteps DEF Scan
<1>5. ASSUME NEW s, NEW m \in Messages, Hears(s, m) PROVE MdnsInv'
  BY <1>5, HearsInv
<1>6. ASSUME NEW s, TaskEnds(s) PROVE MdnsInv'
  BY <1>6, BrokerSteps DEF TaskEnds
<1>7. CASE UNCHANGED mdnsVars
  BY <1>7, BrokerSteps DEF mdnsVars
<1>. QED
  BY <1>1, <1>2, <1>3, <1>4, <1>5, <1>6, <1>7 DEF MdnsNext

LEMMA MdnsInvHolds == MdnsSpec => []MdnsInv
<1>. QED
  BY InitMdnsInv, NextMdnsInv, PTL DEF MdnsSpec

-----------------------------------------------------------------------------
\* Once the engines have listened, the broker has a handler for every domain of
\* every engine wanted, and it is that engine's: none is registered over.
HandlersComplete ==
  phase \in {"listening", "cancelled"} =>
    \A e \in Wanted : \A d \in DomainSet(e) : d \in DOMAIN handlers /\ handlers[d] = e

\* register_domain replaces a handler of the same name without a word: no two
\* engines have a domain in common.
LEMMA DomainsDiffer ==
  ASSUME NEW e \in MdnsEngineNames, NEW f \in MdnsEngineNames,
         NEW d \in DomainSet(e), d \in DomainSet(f)
  PROVE  e = f
<1>1. PICK i \in 1..4 : Registrations[i].engine = e /\ Registrations[i].domain = d
  BY RegistrationsAre DEF DomainSet
<1>2. PICK j \in 1..4 : Registrations[j].engine = f /\ Registrations[j].domain = d
  BY RegistrationsAre DEF DomainSet
<1>3. \A k \in 1..4 :
        Registrations[k].domain[1][1] =
          CASE k = 1 -> "_axis-nvr" [] k = 2 -> "_axis-video"
            [] k = 3 -> "_googlecast" [] k = 4 -> "_arec"
  BY DEF Registrations, Registration, Service
<1>4. i = j
  BY <1>1, <1>2, <1>3
<1>. QED
  BY <1>1, <1>2, <1>4

THEOREM HandlersAlwaysComplete == MdnsSpec => []HandlersComplete
<1>1. MdnsInv => HandlersComplete
  <2> SUFFICES ASSUME MdnsInv, phase \in {"listening", "cancelled"},
                      NEW e \in Wanted, NEW d \in DomainSet(e)
               PROVE  d \in DOMAIN handlers /\ handlers[d] = e
    BY DEF HandlersComplete
  <2>1. PICK i \in DOMAIN Registrations :
          Registrations[i].engine = e /\ Registrations[i].domain = d
    BY DEF DomainSet
  <2>2. d \in DOMAIN handlers
    BY <2>1 DEF MdnsInv, RegisteredInOrder, Registered
  <2>3. handlers[d] \in Wanted /\ d \in DomainSet(handlers[d])
    BY <2>2 DEF MdnsInv, HandlersAreOwners
  <2>. QED
    BY <2>2, <2>3, DomainsDiffer, WantedAssumption
<1>. QED
  BY <1>1, MdnsInvHolds, PTL

\* mdns.rs:71, on_packet: whatever came in, and whenever, a report is made by an
\* engine whose domain an answer of its packet names, with an address of it.
THEOREM ReportsComeFromAnswers == MdnsSpec => []FoundedInAnswers
<1>1. MdnsInv => FoundedInAnswers
  BY DEF MdnsInv
<1>. QED
  BY <1>1, MdnsInvHolds, PTL

\* A device reported of a packet that is written by the rules stands in it as sent.
THEOREM ReportsAlwaysFounded == MdnsSpec => []ReportsAreFounded
<1>1. FoundedInAnswers => ReportsAreFounded
  <2> SUFFICES ASSUME FoundedInAnswers, NEW r \in reports, IsWritten(r.of)
               PROVE  Founded(r, Seen(r.of))
    BY DEF ReportsAreFounded
  <2>1. r.of \in Messages /\ ParseDns(r.of.wire).ok /\ Founded(r, ParseDns(r.of.wire).answers)
    BY DEF FoundedInAnswers
  <2>2. ParseDns(r.of.wire) = Answers(Seen(r.of))
    BY <2>1, WrittenMessagesDecode DEF DecodesAsSaid
  <2>. QED
    BY <2>1, <2>2 DEF Answers
<1>. QED
  BY <1>1, ReportsComeFromAnswers, PTL
-----------------------------------------------------------------------------
\* mdns.rs:416: whatever has been heard, the decoder ends on it, with each name
\* spelt out and, if it is written by the rules, with its records.
THEOREM MessagesAlwaysDecode == MdnsSpec => []MessagesDecode
<1>1. ASSUME MdnsInv, NEW h \in heard
      PROVE  NamesDecode(h.message.wire.cells) /\ DecodesAsSaid(h.message)
  <2>1. h.message \in Messages
    BY <1>1 DEF MdnsInv, HeardIsReported
  <2>2. IsSequence(h.message.wire.cells)
    BY <2>1, MessagesAssumption DEF IsSequence
  <2>. QED
    BY <2>1, <2>2, NamesAlwaysDecode, WrittenMessagesDecode
<1>2. MdnsInv => MessagesDecode
  BY <1>1 DEF MessagesDecode
<1>. QED
  BY <1>2, MdnsInvHolds, PTL

\* The first of some positions is one of them, and there is one.
LEMMA FirstIsOne ==
  ASSUME NEW S \in SUBSET Nat
  PROVE  FirstAmong(S) \subseteq S /\ (S # {} => FirstAmong(S) # {})
<1>1. S # {} => \E i \in S : \A j \in S : i <= j
  BY LeastNumber
<1>. QED
  BY <1>1 DEF FirstAmong

LEMMA ReportedSpareFamilies ==
  ASSUME NEW addrs, NEW family \in {IPv4, IPv6}, addrs \cap family # {}
  PROVE  Reported(addrs) \cap family # {}
BY DEF Reported, AutoconfCounts

LEMMA SeenAddresses ==
  ASSUME NEW m \in Messages, NEW i \in DOMAIN Seen(m)
  PROVE  /\ i \in Nat
         /\ Seen(m)[i].type = "A" => Seen(m)[i].data \in IPv4
         /\ Seen(m)[i].type = "AAAA" => Seen(m)[i].data \in IPv6
<1>1. PICK n \in 0..Len(m.said) :
        /\ Len(m.said) \in Nat
        /\ DOMAIN Seen(m) = 1..n
        /\ \A j \in 1..n : j \in DOMAIN m.said /\ Seen(m)[j] = m.said[j]
  BY SeenIsPrefix
<1>2. i \in Nat /\ Seen(m)[i] \in ToSet(m.said)
  BY <1>1 DEF ToSet
<1>. QED
  BY <1>2, MessagesAssumption

LEMMA FirstAddressSpares ==
  ASSUME NEW m \in Messages, NEW family \in {IPv4, IPv6}, AddressesIn(m) \cap family # {}
  PROVE  (FirstAddress(Seen(m), "A") \cup FirstAddress(Seen(m), "AAAA")) \cap family # {}
<1> DEFINE answers == Seen(m)
           type == IF family = IPv4 THEN "A" ELSE "AAAA"
           S == PositionsOf(answers, {type})
<1>1. PICK i \in DOMAIN answers : answers[i].type \in {"A", "AAAA"} /\ answers[i].data \in family
  BY DEF AddressesIn, Addresses, PositionsOf
<1>2. answers[i].type = type
  <2>1. IPv4 \cap IPv6 = {}
    BY MdnsAddressAssumption
  <2>. QED
    BY <1>1, <2>1, SeenAddresses
<1>3. S \in SUBSET Nat /\ i \in S
  BY <1>1, <1>2, SeenAddresses DEF PositionsOf
<1> HIDE DEF S
<1>3a. FirstAmong(S) \subseteq S /\ FirstAmong(S) # {}
  BY <1>3, FirstIsOne
<1>4. PICK j \in FirstAmong(S) : j \in S
  BY <1>3a
<1> USE DEF S
<1>5. answers[j].data \in FirstAddress(answers, type)
  BY <1>4 DEF FirstAddress
<1>6. answers[j].data \in family
  BY <1>4, SeenAddresses DEF PositionsOf
<1>. QED
  BY <1>5, <1>6

\* Whatever records a packet has: with an address of a family and no empty TXT, each
\* engine makes a device with an address of that family.
LEMMA ConvertSpares ==
  ASSUME NEW e \in MdnsEngineNames, NEW m \in Messages, NEW family \in {IPv4, IPv6},
         AddressesIn(m) \cap family # {}, EmptyTxts(Seen(m)) = {}
  PROVE  \E d \in Convert(e, Seen(m)) : d.ip \in family
<1> DEFINE answers == Seen(m)
<1>1. PICK a \in Reported(Addresses(answers)) : a \in family
  BY ReportedSpareFamilies DEF AddressesIn
<1>2. PICK b \in FirstAddress(answers, "A") \cup FirstAddress(answers, "AAAA") : b \in family
  BY FirstAddressSpares
<1>3. CASE e = "Axis"
  <2>1. DeviceAt("Axis", a, IF Has(NamedBy(answers), Spaced)
                              THEN Before(NamedBy(answers), Spaced)
                              ELSE NamedBy(answers),
                 AxisSerial(answers), AxisMac(answers)) \in AxisConvert(answers)
    BY <1>1, Zenon DEF AxisConvert
  <2>. QED
    BY <1>1, <1>3, <2>1 DEF Convert, DeviceAt
<1>4. CASE e = "Google"
  <2>1. DeviceAt("Google", b, GoogleValue(answers, "md"), GoogleValue(answers, "fn"),
                 NoText) \in GoogleConvert(answers)
    BY <1>2, Zenon DEF GoogleConvert
  <2>. QED
    BY <1>2, <1>4, <2>1 DEF Convert, DeviceAt
<1>5. CASE e = "Arecont"
  <2>1. DeviceAt("Arecont", a, ArecontModel(NamedBy(answers), FlattenSeq(Txts(answers))),
                 ArecontSerial(NamedBy(answers)), NoText) \in ArecontConvert(answers)
    BY <1>1, Zenon DEF ArecontConvert
  <2>. QED
    BY <1>1, <1>5, <2>1 DEF Convert, DeviceAt
<1>. QED
  BY <1>3, <1>4, <1>5 DEF MdnsEngineNames

\* Once all have registered, records that name domains of at most one engine are
\* handed to that one, wherever in the packet they name it.
LEMMA NamedIsTriggered ==
  ASSUME MdnsInv, HandlersComplete, phase \in {"listening", "cancelled"},
         NEW answers, DOMAIN answers \in SUBSET Nat,
         NEW e \in Wanted,
         \A x \in Wanted : NamesOf(answers) \cap DomainSet(x) # {} => x = e
  PROVE  Triggered(answers) = { x \in {e} : NamesOf(answers) \cap DomainSet(x) # {} }
<1> DEFINE known == { i \in DOMAIN answers : answers[i].name \in DOMAIN handlers }
<1>1. \A i \in known : handlers[answers[i].name] = e /\ answers[i].name \in DomainSet(e)
  <2>1. SUFFICES ASSUME NEW i \in known
                 PROVE  handlers[answers[i].name] = e /\ answers[i].name \in DomainSet(e)
    OBVIOUS
  <2>2. /\ handlers[answers[i].name] \in Wanted
        /\ answers[i].name \in DomainSet(handlers[answers[i].name])
    BY DEF MdnsInv, HandlersAreOwners
  <2>3. answers[i].name \in NamesOf(answers)
    BY DEF NamesOf
  <2>. QED
    BY <2>2, <2>3
<1>2. known \in SUBSET Nat
  OBVIOUS
<1>3. FirstAmong(known) \subseteq known /\ (known # {} => FirstAmong(known) # {})
  BY <1>2, FirstIsOne
<1>4. Triggered(answers) = { handlers[answers[j].name] : j \in FirstAmong(known) }
  BY DEF Triggered
<1>5. known # {} <=> NamesOf(answers) \cap DomainSet(e) # {}
  BY <1>1 DEF NamesOf, HandlersComplete
<1> HIDE DEF known
<1>6. CASE known = {}
  BY <1>3, <1>4, <1>5, <1>6
<1>7. CASE known # {}
  <2>1. \A j \in FirstAmong(known) : handlers[answers[j].name] = e
    BY <1>1, <1>3
  <2>2. Triggered(answers) = {e}
    BY <1>3, <1>4, <1>7, <2>1
  <2>. QED
    BY <1>5, <1>7, <2>2
<1>. QED
  BY <1>6, <1>7

\* mdns.rs:61, on_packet: once all engines have registered, whoever answers for one
\* of them is reported by that one, with an address of each family it gave.
THEOREM DevicesAreAlwaysReported == MdnsSpec => []DevicesAreReported
<1>1. MdnsInv /\ HandlersComplete => DevicesAreReported
  <2> SUFFICES ASSUME MdnsInv, HandlersComplete,
                      NEW h \in heard, NEW e \in Wanted,
                      h.complete, SpeaksFor(h.message, e)
               PROVE  /\ \A family \in {IPv4, IPv6} :
                           AddressesIn(h.message) \cap family # {} =>
                             \E r \in { r \in reports : r.of = h.message } : r.device.ip \in family
                      /\ \A r \in { r \in reports : r.of = h.message } : r.by = e
    BY DEF DevicesAreReported
  <2>1. PICK m : m = h.message /\ m \in Messages
    BY DEF MdnsInv, HeardIsReported
  <2>2. phase \in {"listening", "cancelled"} /\ ReportsOf(m) \subseteq reports
    BY <2>1 DEF MdnsInv, HeardIsReported
  <2>3. SpeaksFor(m, e) /\ ParseDns(m.wire) = Answers(Seen(m))
    BY <2>1, WrittenMessagesDecode DEF DecodesAsSaid, SpeaksFor
  <2>4. Triggered(Seen(m)) = {e}
    <3>1. DOMAIN Seen(m) \in SUBSET Nat
      BY <2>1, SeenAddresses
    <3>2. \A x \in Wanted : NamesOf(Seen(m)) \cap DomainSet(x) # {} <=> x = e
      BY <2>3 DEF SpeaksFor, NamesIn
    <3>3. Triggered(Seen(m)) = { x \in {e} : NamesOf(Seen(m)) \cap DomainSet(x) # {} }
      BY <2>2, <3>1, <3>2, NamedIsTriggered
    <3>. QED
      BY <3>2, <3>3
  <2>5. \A d \in Convert(e, Seen(m)) : [by |-> e, of |-> m, device |-> d] \in reports
    BY <2>2, <2>3, <2>4 DEF ReportsOf, Answers
  <2>6. ASSUME NEW family \in {IPv4, IPv6}, AddressesIn(m) \cap family # {}
        PROVE  \E r \in { r \in reports : r.of = m } : r.device.ip \in family
    <3>1. e \in MdnsEngineNames /\ EmptyTxts(Seen(m)) = {}
      BY <2>3, WantedAssumption DEF SpeaksFor
    <3>2. PICK d \in Convert(e, Seen(m)) : d.ip \in family
      BY <2>1, <2>6, <3>1, ConvertSpares
    <3>3. PICK r : r = [by |-> e, of |-> m, device |-> d]
      OBVIOUS
    <3>4. r \in reports /\ r.of = m /\ r.device = d
      BY <2>5, <3>2, <3>3
    <3>. QED
      BY <3>2, <3>4
  <2>7. ASSUME NEW r \in reports, r.of = m PROVE r.by = e
    <3>1. r.by \in Wanted /\ NamesOf(Seen(m)) \cap DomainSet(r.by) # {}
      BY <2>3, <2>7 DEF MdnsInv, WantedReport, FoundedInAnswers, Founded, Answers
    <3>. QED
      BY <2>3, <3>1 DEF SpeaksFor, NamesIn
  <2>. QED
    BY <2>1, <2>6, <2>7
<1>. QED
  BY <1>1, MdnsInvHolds, HandlersAlwaysComplete, PTL
-----------------------------------------------------------------------------
\* Where all types are known, all of the records are looked at.
LEMMA AllIsSeen ==
  ASSUME NEW m \in Messages, \A i \in DOMAIN m.said : m.said[i].type \in KnownTypes
  PROVE  /\ Seen(m) = m.said
         /\ Len(m.said) \in Nat /\ DOMAIN m.said = 1..Len(m.said)
<1> DEFINE known(n) == \A i \in 1..n : m.said[i].type \in KnownTypes
           size == Len(m.said)
           isLast(n) == known(n) /\ (n < size => ~known(n + 1))
           last == CHOOSE n \in 0..size : isLast(n)
<1>1. m.said \in Seq(ToSet(m.said)) /\ size \in Nat /\ DOMAIN m.said = 1..size
  BY MessagesAssumption
<1>2. \A n \in 0..size : known(n)
  BY <1>1
<1>3. \A n \in 0..size : isLast(n) <=> n = size
  BY <1>1, <1>2
<1>4. last = size
  BY <1>1, <1>3
<1>5. Seen(m) = SubSeq(m.said, 1, last)
  BY DEF Seen
<1>. QED
  BY <1>1, <1>4, <1>5

\* The same records in another order.
Reordered(answers, o) == [i \in 1..Len(answers) |-> answers[o[i]]]

IsOrder(answers, o) ==
  /\ Len(answers) \in Nat /\ DOMAIN answers = 1..Len(answers)
  /\ o \in Bijection(1..Len(answers), 1..Len(answers))

LEMMA OrderFacts ==
  ASSUME NEW answers, NEW o, IsOrder(answers, o)
  PROVE  /\ DOMAIN Reordered(answers, o) = DOMAIN answers
         /\ \A i \in DOMAIN answers :
              o[i] \in DOMAIN answers /\ Reordered(answers, o)[i] = answers[o[i]]
         /\ \A i, j \in DOMAIN answers : o[i] = o[j] => i = j
         /\ \A k \in DOMAIN answers : \E i \in DOMAIN answers : o[i] = k
<1>1. /\ o \in [1..Len(answers) -> 1..Len(answers)]
      /\ \A i, j \in 1..Len(answers) : o[i] = o[j] => i = j
      /\ \A k \in 1..Len(answers) : \E i \in 1..Len(answers) : o[i] = k
  BY DEF IsOrder, Bijection, Injection, Surjection, IsInjective
<1>. QED
  BY <1>1 DEF IsOrder, Reordered

\* The same addresses, in any order.
LEMMA ReorderedAddresses ==
  ASSUME NEW answers, NEW o, IsOrder(answers, o)
  PROVE  Addresses(Reordered(answers, o)) = Addresses(answers)
<1> DEFINE other == Reordered(answers, o)
<1>1. ASSUME NEW i \in PositionsOf(other, {"A", "AAAA"})
      PROVE  other[i].data \in Addresses(answers)
  <2>1. i \in DOMAIN other /\ other[i].type \in {"A", "AAAA"}
    BY <1>1 DEF PositionsOf
  <2>2. o[i] \in DOMAIN answers /\ other[i] = answers[o[i]]
    BY <2>1, OrderFacts
  <2> HIDE DEF other
  <2>3. o[i] \in PositionsOf(answers, {"A", "AAAA"})
    BY <2>1, <2>2 DEF PositionsOf
  <2>. QED
    BY <2>2, <2>3 DEF Addresses
<1>2. ASSUME NEW k \in PositionsOf(answers, {"A", "AAAA"})
      PROVE  answers[k].data \in Addresses(other)
  <2>1. PICK i \in DOMAIN answers : o[i] = k
    BY <1>2, OrderFacts DEF PositionsOf
  <2>2. i \in DOMAIN other /\ other[i] = answers[k]
    BY <2>1, OrderFacts
  <2>3. answers[k].type \in {"A", "AAAA"}
    BY <1>2 DEF PositionsOf
  <2> HIDE DEF other
  <2>4. i \in PositionsOf(other, {"A", "AAAA"})
    BY <2>2, <2>3 DEF PositionsOf
  <2>. QED
    BY <2>2, <2>4 DEF Addresses
<1>. QED
  BY <1>1, <1>2 DEF Addresses

\* A single record of a type is the first of the sequence of those.
LEMMA SingleOfType ==
  ASSUME NEW answers, NEW type,
         Len(answers) \in Nat, DOMAIN answers = 1..Len(answers)
  PROVE  /\ PositionsOf(answers, {type}) = {} => OfType(answers, {type}) = << >>
         /\ \A k \in DOMAIN answers :
              PositionsOf(answers, {type}) = {k} => OfType(answers, {type}) = <<answers[k]>>
<1> DEFINE places == PositionsOf(answers, {type})
           kth(i) == CHOOSE p \in places : Cardinality({ q \in places : q <= p }) = i
<1>1. OfType(answers, {type}) = [i \in 1..Cardinality(places) |-> answers[kth(i)]]
  BY DEF OfType
<1>2. ASSUME places = {} PROVE OfType(answers, {type}) = << >>
  <2>1. Cardinality(places) = 0
    BY <1>2, FS_EmptySet
  <2> HIDE DEF places, kth
  <2>2. OfType(answers, {type}) = [i \in 1..0 |-> answers[kth(i)]]
    BY <1>1, <2>1
  <2>. QED
    BY <2>2
<1>3. ASSUME NEW k \in DOMAIN answers, places = {k}
      PROVE  OfType(answers, {type}) = <<answers[k]>>
  <2>1. Cardinality({k}) = 1
    BY FS_Singleton
  <2>2. { q \in {k} : q <= k } = {k}
    OBVIOUS
  <2>3. kth(1) = k
    BY <1>3, <2>1, <2>2
  <2> HIDE DEF places, kth
  <2>4. OfType(answers, {type}) = [i \in 1..1 |-> answers[kth(i)]]
    BY <1>1, <1>3, <2>1
  <2>5. [i \in 1..1 |-> answers[kth(i)]] = <<answers[kth(1)]>>
    OBVIOUS
  <2>. QED
    BY <2>3, <2>4, <2>5
<1>. QED
  BY <1>2, <1>3

\* A type that at most one record has: it is nowhere in either order, or at one
\* place of each.
StandOnce(other, answers, type) ==
  \/ PositionsOf(answers, {type}) = {} /\ PositionsOf(other, {type}) = {}
  \/ \E k, i \in DOMAIN answers :
       /\ PositionsOf(answers, {type}) = {k} /\ PositionsOf(other, {type}) = {i}
       /\ other[i] = answers[k]

LEMMA ReorderedPlaces ==
  ASSUME NEW answers, NEW o, IsOrder(answers, o), NEW type,
         Cardinality(PositionsOf(answers, {type})) <= 1
  PROVE  StandOnce(Reordered(answers, o), answers, type)
<1> DEFINE places == PositionsOf(answers, {type})
           others == PositionsOf(Reordered(answers, o), {type})
<1>1. others = { i \in DOMAIN answers : o[i] \in places }
  <2> DEFINE other == Reordered(answers, o)
  <2>1. DOMAIN other = DOMAIN answers
    BY OrderFacts
  <2>2. \A i \in DOMAIN answers : o[i] \in DOMAIN answers /\ other[i] = answers[o[i]]
    BY OrderFacts
  <2> HIDE DEF other
  <2>3. \A i \in DOMAIN answers : other[i].type \in {type} <=> o[i] \in places
    BY <2>2 DEF PositionsOf
  <2>4. PositionsOf(other, {type}) = { i \in DOMAIN answers : o[i] \in places }
    BY <2>1, <2>3 DEF PositionsOf
  <2>. QED
    BY <2>4 DEF other
<1>2. CASE places = {}
  BY <1>1, <1>2 DEF StandOnce
<1>3. CASE places # {}
  <2>1. PICK k \in places : TRUE
    BY <1>3
  <2>2. IsFiniteSet(places)
    <3>1. IsFiniteSet(1..Len(answers))
      BY FS_Interval DEF IsOrder
    <3>2. places \subseteq 1..Len(answers)
      BY DEF PositionsOf, IsOrder
    <3>. QED
      BY <3>1, <3>2, FS_Subset
  <2>3. places = {k}
    <3>1. Cardinality({k}) = 1 /\ {k} \subseteq places /\ Cardinality(places) \in Nat
      BY <2>1, <2>2, FS_Singleton, FS_CardinalityType
    <3>2. Cardinality(places) = Cardinality({k})
      <4>1. Cardinality({k}) <= Cardinality(places)
        BY <2>2, <3>1, FS_Subset
      <4>. QED
        BY <3>1, <4>1
    <3>. QED
      BY <2>2, <3>1, <3>2, FS_Subset
  <2>4. k \in DOMAIN answers
    BY <2>1 DEF PositionsOf
  <2>5. PICK i \in DOMAIN answers : o[i] = k
    BY <2>4, OrderFacts
  <2>6. others = {i}
    <3>1. \A j \in DOMAIN answers : o[j] = o[i] => j = i
      BY OrderFacts
    <3> HIDE DEF places, others
    <3>. QED
      BY <1>1, <2>3, <2>5, <3>1
  <2>7. Reordered(answers, o)[i] = answers[k]
    BY <2>5, OrderFacts
  <2>. QED
    BY <2>3, <2>4, <2>5, <2>6, <2>7 DEF StandOnce
<1>. QED
  BY <1>2, <1>3

EmptyOf(answers, type) == { i \in PositionsOf(answers, {type}) : answers[i].data = << >> }

SameSingles(other, answers, type) ==
  /\ OfType(other, {type}) = OfType(answers, {type})
  /\ FirstAddress(other, type) = FirstAddress(answers, type)
  /\ EmptyOf(other, type) # {} <=> EmptyOf(answers, type) # {}
  /\ FirstAmong(PositionsOf(other, {type})) \cap EmptyOf(other, type) # {}
       <=> FirstAmong(PositionsOf(answers, {type})) \cap EmptyOf(answers, type) # {}

\* Of such a type, both orders have the same record, the same first data, and an
\* empty string or none.
LEMMA ReorderedSingle ==
  ASSUME NEW answers, NEW o, IsOrder(answers, o), NEW type,
         Cardinality(PositionsOf(answers, {type})) <= 1
  PROVE  SameSingles(Reordered(answers, o), answers, type)
<1>1. PICK other : other = Reordered(answers, o)
  OBVIOUS
<1>2. /\ Len(answers) \in Nat /\ DOMAIN answers = 1..Len(answers)
      /\ Len(other) \in Nat /\ DOMAIN other = 1..Len(other)
      /\ DOMAIN other = DOMAIN answers
  BY <1>1 DEF IsOrder, Reordered
<1>3. ASSUME PositionsOf(answers, {type}) = {}, PositionsOf(other, {type}) = {}
      PROVE  SameSingles(other, answers, type)
  <2>1. OfType(other, {type}) = OfType(answers, {type})
    BY <1>2, <1>3, SingleOfType
  <2>2. FirstAddress(other, type) = FirstAddress(answers, type)
    BY <1>3 DEF FirstAddress, FirstAmong
  <2>. QED
    BY <1>3, <2>1, <2>2 DEF SameSingles, EmptyOf
<1>4. ASSUME NEW k \in DOMAIN answers, NEW i \in DOMAIN answers,
             PositionsOf(answers, {type}) = {k}, PositionsOf(other, {type}) = {i},
             other[i] = answers[k]
      PROVE  SameSingles(other, answers, type)
  <2>1. OfType(answers, {type}) = <<answers[k]>> /\ OfType(other, {type}) = <<other[i]>>
    BY <1>2, <1>4, SingleOfType
  <2>2. FirstAmong({k}) = {k} /\ FirstAmong({i}) = {i}
    BY <1>2 DEF FirstAmong
  <2>3. FirstAddress(other, type) = FirstAddress(answers, type)
    BY <1>4, <2>2 DEF FirstAddress
  <2>4. /\ EmptyOf(other, type) = IF other[i].data = << >> THEN {i} ELSE {}
        /\ EmptyOf(answers, type) = IF answers[k].data = << >> THEN {k} ELSE {}
    BY <1>4 DEF EmptyOf
  <2>. QED
    BY <1>4, <2>1, <2>2, <2>3, <2>4 DEF SameSingles
<1>5. StandOnce(other, answers, type)
  BY <1>1, ReorderedPlaces
<1>6. SameSingles(other, answers, type)
  BY <1>3, <1>4, <1>5 DEF StandOnce
<1>. QED
  BY <1>1, <1>6

\* Each engine makes the same devices of both orders.
LEMMA ReorderedConvert ==
  ASSUME NEW e \in MdnsEngineNames, NEW answers, NEW o, IsOrder(answers, o),
         \A t \in {"PTR", "TXT", "A", "AAAA"} : Cardinality(PositionsOf(answers, {t})) <= 1
  PROVE  Convert(e, Reordered(answers, o)) = Convert(e, answers)
<1> DEFINE other == Reordered(answers, o)
<1>0. \A t \in {"PTR", "TXT", "A", "AAAA"} : SameSingles(other, answers, t)
  BY ReorderedSingle
<1>1. OfType(other, {"PTR"}) = OfType(answers, {"PTR"})
      /\ OfType(other, {"TXT"}) = OfType(answers, {"TXT"})
  BY <1>0 DEF SameSingles
<1>2. /\ EmptyTxts(other) # {} <=> EmptyTxts(answers) # {}
      /\ FirstAmong(PositionsOf(other, {"TXT"})) \cap EmptyTxts(other) # {}
           <=> FirstAmong(PositionsOf(answers, {"TXT"})) \cap EmptyTxts(answers) # {}
  <2>1. EmptyTxts(other) = EmptyOf(other, "TXT") /\ EmptyTxts(answers) = EmptyOf(answers, "TXT")
    BY DEF EmptyTxts, EmptyOf
  <2>2. SameSingles(other, answers, "TXT")
    BY <1>0
  <2> HIDE DEF other
  <2>. QED
    BY <2>1, <2>2 DEF SameSingles
<1>3. /\ FirstAddress(other, "A") = FirstAddress(answers, "A")
      /\ FirstAddress(other, "AAAA") = FirstAddress(answers, "AAAA")
  BY <1>0 DEF SameSingles
<1>4. Addresses(other) = Addresses(answers)
  BY ReorderedAddresses
<1> HIDE DEF other
<1>5. Txts(other) = Txts(answers)
  BY <1>1, Zenon DEF Txts
<1>6. NamedBy(other) = NamedBy(answers)
  BY <1>1, Zenon DEF NamedBy
<1>7. AxisSerial(other) = AxisSerial(answers) /\ AxisMac(other) = AxisMac(answers)
  BY <1>5, <1>6, Zenon DEF AxisSerial, AxisMac
<1>8. AxisConvert(other) = AxisConvert(answers)
  BY <1>2, <1>4, <1>6, <1>7, Zenon DEF AxisConvert
<1>9. \A key : GoogleValue(other, key) = GoogleValue(answers, key)
  BY <1>5, Zenon DEF GoogleValue
<1>10. GoogleConvert(other) = GoogleConvert(answers)
  <2>1. CASE EmptyTxts(answers) # {}
    BY <1>2, <2>1, Zenon DEF GoogleConvert
  <2>2. CASE EmptyTxts(answers) = {}
    <3>1. EmptyTxts(other) = {}
      BY <1>2, <2>2
    <3>2. GoogleValue(other, "md") = GoogleValue(answers, "md")
          /\ GoogleValue(other, "fn") = GoogleValue(answers, "fn")
      BY <1>9
    <3> DEFINE Made(a) ==
          { DeviceAt("Google", i, GoogleValue(a, "md"), GoogleValue(a, "fn"), NoText) :
              i \in FirstAddress(a, "A") \cup FirstAddress(a, "AAAA") }
    <3>3. Made(other) = Made(answers)
      BY <1>3, <3>2, Zenon
    <3>4. \A a : EmptyTxts(a) = {} => GoogleConvert(a) = Made(a)
      BY Zenon DEF GoogleConvert
    <3> HIDE DEF Made
    <3>. QED
      BY <2>2, <3>1, <3>3, <3>4
  <2>. QED
    BY <2>1, <2>2
<1>11. ArecontConvert(other) = ArecontConvert(answers)
  BY <1>4, <1>5, <1>6, Zenon DEF ArecontConvert
<1>12. Convert(e, other) = Convert(e, answers)
  BY <1>8, <1>10, <1>11, Zenon DEF Convert
<1>. QED
  BY <1>12 DEF other

\* The names are the same in any order.
LEMMA ReorderedNames ==
  ASSUME NEW answers, NEW o, IsOrder(answers, o)
  PROVE  NamesOf(Reordered(answers, o)) = NamesOf(answers)
<1>1. PICK other : other = Reordered(answers, o)
  OBVIOUS
<1>2. /\ DOMAIN other = DOMAIN answers
      /\ \A i \in DOMAIN answers : o[i] \in DOMAIN answers /\ other[i] = answers[o[i]]
      /\ \A k \in DOMAIN answers : \E i \in DOMAIN answers : o[i] = k
  BY <1>1, OrderFacts
<1>3. ASSUME NEW i \in DOMAIN other PROVE other[i].name \in NamesOf(answers)
  <2>1. o[i] \in DOMAIN answers /\ other[i] = answers[o[i]]
    BY <1>2
  <2>2. answers[o[i]].name \in NamesOf(answers)
    BY <2>1 DEF NamesOf
  <2>. QED
    BY <2>1, <2>2
<1>4. ASSUME NEW k \in DOMAIN answers PROVE answers[k].name \in NamesOf(other)
  <2>1. PICK i \in DOMAIN other : o[i] = k
    BY <1>2
  <2>2. other[i] = answers[k]
    BY <1>2, <2>1
  <2>3. other[i].name \in NamesOf(other)
    BY DEF NamesOf
  <2>. QED
    BY <2>2, <2>3
<1>5. NamesOf(other) = NamesOf(answers)
  BY <1>3, <1>4 DEF NamesOf
<1>. QED
  BY <1>1, <1>5

\* The devices of all the engines a packet is handed to.
Made(answers) == UNION { Convert(e, answers) : e \in Triggered(answers) }

LEMMA ReportsAreMade ==
  ASSUME NEW m, ParseDns(m.wire).ok
  PROVE  { r.device : r \in ReportsOf(m) } = Made(ParseDns(m.wire).answers)
<1> DEFINE answers == ParseDns(m.wire).answers
           report(e, d) == [by |-> e, of |-> m, device |-> d]
<1>1. \A r : r \in ReportsOf(m) <=>
               \E e \in Triggered(answers) : \E d \in Convert(e, answers) : r = report(e, d)
  BY DEF ReportsOf
<1>2. \A e, d : report(e, d).device = d
  OBVIOUS
<1>3. \A d : d \in Made(answers) <=> \E e \in Triggered(answers) : d \in Convert(e, answers)
  BY DEF Made
<1> HIDE DEF answers, report
<1>4. ASSUME NEW r \in ReportsOf(m) PROVE r.device \in Made(answers)
  BY <1>1, <1>2, <1>3
<1>5. ASSUME NEW d \in Made(answers) PROVE \E r \in ReportsOf(m) : r.device = d
  <2>1. PICK e \in Triggered(answers) : d \in Convert(e, answers)
    BY <1>3
  <2>2. report(e, d) \in ReportsOf(m)
    BY <1>1, <2>1
  <2>. QED
    BY <1>2, <2>2
<1>6. { r.device : r \in ReportsOf(m) } = Made(answers)
  BY <1>4, <1>5
<1>. QED
  BY <1>6 DEF answers

\* What has been reported of a packet whose order is open is what its engine makes
\* of it, also where some was reported before all had registered.
LEMMA ReportedIsMade ==
  ASSUME MdnsInv, HandlersComplete, NEW h \in heard, h.complete, OrderIsOpen(h.message)
  PROVE  { r.device : r \in { r \in reports : r.of = h.message } } = Made(h.message.said)
<1>1. PICK m : m = h.message /\ m \in Messages
  BY DEF MdnsInv, HeardIsReported
<1>2. phase \in {"listening", "cancelled"} /\ ReportsOf(m) \subseteq reports
  BY <1>1 DEF MdnsInv, HeardIsReported
<1>3. ParseDns(m.wire) = Answers(m.said) /\ DOMAIN m.said \in SUBSET Nat
  BY <1>1, AllIsSeen, WrittenMessagesDecode DEF OrderIsOpen, DecodesAsSaid
<1>4. ParseDns(m.wire).ok /\ ParseDns(m.wire).answers = m.said
  BY <1>3 DEF Answers
<1>5. { r.device : r \in ReportsOf(m) } = Made(m.said)
  BY <1>4, ReportsAreMade
<1>6. ASSUME NEW r \in ReportsOf(m) PROVE r \in reports /\ r.of = m
  BY <1>1, <1>2, <1>6, ReportIsFounded DEF MdnsInv
<1>7. ASSUME NEW r \in reports, r.of = m PROVE r.device \in Made(m.said)
  <2>1. /\ r.by \in Wanted /\ NamesOf(m.said) \cap DomainSet(r.by) # {}
        /\ r.device \in Convert(r.by, m.said)
    BY <1>4, <1>7 DEF MdnsInv, WantedReport, FoundedInAnswers, Founded, Converted
  <2>2. \A x \in Wanted : NamesOf(m.said) \cap DomainSet(x) # {} => x = r.by
    BY <1>1, <2>1 DEF OrderIsOpen
  <2>3. r.by \in Triggered(m.said)
    BY <1>2, <1>3, <2>1, <2>2, NamedIsTriggered
  <2>. QED
    BY <2>1, <2>3 DEF Made
<1>. QED
  BY <1>1, <1>5, <1>6, <1>7

\* The same records in another order are handed to the same engine, which makes the
\* same devices of them.
LEMMA ReorderedMade ==
  ASSUME MdnsInv, HandlersComplete, phase \in {"listening", "cancelled"},
         NEW answers, NEW o, IsOrder(answers, o),
         \A t \in {"PTR", "TXT", "A", "AAAA"} : Cardinality(PositionsOf(answers, {t})) <= 1,
         \A x, y \in { e \in Wanted : NamesOf(answers) \cap DomainSet(e) # {} } : x = y
  PROVE  Made(Reordered(answers, o)) = Made(answers)
<1>1. PICK other : other = Reordered(answers, o)
  OBVIOUS
<1>2. DOMAIN answers \in SUBSET Nat /\ DOMAIN other \in SUBSET Nat
  <2>1. DOMAIN answers = 1..Len(answers) /\ Len(answers) \in Nat
    BY DEF IsOrder
  <2>2. DOMAIN other = DOMAIN answers
    BY <1>1, OrderFacts
  <2>. QED
    BY <2>1, <2>2
<1>3. NamesOf(other) = NamesOf(answers)
  BY <1>1, ReorderedNames
<1>4. Triggered(other) = Triggered(answers)
  <2>1. CASE \E e \in Wanted : NamesOf(answers) \cap DomainSet(e) # {}
    <3>1. PICK e \in Wanted : NamesOf(answers) \cap DomainSet(e) # {}
      BY <2>1
    <3>2. \A x \in Wanted : NamesOf(answers) \cap DomainSet(x) # {} => x = e
      BY <3>1
    <3>3. Triggered(answers) = { x \in {e} : NamesOf(answers) \cap DomainSet(x) # {} }
      BY <1>2, <3>2, NamedIsTriggered
    <3>4. Triggered(other) = { x \in {e} : NamesOf(other) \cap DomainSet(x) # {} }
      BY <1>2, <1>3, <3>2, NamedIsTriggered
    <3>. QED
      BY <1>3, <3>3, <3>4
  <2>2. CASE \A e \in Wanted : NamesOf(answers) \cap DomainSet(e) = {}
    <3>1. \A d \in DOMAIN handlers : d \notin NamesOf(answers)
      BY <2>2 DEF MdnsInv, HandlersAreOwners
    <3>2. \A a : NamesOf(a) = NamesOf(answers) => Triggered(a) = {}
      BY <3>1 DEF Triggered, NamesOf, FirstAmong
    <3>. QED
      BY <1>3, <3>2
  <2>. QED
    BY <2>1, <2>2
<1>5. \A e \in Triggered(answers) : e \in MdnsEngineNames
  BY WantedAssumption DEF Triggered, FirstAmong, MdnsInv, HandlersAreOwners
<1>6. \A e \in Triggered(answers) : Convert(e, other) = Convert(e, answers)
  BY <1>1, <1>5, ReorderedConvert
<1>7. Made(other) = Made(answers)
  BY <1>4, <1>6 DEF Made
<1>. QED
  BY <1>1, <1>7

\* mdns.rs:61, on_packet, and the joins of the three engines: a packet that could as
\* well have come in another order or layout is reported as it would have been.
THEOREM RecordOrderNeverMatters == MdnsSpec => []RecordOrderIrrelevant
<1>1. MdnsInv /\ HandlersComplete => RecordOrderIrrelevant
  <2> SUFFICES ASSUME MdnsInv, HandlersComplete, NEW h \in heard, NEW other \in Messages,
                      h.complete, OrderIsOpen(h.message),
                      SaysTheSame(h.message, other), IsWritten(other)
               PROVE  { r.device : r \in { r \in reports : r.of = h.message } }
                        = { r.device : r \in ReportsOf(other) }
    BY DEF RecordOrderIrrelevant
  <2>1. PICK m : m = h.message /\ m \in Messages
    BY DEF MdnsInv, HeardIsReported
  <2>2. phase \in {"listening", "cancelled"}
    BY DEF MdnsInv, HeardIsReported
  <2>3. OrderIsOpen(m) /\ SaysTheSame(m, other)
    BY <2>1
  <2>4. Len(m.said) \in Nat /\ DOMAIN m.said = 1..Len(m.said)
    BY <2>1, <2>3, AllIsSeen DEF OrderIsOpen
  <2>5. Orders[Len(m.said)] = Bijection(1..Len(m.said), 1..Len(m.said))
    BY <2>1 DEF Orders
  <2>6. PICK o \in Orders[Len(m.said)] : other.said = Reordered(m.said, o)
    BY <2>3 DEF SaysTheSame, Reordered
  <2>7. IsOrder(m.said, o)
    BY <2>4, <2>5, <2>6 DEF IsOrder
  <2>8. ParseDns(other.wire).ok /\ ParseDns(other.wire).answers = other.said
    <3>1. \A i \in DOMAIN other.said : other.said[i].type \in KnownTypes
      <4>1. /\ DOMAIN other.said = DOMAIN m.said
            /\ \A i \in DOMAIN m.said :
                 o[i] \in DOMAIN m.said /\ other.said[i] = m.said[o[i]]
        <5>1. /\ DOMAIN Reordered(m.said, o) = DOMAIN m.said
              /\ \A i \in DOMAIN m.said :
                   o[i] \in DOMAIN m.said /\ Reordered(m.said, o)[i] = m.said[o[i]]
          BY <2>7, OrderFacts
        <5>. QED
          BY <2>6, <5>1
      <4>. QED
        BY <2>3, <4>1 DEF OrderIsOpen
    <3>2. ParseDns(other.wire) = Answers(other.said)
      BY <3>1, AllIsSeen, WrittenMessagesDecode DEF DecodesAsSaid
    <3>. QED
      BY <3>2 DEF Answers
  <2>9. { r.device : r \in ReportsOf(other) } = Made(other.said)
    BY <2>8, ReportsAreMade
  <2>10. Made(other.said) = Made(m.said)
    BY <2>2, <2>3, <2>6, <2>7, ReorderedMade DEF OrderIsOpen
  <2>11. { r.device : r \in { r \in reports : r.of = m } } = Made(m.said)
    BY <2>1, <2>3, ReportedIsMade
  <2>. QED
    BY <2>1, <2>9, <2>10, <2>11
<1>. QED
  BY <1>1, MdnsInvHolds, HandlersAlwaysComplete, PTL
=============================================================================
