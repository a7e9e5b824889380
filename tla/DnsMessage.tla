------------------------------ MODULE DnsMessage ------------------------------
(***************************************************************************)
(* The DNS decoder of the mDNS broker: read_name, parse_txt and parse_dns  *)
(* of universal-scanner/src/mdns.rs.                                       *)
(*                                                                         *)
(* A message is its question and record counts and a sequence of cells.  A *)
(* cell is what the decoder reads at one go: a label with its length, the  *)
(* two octets of a compression pointer, the root octet, the type and class *)
(* of a question, the fixed part of a record (type, class, TTL and length  *)
(* of its data), or an item of data: an address, or one string of a TXT.   *)
(* Lengths are counted in cells.  A position where another kind of cell is *)
(* expected (a pointer into the middle of something) counts as malformed.  *)
(***************************************************************************)
EXTENDS Naturals, Sequences, SequencesExt

CONSTANTS
  Redirects,     \* the budget of read_name: 16
  Unspecified    \* the address, by type, that data of the wrong length gives

ASSUME RedirectsAssumption == Redirects \in Nat \ {0}

Label(text)       == [is |-> "label", text |-> text]
Pointer(to)       == [is |-> "pointer", to |-> to]
Root              == [is |-> "root"]
Question          == [is |-> "question"]
Fixed(type, size) == [is |-> "fixed", type |-> type, size |-> size]
Item(value)       == [is |-> "item", value |-> value]

Message(questions, records, cells) ==
  [questions |-> questions, records |-> records, cells |-> cells]

Record(name, type, data) == [name |-> name, type |-> type, data |-> data]

NoText == << >>

KnownTypes == {"A", "AAAA", "PTR", "TXT", "SRV"}

At(cells, p, kind) == p \in DOMAIN cells /\ cells[p].is = kind

-----------------------------------------------------------------------------
Malformed == [ok |-> FALSE]

Name(labels, next)  == [ok |-> TRUE, labels |-> labels, next |-> next]
Answers(answers)    == [ok |-> TRUE, answers |-> answers]

\* Mutant: the last redirect of the budget is still followed.
MayRedirectOnceMore(b) == b > 0

\* *budget = budget.saturating_sub(1), and an error when that makes 0.
MayRedirect(b) == b > 1

(***************************************************************************)
(* read_name at position q with budget b; read is what its recursive calls *)
(* give, by position and budget.  A dot is written after a label when      *)
(* anything but the root follows: a pointer to a root leaves a trailing    *)
(* dot, which is an empty last label.                                      *)
(***************************************************************************)
Dotted(cells, q, labels) ==
  IF labels = << >> /\ At(cells, q, "pointer") THEN <<NoText>> ELSE labels

ReadName(cells, read, q, b) ==
  CASE At(cells, q, "root") -> Name(<< >>, q + 1)
    [] At(cells, q, "label") ->
         LET rest == read[<<q + 1, b>>]
         IN  IF rest.ok
               THEN Name(<<cells[q].text>> \o Dotted(cells, q + 1, rest.labels), rest.next)
               ELSE Malformed
    [] At(cells, q, "pointer") ->
         LET rest == read[<<cells[q].to, b - 1>>]
         IN  IF cells[q].to \in DOMAIN cells /\ MayRedirect(b) /\ rest.ok
               THEN Name(rest.labels, q + 1)
               ELSE Malformed
    [] OTHER -> Malformed

NamesByPlace(cells) ==
  LET read[x \in (1..(Len(cells) + 1)) \X (0..Redirects)] == ReadName(cells, read, x[1], x[2])
  IN  read

NameAt(cells, p) == IF p \in DOMAIN cells THEN NamesByPlace(cells)[<<p, Redirects>>] ELSE Malformed

\* parse_txt: its loop stops with one octet left, so an empty last string, and
\* with it the single empty string of an empty TXT record, is not seen.
TxtStrings(strings) ==
  IF strings # << >> /\ Last(strings) = NoText THEN Front(strings) ELSE strings

ItemsOf(cells) == [i \in DOMAIN cells |-> cells[i].value]

\* The data of a record that starts at p: what it says, and whether it parses.
\* (The target of an SRV may fail to, and is used by no one.)
DataAt(cells, p, type, size) ==
  CASE type \in {"A", "AAAA"} ->
         IF size = 1 THEN cells[p].value ELSE Unspecified[type]
    [] type = "PTR" -> NameAt(cells, p).labels
    [] type = "TXT" -> TxtStrings(ItemsOf(SubSeq(cells, p, p + size - 1)))
    [] OTHER -> NoText

DataParses(cells, p, type) == type = "PTR" => NameAt(cells, p).ok

\* The rest of a record, from its fixed part on, lies within the message.
IsWhole(cells, p) ==
  At(cells, p, "fixed") /\ p + cells[p].size <= Len(cells)

\* Mutant: a type that is not known is skipped and the parse goes on.
NoType(type) == FALSE

\* An unknown type ends the parse: the records before it are the result.
EndsParse(type) == type \notin KnownTypes

\* The record that stands at position p.
RecordAt(cells, p) ==
  LET name  == NameAt(cells, p)
      fixed == cells[name.next]
  IN  Record(name.labels, fixed.type,
             DataAt(cells, name.next + 1, fixed.type, fixed.size))

\* parse_dns, its loop with k records to come, at position p; read is what the
\* rest of the loop gives, by records to come and position.
ReadRecords(cells, read, k, p) ==
  LET name  == NameAt(cells, p)
      fixed == cells[name.next]
      data  == name.next + 1
      rest  == read[<<k - 1, data + fixed.size>>]
  IN  IF k = 0 \/ p > Len(cells) THEN Answers(<< >>)
      ELSE IF ~name.ok \/ ~IsWhole(cells, name.next) THEN Malformed
      ELSE IF EndsParse(fixed.type) THEN Answers(<< >>)
      ELSE IF DataParses(cells, data, fixed.type) /\ rest.ok
        THEN Answers(<<RecordAt(cells, p)>> \o rest.answers)
      ELSE Malformed

RecordsByPlace(cells) ==
  LET read[x \in Nat \X (1..(Len(cells) + 1))] == ReadRecords(cells, read, x[1], x[2])
  IN  read

\* parse_dns: where the records begin, after n questions; 0 when malformed.
SkipQuestion(cells, p) ==
  LET name == NameAt(cells, p)
  IN  IF name.ok THEN IF At(cells, name.next, "question") THEN name.next + 1 ELSE 0
                 ELSE 0

AfterQuestions(cells) ==
  LET skip[k \in Nat] == IF k = 0 THEN 1 ELSE SkipQuestion(cells, skip[k - 1])
  IN  skip

\* parse_dns; a message without anything behind its header is too short.
ParseDns(m) ==
  LET p == AfterQuestions(m.cells)[m.questions]
  IN  IF m.cells # << >> /\ p # 0 THEN RecordsByPlace(m.cells)[<<m.records, p>>]
                                 ELSE Malformed

-----------------------------------------------------------------------------
(***************************************************************************)
(* What a decoder without a budget would make of a name: the cells met by  *)
(* walking from p; and the name that the first n of them spell, if a root  *)
(* comes then.                                                             *)
(***************************************************************************)
NextCell(cells, q) ==
  CASE At(cells, q, "label")   -> q + 1
    [] At(cells, q, "pointer") -> cells[q].to
    [] OTHER -> 0

Walk(cells, p) ==
  LET cell[n \in Nat] == IF n = 0 THEN p ELSE NextCell(cells, cell[n - 1])
  IN  cell

\* The walk reaches a root in n steps.
EndsIn(cells, p, n) == At(cells, Walk(cells, p)[n], "root")

\* The texts of the labels met in n steps.
TextOf(cells, q) == IF At(cells, q, "label") THEN <<cells[q].text>> ELSE << >>

Texts(cells, p) ==
  LET text[n \in Nat] ==
        IF n = 0 THEN << >> ELSE text[n - 1] \o TextOf(cells, Walk(cells, p)[n - 1])
  IN  text

Spelled(cells, p, n) ==
  LET texts == Texts(cells, p)[n]
  IN  IF texts # << >> /\ At(cells, Walk(cells, p)[n - 1], "pointer")
        THEN Append(texts, NoText) ELSE texts

PointersMet(cells, p, n) ==
  { i \in 0..(n - 1) : At(cells, Walk(cells, p)[i], "pointer") }

(***************************************************************************)
(* What a sender may put into a message.  A name goes from p up to next:   *)
(* labels, then the root or a pointer; its walk ends, with fewer pointers  *)
(* than the budget.                                                        *)
(***************************************************************************)
NameFills(cells, p, next) ==
  /\ p \in DOMAIN cells /\ next \in (p + 1)..(Len(cells) + 1)
  /\ \A i \in p..(next - 2) : At(cells, i, "label")
  /\ At(cells, next - 1, "root") \/ At(cells, next - 1, "pointer")

IsName(cells, p, n) ==
  EndsIn(cells, p, n) /\ Cardinality(PointersMet(cells, p, n)) < Redirects

NameStands(cells, p, name) ==
  \E n \in 0..Len(cells) : IsName(cells, p, n) /\ name = Spelled(cells, p, n)

\* An empty TXT is written as an empty string; a last string that is empty is lost.
StringsStand(strings, texts) ==
  IF texts = << >> THEN strings \in {<< >>, <<NoText>>}
                   ELSE strings = texts /\ texts[Len(texts)] # NoText

DataStands(cells, p, size, r) ==
  /\ r.type \in {"A", "AAAA"} =>
       r.data = IF size = 1 THEN cells[p].value ELSE Unspecified[r.type]
  /\ r.type = "PTR" => p \in DOMAIN cells /\ NameStands(cells, p, r.data)
  /\ r.type = "TXT" => StringsStand(ItemsOf(SubSeq(cells, p, p + size - 1)), r.data)
  /\ r.type = "SRV" => r.data = NoText

QuestionStands(cells, p, next) ==
  /\ NameFills(cells, p, next - 1) /\ \E n \in 0..Len(cells) : IsName(cells, p, n)
  /\ At(cells, next - 1, "question")

RecordStands(cells, p, next, r) ==
  \E f \in DOMAIN cells :
    /\ NameFills(cells, p, f) /\ NameStands(cells, p, r.name)
    /\ At(cells, f, "fixed") /\ cells[f].type = r.type
    /\ next = f + 1 + cells[f].size /\ next <= Len(cells) + 1
    /\ DataStands(cells, f + 1, cells[f].size, r)

\* A message has its questions and then the records said, at the positions at.
Carries(m, said, at) ==
  /\ m.cells # << >> /\ m.records = Len(said)
  /\ at \in Seq(1..(Len(m.cells) + 1)) /\ Len(at) = m.questions + m.records + 1 /\ at[1] = 1
  /\ \A i \in 1..m.questions : QuestionStands(m.cells, at[i], at[i + 1])
  /\ \A i \in 1..m.records :
       RecordStands(m.cells, at[m.questions + i], at[m.questions + i + 1], said[i])
=============================================================================
