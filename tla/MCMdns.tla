-------------------------------- MODULE MCMdns --------------------------------
(***************************************************************************)
(* mDNS with its three engines and one interface. The packets are those    *)
(* of devices that answer for one engine or for two, with names in full or *)
(* compressed, in the usual order and in others, and with what real        *)
(* responders add or get wrong; then our own query, looped back; and small *)
(* messages whose names run through pointers in every way.                 *)
(***************************************************************************)
EXTENDS Mdns

CONSTANTS nic1, v4, auto4, none4, v6, auto6, none6

MCNics == <<nic1>>
MCIPv4 == {v4, auto4, none4}
MCIPv6 == {v6, auto6, none6}
MCAutoconf == {auto4, auto6}
MCUnspecified == [A |-> none4, AAAA |-> none6]

-----------------------------------------------------------------------------
\* The responder's side: records written one after the other; when compressing,
\* a suffix that stands before becomes a pointer.
WithName(acc, name, compress) ==
  LET suffix(i) == SubSeq(name, i, Len(name))
      known(i)  == compress /\ suffix(i) \in DOMAIN acc.at
      cut       == CHOOSE i \in 1..(Len(name) + 1) :
                     /\ known(i) \/ i = Len(name) + 1
                     /\ \A j \in 1..(i - 1) : ~known(j)
      labels    == [i \in 1..(cut - 1) |-> Label(name[i])]
      end       == IF cut > Len(name) THEN Root ELSE Pointer(acc.at[suffix(cut)])
      fresh     == [s \in { suffix(i) : i \in 1..(cut - 1) } |->
                      Len(acc.cells) + 1 + Len(name) - Len(s)]
  IN  [cells |-> acc.cells \o Append(labels, end), at |-> acc.at @@ fresh]

DataCells(r) ==
  CASE r.type = "TXT" -> IF r.data = << >> THEN <<Item(NoText)>>
                         ELSE [i \in DOMAIN r.data |-> Item(r.data[i])]
    [] r.data \in {none4, none6} -> <<Item(r.data), Item(r.data)>>
    [] OTHER -> <<Item(r.data)>>

WithRecord(acc, r, compress) ==
  LET named == WithName(acc, r.name, compress)
      at    == Len(named.cells) + 1
      slot  == [named EXCEPT !.cells = Append(@, Root)]
      ptr   == WithName(slot, r.data, compress)
  IN  IF r.type = "PTR"
        THEN [ptr EXCEPT !.cells[at] = Fixed("PTR", Len(ptr.cells) - at)]
        ELSE [named EXCEPT !.cells =
                @ \o <<Fixed(r.type, Len(DataCells(r)))>> \o DataCells(r)]

CellsOf(records, compress) ==
  FoldLeft(LAMBDA acc, r : WithRecord(acc, r, compress),
           [cells |-> << >>, at |-> << >>], records).cells

Packet(records, compress) ==
  [said |-> records,
   at   |-> [i \in 1..(Len(records) + 1) |->
               Len(CellsOf(SubSeq(records, 1, i - 1), compress)) + 1],
   wire |-> Message(0, Len(records), CellsOf(records, compress))]

-----------------------------------------------------------------------------
Camera  == << <<"AXIS M1", " - ", "ACCC">>, <<"_axis-video">>, <<"_tcp">>, <<"local">> >>
Cast    == << <<"Living", "-", "room">>, <<"_googlecast">>, <<"_tcp">>, <<"local">> >>
Arec    == << <<"AV1", "-", "AV7">>, <<"_arec">>, <<"_tcp">>, <<"local">> >>
HostName == << <<"host">>, <<"local">> >>

Ptr(domain, to) == Record(domain, "PTR", to)
Txt(name, strings) == Record(name, "TXT", strings)
A(ip)    == Record(HostName, "A", ip)
AAAA(ip) == Record(HostName, "AAAA", ip)
Srv(name) == Record(name, "SRV", NoText)
Nsec     == Record(HostName, "NSEC", NoText)

AxisPtr == Ptr(Service("_axis-video"), Camera)
CastPtr == Ptr(Service("_googlecast"), Cast)
ArecPtr == Ptr(Service("_arec"), Arec)
AxisTxt == Txt(Camera, << <<"serial", "=", "ACCC">>, <<"macaddress", "=", "ACCC">> >>)
CastTxt == Txt(Cast, << <<"id", "=", "7">>, <<"md", "=", "TV">>, <<"fn", "=", "Den">> >>)
ArecTxt == Txt(Arec, << <<"MAC", "=", "AV7", "-", "FW", "/", "5100">> >>)
NoTxt   == Txt(Cast, << >>)

Said ==
  { <<AxisPtr, Srv(Camera), AxisTxt, A(v4), AAAA(auto6)>>,
    <<A(v4), AxisTxt, AxisPtr>>,
    <<AxisPtr, A(auto4), AAAA(v6)>>,
    <<AxisPtr, A(v4), A(auto4), Nsec, AAAA(v6)>>,
    <<AxisPtr, Txt(Camera, << >>), A(v4)>>,
    <<CastPtr, Srv(Cast), CastTxt, A(auto4), AAAA(v6)>>,
    <<CastTxt, A(none4), CastPtr>>,
    <<CastPtr, NoTxt, A(v4)>>,
    <<ArecPtr, ArecTxt, A(auto4), AAAA(none6)>>,
    <<ArecTxt, AAAA(v6), ArecPtr>>,
    <<AxisPtr, CastPtr, CastTxt, A(v4)>>,
    <<ArecPtr, CastPtr, NoTxt, A(v4)>>,
    <<A(v4), AAAA(v6)>> }

\* One device of each engine, its records in every order.
Shuffled ==
  UNION { { [i \in DOMAIN r |-> r[o[i]]] : o \in Bijection(DOMAIN r, DOMAIN r) } :
            r \in { <<A(v4), AxisTxt, AxisPtr>>, <<CastTxt, A(none4), CastPtr>>,
                    <<ArecTxt, AAAA(v6), ArecPtr>> } }

Cut(records) ==
  LET whole == Packet(records, TRUE).wire
  IN  [said |-> << >>, at |-> << >>, wire |-> [whole EXCEPT !.cells = Front(@)]]

\* A question and nothing else, as we ask it and as it may be ill-formed.
Asking(cells) ==
  [said |-> << >>, at |-> <<1, Len(cells) + 1>>, wire |-> Message(1, 0, cells)]

OwnQuery ==
  Asking(WithName([cells |-> << >>, at |-> << >>], Service("_axis-video"), FALSE).cells
         \o <<Question>>)

NameCells == {Label(<<"x">>), Root, Pointer(1), Pointer(2), Pointer(3), Pointer(9)}

Names ==
  { <<a, b>> : a \in NameCells, b \in NameCells }
    \cup { <<a, b, c>> : a \in NameCells, b \in NameCells, c \in NameCells }
    \cup { <<Pointer(2), Pointer(3), Pointer(4), Root>>,
           <<Pointer(2), Pointer(3), Pointer(4), Pointer(5), Root>>,
           <<Label(<<"x">>), Pointer(4), Root, Pointer(5), Root>> }

MCMessages ==
  { Packet(records, compress) : records \in Said, compress \in BOOLEAN }
    \cup { Packet(records, TRUE) : records \in Shuffled }
    \cup { Cut(records) : records \in {<<AxisPtr, A(v4)>>, <<CastPtr, CastTxt, A(v4)>>} }
    \cup { OwnQuery }
    \cup { Asking(cells) : cells \in Names }

\* Every packet that says anything, and our own query, is written by the rules.
ASSUME PacketsAreWritten ==
  \A m \in MCMessages : m.said # << >> \/ m = OwnQuery => IsWritten(m)
=============================================================================
