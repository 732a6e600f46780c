--------------------------- MODULE CollectorsProofs ----------------------------
(***************************************************************************)
(* Proofs about the amdgpu and the openvpn handler and about all three     *)
(* together, for any configs and hosts, and texts of any length.           *)
(***************************************************************************)
EXTENDS BuiltinProofs

-----------------------------------------------------------------------------
(* AmdGpu: one output at most, and the rows are made of it alone.          *)

AInv ==
  /\ phase \in {"verify", "probe", "extract", "done", "raised"}
  /\ input \in AmdConfigs /\ DOMAIN results \subseteq input
  /\ phase \in {"verify", "probe"} => readings = <<>>
  /\ readings = <<>> \/ \E output : /\ readings = <<output>>
                                    /\ output = None \/ output \in Seq(A!Entries)
  /\ A!DownIsSilent
  /\ A!CardsKeepTheirRows

\* The instance has its own name for an operator of the standard module.
LEMMA SameCardinality == \A S : A!Cardinality(S) = Cardinality(S)
  BY Zenon DEF A!Cardinality, Cardinality

\* Whether a row is there, and the labels, do not depend on the values.
LEMMA RowLabels ==
  /\ DOMAIN A!Extracted("up") = {A!Parsed[i].label : i \in DOMAIN A!Parsed}
  /\ \A c : DOMAIN A!Extracted(c) \subseteq {A!Parsed[i].label : i \in DOMAIN A!Parsed}
  BY DEF A!Extracted, A!Rows

LEMMA DownRows ==
  ASSUME A!Parsed = A!Down
  PROVE  /\ DOMAIN A!Extracted("up") = {None} /\ A!Extracted("up")[None] = 0
         /\ \A c : c # "up" => DOMAIN A!Extracted(c) = {}
  <1>1. /\ DOMAIN A!Parsed = {1} /\ A!Parsed[1].label = None
        /\ A!Parsed[1].entry.id = None /\ A!Parsed[1].entry.fields = <<>>
    BY DEF A!Down
  <1>2. DOMAIN A!Extracted("up") = {None}
    BY <1>1, RowLabels
  <1>3. A!Empty(A!Parsed[1].entry) /\ \A key : ~A!Reports(A!Parsed[1].entry, key)
    BY <1>1 DEF A!Empty, A!Reports
  <1>4. A!Extracted("up")[None] = 0
    BY <1>1, <1>3 DEF A!Extracted, A!Rows
  <1>5. \A c : c # "up" => DOMAIN A!Extracted(c) = {}
    BY <1>1, <1>3 DEF A!Extracted, A!Rows
  <1> QED
    BY <1>2, <1>4, <1>5

\* A row shows what the last card with its label reports that reports anything.
LEMMA ColumnRows ==
  ASSUME NEW output \in Seq(A!Entries), readings = <<output>>, output \notin {None, <<>>}
  PROVE  /\ \A i \in DOMAIN output :
              A!HasPower(output[i]) => A!Own(output, i) \in DOMAIN A!Extracted("column")
         /\ \A label \in DOMAIN A!Extracted("column") :
              \E i \in DOMAIN output : /\ label = A!Own(output, i) /\ A!HasPower(output[i])
                                       /\ A!Extracted("column")[label] = output[i].fields.power
  <1> DEFINE with == {k \in DOMAIN A!Parsed : /\ A!Reports(A!Parsed[k].entry, "power")
                                              /\ A!Parsed[k].entry.fields.power # NA}
             last(l) == CHOOSE j \in with : /\ A!Parsed[j].label = l
                                            /\ \A k \in with : A!Parsed[k].label = l => k <= j
  <1>1. Len(output) \in Nat /\ DOMAIN output = 1..Len(output)
    BY LenProperties
  <1>2. /\ DOMAIN A!Parsed = DOMAIN output
        /\ \A i \in DOMAIN output : /\ A!Parsed[i].label = A!Own(output, i)
                                    /\ A!Parsed[i].entry = output[i]
    BY DEF A!Parsed, A!GpuLabel, A!Own
  <1>3. A!Extracted("column") = [l \in {A!Parsed[k].label : k \in with} |->
                                   A!Parsed[last(l)].entry.fields.power]
    BY DEF A!Extracted, A!Rows
  <1>4. with = {i \in DOMAIN output : A!HasPower(output[i])}
    BY <1>2 DEF A!HasPower, A!Reports
  <1>5. ASSUME NEW l \in {A!Parsed[k].label : k \in with}
        PROVE  last(l) \in with /\ A!Parsed[last(l)].label = l
    <2> DEFINE S == {k \in with : A!Parsed[k].label = l}
    <2>1. S \in SUBSET (0..Len(output)) /\ S # {}
      BY <1>1, <1>4
    <2>2. \E m \in S : \A k \in S : k <= m
      <3> HIDE DEF S
      <3> QED
        BY <1>1, <2>1, GreatestNumber
    <2>3. \E m \in with : /\ A!Parsed[m].label = l
                          /\ \A k \in with : A!Parsed[k].label = l => k <= m
      BY <2>2
    <2> HIDE DEF with
    <2> QED
      BY <2>3
  <1> HIDE DEF with, last
  <1>6. DOMAIN A!Extracted("column") = {A!Parsed[k].label : k \in with}
    BY <1>3
  <1>7. ASSUME NEW i \in DOMAIN output, A!HasPower(output[i])
        PROVE  A!Own(output, i) \in DOMAIN A!Extracted("column")
    BY <1>2, <1>4, <1>6, <1>7
  <1>8. ASSUME NEW l \in DOMAIN A!Extracted("column")
        PROVE  \E i \in DOMAIN output : /\ l = A!Own(output, i) /\ A!HasPower(output[i])
                                        /\ A!Extracted("column")[l] = output[i].fields.power
    <2>1. last(l) \in with /\ A!Parsed[last(l)].label = l
      BY <1>5, <1>6
    <2>2. A!Extracted("column")[l] = A!Parsed[last(l)].entry.fields.power
      BY <1>3, <1>6
    <2>3. last(l) \in DOMAIN output
      BY <1>4, <2>1
    <2> QED
      BY <1>2, <1>4, <2>1, <2>2, <2>3
  <1> QED
    BY <1>7, <1>8

\* Labels that are the cards' own differ from each other, so there is a row of up for
\* each card, and it says 1 if the card reports anything.
LEMMA UpRows ==
  ASSUME NEW output \in Seq(A!Entries), readings = <<output>>,
         output \notin {None, <<>>}, A!OwnLabels(output)
  PROVE  /\ Cardinality(DOMAIN A!Extracted("up")) = Len(output)
         /\ \A c : c # "up" => \A label \in DOMAIN A!Extracted(c) :
              A!Extracted("up")[label] = 1
  <1> DEFINE own(i) == A!Own(output, i)
  <1>1. Len(output) \in Nat /\ DOMAIN output = 1..Len(output)
    BY LenProperties
  <1>2. /\ DOMAIN A!Parsed = DOMAIN output
        /\ \A i \in DOMAIN output : A!Parsed[i].label = own(i) /\ A!Parsed[i].entry = output[i]
    BY DEF A!Parsed, A!GpuLabel, A!Own
  <1>3. ASSUME NEW i \in DOMAIN output, NEW j \in DOMAIN output, own(i) = own(j) PROVE i = j
    BY <1>1, <1>3 DEF A!OwnLabels, A!Own
  <1> HIDE DEF own
  <1>4. Cardinality(DOMAIN A!Extracted("up")) = Len(output)
    <2> DEFINE T == {own(i) : i \in DOMAIN output}
               f == [i \in DOMAIN output |-> own(i)]
    <2>1. DOMAIN A!Extracted("up") = T
      <3>1. {A!Parsed[i].label : i \in DOMAIN A!Parsed} = T
        BY <1>2
      <3> HIDE DEF T
      <3> QED
        BY <3>1, RowLabels
    <2>2. f \in Bijection(DOMAIN output, T)
      BY <1>3, Zenon DEF Bijection, Injection, Surjection, IsInjective
    <2>3. IsFiniteSet(DOMAIN output) /\ Cardinality(DOMAIN output) = Len(output)
      BY <1>1, FS_Interval
    <2>4. Cardinality(T) = Cardinality(DOMAIN output)
      <3>1. ExistsBijection(DOMAIN output, T)
        BY <2>2 DEF ExistsBijection
      <3> HIDE DEF T
      <3> QED
        BY <2>3, <3>1, FS_Bijection
    <2> QED
      BY <2>1, <2>3, <2>4
  <1>5. ASSUME NEW c, c # "up", NEW l \in DOMAIN A!Extracted(c)
        PROVE  A!Extracted("up")[l] = 1
    <2>1. PICK k \in DOMAIN A!Parsed : /\ A!Parsed[k].label = l
                                       /\ \E key : A!Reports(A!Parsed[k].entry, key)
      BY <1>5 DEF A!Extracted, A!Rows
    <2>2. ~A!Empty(A!Parsed[k].entry)
      BY <2>1 DEF A!Empty, A!Reports
    <2>3. \A j \in DOMAIN A!Parsed : A!Parsed[j].label = l <=> j = k
      BY <1>2, <1>3, <2>1
    <2>4. k <= k
      BY <1>1, <1>2
    <2>5. l \in {A!Parsed[j].label : j \in DOMAIN A!Parsed}
      BY <2>1
    <2> DEFINE last(m) == CHOOSE j \in DOMAIN A!Parsed :
                            /\ A!Parsed[j].label = m
                            /\ \A n \in DOMAIN A!Parsed : A!Parsed[n].label = m => n <= j
    <2>6. last(l) = k
      BY <2>3, <2>4
    <2>7. A!Extracted("up") = [m \in {A!Parsed[j].label : j \in DOMAIN A!Parsed} |->
                                 IF A!Empty(A!Parsed[last(m)].entry) THEN 0 ELSE 1]
      BY DEF A!Extracted, A!Rows
    <2> HIDE DEF last
    <2> QED
      BY <2>2, <2>5, <2>6, <2>7
  <1> QED
    BY <1>4, <1>5

LEMMA ExecuteStep ==
  ASSUME AInv, A!Execute
  PROVE  A!DownIsSilent' /\ A!CardsKeepTheirRows'
  <1>1. /\ readings' = readings /\ input' = input /\ A!Outputs' = A!Outputs
        /\ \A c \in input : results'[c] = A!Extracted(c)
    BY DEF A!Execute, A!Outputs
  <1>2. ASSUME NEW output \in A!Outputs PROVE readings = <<output>>
    BY <1>2 DEF AInv, A!Outputs
  <1>3. ASSUME NEW output \in A!Outputs, output \notin {None, <<>>}
        PROVE  output \in Seq(A!Entries)
    BY <1>2, <1>3 DEF AInv
  <1>4. ASSUME A!Outputs \intersect {None, <<>>} # {} PROVE A!Parsed = A!Down
    BY <1>2, <1>4 DEF A!Parsed
  <1>5. A!DownIsSilent'
    <2>1. \A c : DOMAIN A!Extracted(c) \subseteq DOMAIN A!Extracted("up")
      BY RowLabels
    <2>2. ASSUME NEW c \in input \ {"up"}, NEW label \in DOMAIN A!Extracted(c),
                 NEW output \in A!Outputs, A!OwnLabels(output)
          PROVE  A!Extracted("up")[label] = 1
      <3>1. output \notin {None, <<>>}
        BY <1>4, <2>2, DownRows
      <3> QED
        BY <1>2, <1>3, <2>2, <3>1, UpRows
    <2>3. \A output : A!OwnLabels(output)' <=> A!OwnLabels(output)
      BY DEF A!OwnLabels
    <2> QED
      BY <1>1, <1>4, <2>1, <2>2, <2>3, DownRows DEF A!DownIsSilent
  <1>6. A!CardsKeepTheirRows'
    <2> SUFFICES ASSUME NEW output \in A!Outputs \ {None, <<>>}
                 PROVE  /\ "column" \in input => \A label \in DOMAIN A!Extracted("column") :
                             \E i \in DOMAIN output :
                               /\ label = A!Own(output, i) /\ A!HasPower(output[i])
                               /\ A!Extracted("column")[label] = output[i].fields.power
                        /\ A!OwnLabels(output) =>
                             /\ "up" \in input => Cardinality(DOMAIN A!Extracted("up")) = Len(output)
                             /\ "column" \in input => \A i \in DOMAIN output :
                                  A!HasPower(output[i]) =>
                                    A!Own(output, i) \in DOMAIN A!Extracted("column")
      BY <1>1, SameCardinality DEF A!CardsKeepTheirRows, A!OwnLabels, A!HasPower, A!Reports, A!Own
    <2> QED
      BY <1>2, <1>3, ColumnRows, UpRows
  <1> QED
    BY <1>5, <1>6

LEMMA AmdGpuStep == AInv /\ A!Next => AInv'
  <1> SUFFICES ASSUME AInv, A!Next PROVE AInv'
    OBVIOUS
  <1>1. ASSUME phase' # "done" PROVE A!DownIsSilent' /\ A!CardsKeepTheirRows'
    BY <1>1 DEF A!DownIsSilent, A!CardsKeepTheirRows
  <1>2. CASE A!Verify
    BY <1>1, <1>2 DEF AInv, A!Verify
  <1>3. CASE A!Execute
    BY <1>3, ExecuteStep DEF AInv, A!Execute
  <1>4. CASE \E output \in {None} \union A!SeqOf(A!Entries, MaxCards) : A!Probe(output)
    <2>1. PICK output \in {None} \union A!SeqOf(A!Entries, MaxCards) : A!Probe(output)
      BY <1>4
    <2>2. output = None \/ output \in Seq(A!Entries)
      BY <2>1 DEF A!SeqOf
    <2>3. /\ readings = <<>> /\ readings' = Append(readings, output) /\ phase' = "extract"
          /\ input' = input /\ results' = results
      BY <2>1 DEF AInv, A!Probe
    <2>4. readings' = <<output>>
      BY <2>3
    <2> QED
      BY <1>1, <2>2, <2>3, <2>4 DEF AInv
  <1> QED
    BY <1>2, <1>3, <1>4 DEF A!Next

-----------------------------------------------------------------------------
(* OpenVpn: only a row that lost its end makes parsed() raise.             *)

\* A cut status keeps the header of every row it keeps.
LEMMA CutRow ==
  ASSUME NEW status \in Statuses, NEW text \in O!Torn(status), NEW i \in DOMAIN text,
         O!Row(text[i]), ~O!Mapped(text, i)
  PROVE  ~text[i].whole
  <1> DEFINE S == {status[k] : k \in DOMAIN status}
  <1>1. /\ status \in Seq(S)
        /\ \A k \in DOMAIN status :
             /\ status[k] = [key |-> status[k].key, table |-> status[k].table, name |-> status[k].name,
                             value |-> status[k].value, whole |-> TRUE]
             /\ O!Row(status[k]) => O!Mapped(status, k)
    BY StatusesAssumption
  <1> HIDE DEF S
  <1>2. Len(status) \in Nat /\ DOMAIN status = 1..Len(status)
    BY <1>1, LenProperties
  <1>3. \A n \in 0..Len(status) :
          /\ SubSeq(status, 1, n) \in Seq(S) /\ DOMAIN SubSeq(status, 1, n) = 1..n
          /\ Len(SubSeq(status, 1, n)) = n
          /\ \A k \in 1..n : SubSeq(status, 1, n)[k] = status[k]
    BY <1>1, <1>2, SubSeqProperties, LenProperties
  <1>4. ASSUME i \in DOMAIN status, \A k \in 1..i : text[k] = status[k]
        PROVE  FALSE
    <2>1. O!Mapped(status, i)
      BY <1>1, <1>2, <1>4 DEF O!Row
    <2> QED
      BY <1>2, <1>4, <2>1 DEF O!Mapped
  <1>5. CASE \E n \in 0..Len(status) : text = SubSeq(status, 1, n)
    <2>1. PICK n \in 0..Len(status) : text = SubSeq(status, 1, n)
      BY <1>5
    <2>2. i \in 1..n
      BY <1>3, <2>1
    <2> QED
      BY <1>2, <1>3, <1>4, <2>1, <2>2
  <1>6. CASE \E n \in DOMAIN status :
               text = Append(SubSeq(status, 1, n - 1), [status[n] EXCEPT !.whole = FALSE])
    <2>1. PICK n \in DOMAIN status :
               text = Append(SubSeq(status, 1, n - 1), [status[n] EXCEPT !.whole = FALSE])
      BY <1>6
    <2> DEFINE head == SubSeq(status, 1, n - 1)
               torn == [status[n] EXCEPT !.whole = FALSE]
    <2>2. /\ n - 1 \in 0..Len(status) /\ head \in Seq(S) /\ Len(head) = n - 1
          /\ \A k \in 1..(n - 1) : head[k] = status[k]
      BY <1>2, <1>3
    <2>3. torn.whole = FALSE
      BY <1>1
    <2> HIDE DEF head, torn
    <2>4. /\ DOMAIN text = 1..n /\ text[n] = torn
          /\ \A k \in 1..(n - 1) : text[k] = status[k]
      BY <1>2, <2>1, <2>2, Appended DEF head, torn
    <2>5. CASE i = n
      BY <2>3, <2>4, <2>5
    <2>6. CASE i \in 1..(n - 1)
      BY <1>2, <1>4, <2>4, <2>6
    <2> QED
      BY <1>2, <2>4, <2>5, <2>6
  <1> QED
    BY <1>5, <1>6 DEF O!Torn

OPhases == {"verify", "sources", "parsed", "extract", "done", "raised"}
ONothing == [configs |-> <<>>, statuses |-> <<>>]

\* How far sources() and parsed() are: the statuses of the first positions are read.
OProgress ==
  /\ phase \in OPhases
  /\ readings = [configs |-> readings.configs, statuses |-> readings.statuses]
  /\ \E S : readings.configs \in Seq(S)
  /\ \E S : input.statuses \in Seq(S)
  /\ Len(readings.configs) <= Len(input.statuses)
  /\ phase = "verify" => readings = ONothing
  /\ phase \in {"verify", "sources"} => DOMAIN readings.statuses = {}
  /\ phase \in {"parsed", "extract", "done"} => Len(readings.configs) = Len(input.statuses)
  /\ phase \in {"extract", "done"} => DOMAIN readings.statuses = O!Positions
  /\ DOMAIN readings.statuses \subseteq O!Positions
  /\ \A i \in DOMAIN readings.statuses, j \in O!Unread : i < j
  /\ \A i \in DOMAIN readings.statuses : readings.statuses[i].path = input.statuses[i]

OInv ==
  /\ OProgress
  /\ DOMAIN results \subseteq input.commands
  /\ O!OnlyRowsFail
  /\ O!DownIsSilent
  /\ O!PairedByPosition

\* Positions count from 1, so each is chosen by what holds of it alone.
LEMMA PositionsAreNumbers ==
  ASSUME OProgress
  PROVE  /\ Len(readings.configs) \in Nat /\ DOMAIN readings.configs = 1..Len(readings.configs)
         /\ O!Positions \subseteq 1..Len(readings.configs)
  BY LenProperties DEF OProgress, O!Positions

LEMMA LastAlone == ASSUME NEW i \in Int PROVE O!Last({i}) = i
  BY DEF O!Last

-----------------------------------------------------------------------------
\* What the extractors make of sources whose labels differ.
LEMMA UpRow ==
  ASSUME OProgress, O!Distinct, NEW k \in O!Positions
  PROVE  LET s == O!Source(k)
         IN /\ <<s.network, s.kind, s.cn>> \in DOMAIN O!Extracted("up")
            /\ O!Extracted("up")[<<s.network, s.kind, s.cn>>] = IF O!Text(k) # None THEN 1 ELSE 0
  <1> DEFINE key(i) == <<O!Source(i).network, O!Source(i).kind, O!Source(i).cn>>
             value(i) == IF O!Text(i) # None THEN 1 ELSE 0
             with == {i \in O!Positions : value(i) # None}
  <1>1. O!Extracted("up") = [l \in {key(i) : i \in with} |->
                               value(O!Last({i \in with : key(i) = l}))]
    BY DEF O!Extracted, O!LastRows
  <1>2. k \in with
    BY NumbersAssumption
  <1>3. {i \in with : key(i) = key(k)} = {k}
    BY <1>2 DEF O!Distinct, O!Labels
  <1>4. k \in Int
    BY PositionsAreNumbers
  <1>5. O!Last({k}) = k
    BY <1>4, LastAlone
  <1>6. key(k) \in {key(i) : i \in with}
    BY <1>2
  <1> HIDE DEF with, key, value
  <1>7. key(k) \in DOMAIN O!Extracted("up") /\ O!Extracted("up")[key(k)] = value(k)
    BY <1>1, <1>3, <1>5, <1>6
  <1> QED
    BY <1>7 DEF key, value

LEMMA FlagRow ==
  ASSUME NEW k \in O!Positions
  PROVE  <<O!Source(k).network, O!Source(k).kind>> \in DOMAIN O!Extracted("config_flag")
  <1> DEFINE value(i) == IF O!Source(i).params.flag THEN 1 ELSE 0
             with == {i \in O!Positions : value(i) # None}
  <1>1. O!Extracted("config_flag") = [l \in {O!Labels(i) : i \in with} |->
                                        value(O!Last({i \in with : O!Labels(i) = l}))]
    BY DEF O!Extracted, O!LastRows
  <1>2. k \in with
    BY NumbersAssumption
  <1> HIDE DEF with
  <1> QED
    BY <1>1, <1>2 DEF O!Labels

\* The first two labels of every row about a status are those of a source that is up.
LEMMA StatusLabels ==
  ASSUME NEW c \in O!StatusCommands, NEW l \in DOMAIN O!Extracted(c)
  PROVE  \E i \in O!Up(O!Either) : l[1] = O!Source(i).network /\ l[2] = O!Source(i).kind
  <1>1. O!Up({"server"}) \subseteq O!Up(O!Either) /\ O!Up({"client"}) \subseteq O!Up(O!Either)
    BY DEF O!Up, O!Either
  <1>2. CASE c = "status_update_time"
    <2>1. DOMAIN O!Extracted(c) \subseteq {O!Labels(i) : i \in O!Up(O!Either)}
      BY <1>2 DEF O!Extracted, O!LastRows
    <2> QED
      BY <2>1 DEF O!Labels
  <1>3. CASE c = "connected_clients"
    <2>1. DOMAIN O!Extracted(c) \subseteq {O!Labels(i) : i \in O!Up({"server"})}
      BY <1>3 DEF O!Extracted, O!LastRows
    <2> QED
      BY <1>1, <2>1 DEF O!Labels
  <1>4. CASE c = "client_counter"
    <2>1. DOMAIN O!Extracted(c) \subseteq {O!Labels(i) : i \in O!Up({"client"})}
      BY <1>4 DEF O!Extracted, O!LastRows
    <2> QED
      BY <1>1, <2>1 DEF O!Labels
  <1>5. CASE c = "max_queue"
    <2>1. DOMAIN O!Extracted(c) \subseteq {O!Labels(i) : i \in O!Up({"server"})}
      BY <1>5 DEF O!Extracted, O!LastRows
    <2> QED
      BY <1>1, <2>1 DEF O!Labels
  <1>6. CASE c \in {"server_client", "route"}
    <2>1. PICK table : O!Extracted(c) = O!TableRows(table)
      BY <1>6 DEF O!Extracted
    <2>2. PICK e \in O!TableLines(table) :
            l = <<O!Source(e[1]).network, O!Source(e[1]).kind, O!Text(e[1])[e[2]].name>>
      BY <2>1 DEF O!TableRows, O!FirstRows
    <2>3. e[1] \in O!Up({"server"})
      BY <2>2 DEF O!TableLines
    <2> QED
      BY <1>1, <2>2, <2>3
  <1> QED
    BY <1>2, <1>3, <1>4, <1>5, <1>6 DEF O!StatusCommands, O!Extractors

LEMMA SilentRows ==
  ASSUME O!Distinct, NEW k \in O!Positions, O!Text(k) = None, NEW c \in O!StatusCommands
  PROVE  ~\E l \in DOMAIN O!Extracted(c) : l[1] = O!Source(k).network /\ l[2] = O!Source(k).kind
  <1> SUFFICES ASSUME NEW l \in DOMAIN O!Extracted(c),
                      l[1] = O!Source(k).network /\ l[2] = O!Source(k).kind
               PROVE  FALSE
    OBVIOUS
  <1>1. PICK i \in O!Up(O!Either) : l[1] = O!Source(i).network /\ l[2] = O!Source(i).kind
    BY StatusLabels
  <1>2. i \in O!Positions /\ i # k
    BY DEF O!Up
  <1>3. O!Labels(i) = O!Labels(k)
    BY <1>1 DEF O!Labels
  <1> QED
    BY <1>2, <1>3 DEF O!Distinct

LEMMA ClientRow ==
  ASSUME OProgress, O!Distinct, NEW k \in O!Positions,
         O!Labels(k) \in DOMAIN O!Extracted("connected_clients")
  PROVE  /\ O!Text(k) # None
         /\ O!Extracted("connected_clients")[O!Labels(k)] = O!Cardinality(O!RowsOf(O!Text(k), "CLIENT_LIST"))
  <1> DEFINE value(i) == O!Cardinality(O!RowsOf(O!Text(i), "CLIENT_LIST"))
             with == {i \in O!Up({"server"}) : value(i) # None}
  <1>1. O!Extracted("connected_clients") = [l \in {O!Labels(i) : i \in with} |->
                                              value(O!Last({i \in with : O!Labels(i) = l}))]
    BY DEF O!Extracted, O!LastRows
  <1>2. PICK i \in with : O!Labels(i) = O!Labels(k)
    <2> HIDE DEF with
    <2> QED
      BY <1>1
  <1>3. \A j \in with : j \in O!Positions
    BY DEF O!Up
  <1>4. i = k /\ {j \in with : O!Labels(j) = O!Labels(k)} = {k}
    BY <1>2, <1>3 DEF O!Distinct
  <1>5. O!Last({k}) = k
    BY PositionsAreNumbers, LastAlone
  <1>6. O!Text(k) # None
    BY <1>4 DEF O!Up
  <1> HIDE DEF with, value
  <1>7. O!Extracted("connected_clients")[O!Labels(k)] = value(k)
    BY <1>1, <1>4, <1>5
  <1> QED
    BY <1>6, <1>7 DEF value

-----------------------------------------------------------------------------
\* One lemma per step of the handler.
LEMMA NotDone ==
  ASSUME phase' # "done"
  PROVE  O!DownIsSilent' /\ O!PairedByPosition'
  BY DEF O!DownIsSilent, O!PairedByPosition

LEMMA ReadConfigStep == ASSUME OInv, NEW text, O!ReadConfig(text) PROVE OInv'
  <1>1. PICK e : /\ readings' = [readings EXCEPT !.configs = Append(@, e)]
                 /\ phase' = "sources" /\ phase = "sources"
                 /\ input' = input /\ results' = results
                 /\ Len(readings.configs) < Len(input.statuses)
    BY DEF O!ReadConfig
  <1>2. PICK S : readings.configs \in Seq(S)
    BY DEF OInv, OProgress
  <1>3. /\ readings'.configs = Append(readings.configs, e)
        /\ readings'.statuses = readings.statuses
        /\ readings' = [configs |-> readings'.configs, statuses |-> readings'.statuses]
    BY <1>1 DEF OInv, OProgress
  <1>4. /\ readings'.configs \in Seq(S \union {e})
        /\ Len(readings'.configs) = Len(readings.configs) + 1
    BY <1>2, <1>3, Appended
  <1>5. Len(readings'.configs) <= Len(input.statuses)
    <2>1. PICK T : input.statuses \in Seq(T)
      BY DEF OInv, OProgress
    <2>2. Len(input.statuses) \in Nat /\ Len(readings.configs) \in Nat
      BY <1>2, <2>1, LenProperties
    <2> QED
      BY <1>1, <1>4, <2>2
  <1>6. DOMAIN readings'.statuses = {}
    BY <1>1, <1>3 DEF OInv, OProgress
  <1>7. OProgress'
    BY <1>1, <1>3, <1>4, <1>5, <1>6 DEF OInv, OProgress, OPhases
  <1>8. O!OnlyRowsFail'
    BY <1>1 DEF O!OnlyRowsFail
  <1> QED
    BY <1>1, <1>7, <1>8, NotDone DEF OInv

LEMMA ReadStatusStep ==
  ASSUME OInv, NEW k \in O!Positions, NEW text,
         text = None \/ \E status \in Statuses : text \in O!Torn(status),
         O!ReadStatus(k, text)
  PROVE  OInv'
  <1> DEFINE entry == [path |-> O!Source(k).status, text |-> text]
  <1>1. /\ phase' \in {"raised", "extract", "parsed"} /\ phase = "parsed"
        /\ input' = input /\ results' = results
        /\ k \in O!Unread /\ \A j \in O!Unread : k <= j
        /\ phase' = "raised" => O!Malformed(O!Source(k).kind, text)
        /\ phase' = "extract" => O!Unread = {k}
    BY DEF O!ReadStatus
  <1>2. /\ readings'.configs = readings.configs
        /\ readings'.statuses = [j \in DOMAIN readings.statuses \union {k} |->
                                   IF j = k THEN entry ELSE readings.statuses[j]]
        /\ readings' = [configs |-> readings'.configs, statuses |-> readings'.statuses]
    BY DEF O!ReadStatus, OInv, OProgress
  <1>3. O!Positions' = O!Positions
    BY <1>2 DEF O!Positions
  <1>4. DOMAIN readings'.statuses = DOMAIN readings.statuses \union {k}
    BY <1>2
  <1>5. O!Unread' = O!Unread \ {k}
    BY <1>3, <1>4 DEF O!Unread
  <1>6. k \in Int /\ \A j \in O!Positions : j \in Int
    BY PositionsAreNumbers DEF OInv
  <1>7. \A i \in DOMAIN readings'.statuses, j \in O!Unread' : i < j
    <2>1. \A i \in DOMAIN readings.statuses, j \in O!Unread : i < j
      BY DEF OInv, OProgress
    <2>2. \A j \in O!Unread \ {k} : k < j
      BY <1>1, <1>6 DEF O!Unread
    <2> QED
      BY <1>4, <1>5, <2>1, <2>2
  <1>8. \A i \in DOMAIN readings'.statuses : readings'.statuses[i].path = input.statuses[i]
    <2>1. entry.path = input.statuses[k]
      BY DEF O!Source, O!StatusPath
    <2> HIDE DEF entry
    <2> QED
      BY <1>2, <1>4, <2>1 DEF OInv, OProgress
  <1>9. OProgress'
    <2>1. DOMAIN readings.statuses \subseteq O!Positions
      BY DEF OInv, OProgress
    <2>2. phase' = "extract" => DOMAIN readings'.statuses = O!Positions
      BY <1>1, <1>4, <2>1 DEF O!Unread
    <2> HIDE DEF entry
    <2>3. phase' \notin {"verify", "sources", "done"} /\ phase' \in OPhases
      BY <1>1 DEF OPhases
    <2>4. /\ \E S : readings'.configs \in Seq(S)
          /\ \E S : input'.statuses \in Seq(S)
          /\ Len(readings'.configs) <= Len(input'.statuses)
      BY <1>1, <1>2 DEF OInv, OProgress
    <2>5. Len(readings'.configs) = Len(input'.statuses)
      BY <1>1, <1>2 DEF OInv, OProgress
    <2> QED
      BY <1>1, <1>2, <1>3, <1>4, <1>7, <1>8, <2>1, <2>2, <2>3, <2>4, <2>5 DEF OProgress
  <1>10. O!OnlyRowsFail'
    <2> SUFFICES ASSUME phase' = "raised"
                 PROVE  LET t == readings'.statuses[O!Last(DOMAIN readings'.statuses)].text
                        IN \E i \in DOMAIN t : O!Row(t[i]) /\ ~t[i].whole
      BY DEF O!OnlyRowsFail, O!Last, O!Row
    <2>1. \A i \in DOMAIN readings.statuses : i < k
      BY <1>1 DEF OInv, OProgress
    <2>2. O!Last(DOMAIN readings'.statuses) = k
      <3>1. DOMAIN readings.statuses \subseteq O!Positions
        BY DEF OInv, OProgress
      <3>2. \A j \in DOMAIN readings'.statuses :
              (\A i \in DOMAIN readings'.statuses : i <= j) <=> j = k
        <4>1. ASSUME NEW i \in DOMAIN readings.statuses PROVE i <= k /\ ~(k <= i)
          <5>1. i \in O!Positions
            BY <3>1
          <5>2. i \in Int /\ k \in Int /\ i < k
            BY <1>6, <2>1, <5>1
          <5> QED
            BY <5>2
        <4>2. k <= k
          BY <1>6
        <4> QED
          BY <1>4, <4>1, <4>2
      <3> QED
        BY <1>4, <3>2 DEF O!Last
    <2>3. readings'.statuses[k].text = text
      BY <1>2, <1>4
    <2>4. text # None /\ \E i \in DOMAIN text : O!Row(text[i]) /\ ~O!Mapped(text, i)
      BY <1>1 DEF O!Malformed
    <2>5. PICK status \in Statuses : text \in O!Torn(status)
      BY <2>4
    <2> QED
      BY <2>2, <2>3, <2>4, <2>5, CutRow
  <1> QED
    BY <1>1, <1>9, <1>10, NotDone DEF OInv

LEMMA VpnExecuteStep == ASSUME OInv, O!Execute PROVE OInv'
  <1>1. /\ readings' = readings /\ input' = input /\ phase = "extract" /\ phase' = "done"
        /\ DOMAIN results' = input.commands
        /\ \A c \in input.commands : results'[c] = O!Extracted(c)
    BY DEF O!Execute
  <1>2. OProgress
    BY DEF OInv
  <1>3. OProgress'
    BY <1>1, <1>2 DEF OProgress, OPhases, O!Positions, O!Unread
  <1>4. O!OnlyRowsFail'
    BY <1>1 DEF O!OnlyRowsFail
  <1>5. /\ O!Positions' = O!Positions
        /\ \A k : O!Source(k)' = O!Source(k)
    BY <1>1 DEF O!Positions, O!Source, O!StatusPath
  <1>6. O!Distinct' <=> O!Distinct
    BY <1>5 DEF O!Distinct, O!Labels
  <1>7. O!DownIsSilent'
    <2> SUFFICES ASSUME O!Distinct, NEW k \in O!Positions
                 PROVE  LET s == O!Source(k)
                            down == readings.statuses[k].text = None
                        IN /\ "up" \in input.commands =>
                                /\ <<s.network, s.kind, s.cn>> \in DOMAIN results'["up"]
                                /\ results'["up"][<<s.network, s.kind, s.cn>>] = IF down THEN 0 ELSE 1
                           /\ "config_flag" \in input.commands =>
                                <<s.network, s.kind>> \in DOMAIN results'["config_flag"]
                           /\ down => \A c \in O!StatusCommands \intersect input.commands :
                                ~\E l \in DOMAIN results'[c] : l[1] = s.network /\ l[2] = s.kind
      BY <1>1, <1>5, <1>6 DEF O!DownIsSilent, O!StatusCommands, O!Extractors
    <2>1. O!Text(k) = readings.statuses[k].text
      BY DEF O!Text
    <2> QED
      BY <1>1, <1>2, <2>1, UpRow, FlagRow, SilentRows
  <1>8. O!PairedByPosition'
    <2> SUFFICES ASSUME O!Distinct, "connected_clients" \in input.commands,
                        NEW i \in DOMAIN input.statuses \intersect DOMAIN input.configs,
                        readings.configs[i] # None,
                        <<input.configs[i].stem, "server">> \in DOMAIN results'["connected_clients"],
                        readings.configs[i].version = 3, readings.configs[i].server
                 PROVE  \E j \in DOMAIN readings.statuses :
                          LET status == readings.statuses[j]
                          IN /\ status.path = input.statuses[i] /\ status.text # None
                             /\ results'["connected_clients"][<<input.configs[i].stem, "server">>]
                                  = O!Cardinality({n \in DOMAIN status.text :
                                                     status.text[n].key = "CLIENT_LIST"})
      BY <1>1, <1>6 DEF O!PairedByPosition
    <2>1. i \in O!Positions
      <3>1. DOMAIN input.statuses = 1..Len(input.statuses)
        BY <1>2, LenProperties DEF OProgress
      <3>2. i \in DOMAIN readings.configs
        BY <1>1, <1>2, <3>1, PositionsAreNumbers DEF OProgress
      <3> QED
        BY <3>2 DEF O!Positions
    <2>2. O!Labels(i) = <<input.configs[i].stem, "server">>
      BY DEF O!Labels, O!Source
    <2>3. i \in DOMAIN readings.statuses /\ readings.statuses[i].path = input.statuses[i]
      BY <1>1, <1>2, <2>1 DEF OProgress
    <2>4. /\ O!Text(i) # None
          /\ results'["connected_clients"][O!Labels(i)]
               = O!Cardinality(O!RowsOf(O!Text(i), "CLIENT_LIST"))
      BY <1>1, <1>2, <2>1, <2>2, ClientRow
    <2> QED
      BY <2>2, <2>3, <2>4 DEF O!Text, O!RowsOf
  <1> QED
    BY <1>1, <1>3, <1>4, <1>7, <1>8 DEF OInv

LEMMA OpenVpnStep == OInv /\ O!Next => OInv'
  <1> SUFFICES ASSUME OInv, O!Next PROVE OInv'
    OBVIOUS
  <1>1. CASE O!Verify \/ O!SourcesRead
    <2>1. /\ readings' = readings /\ input' = input /\ results' = results
          /\ phase' # "done" /\ phase' \in OPhases
          /\ phase' = "raised" => phase = "verify"
          /\ phase' = "extract" => O!Positions = {}
          /\ phase' # "verify" /\ (phase' = "sources" => phase = "verify")
          /\ phase \in {"verify", "sources"}
          /\ phase' \in {"parsed", "extract"} => Len(readings.configs) = Len(input.statuses)
      BY <1>1 DEF O!Verify, O!SourcesRead, OPhases
    <2>2. DOMAIN readings.statuses = {}
      BY <2>1 DEF OInv, OProgress
    <2>3. O!Positions' = O!Positions /\ O!Unread' = O!Unread
      BY <2>1 DEF O!Positions, O!Unread
    <2>4. OProgress'
      BY <2>1, <2>2, <2>3 DEF OInv, OProgress
    <2>5. O!OnlyRowsFail'
      BY <2>1, <2>2 DEF O!OnlyRowsFail
    <2> QED
      BY <2>1, <2>4, <2>5, NotDone DEF OInv
  <1>2. CASE O!Execute
    BY <1>2, VpnExecuteStep
  <1>3. CASE \E text \in VpnConfigs \union {None} : O!ReadConfig(text)
    BY <1>3, ReadConfigStep
  <1>4. CASE \E k \in O!Positions, text \in {None} \union UNION {O!Torn(t) : t \in Statuses} :
               O!ReadStatus(k, text)
    <2> SUFFICES ASSUME NEW k \in O!Positions, NEW text,
                        text = None \/ \E status \in Statuses : text \in O!Torn(status),
                        O!ReadStatus(k, text)
                 PROVE  OInv'
      BY <1>4
    <2> QED
      BY ReadStatusStep
  <1> QED
    BY <1>1, <1>2, <1>3, <1>4 DEF O!Next

-----------------------------------------------------------------------------
(* The composition: the other handlers' steps leave this one alone.        *)

IInv ==
  /\ handler \in {"builtin", "amdgpu", "openvpn"}
  /\ handler = "builtin" => BInv /\ BData
  /\ handler = "amdgpu" => AInv
  /\ handler = "openvpn" => OInv

LEMMA Initially == Init => IInv
  <1>1. ASSUME handler = "builtin", B!Init PROVE IInv
    BY <1>1 DEF B!Init, IInv, BInv, BData
  <1>2. ASSUME handler = "amdgpu", A!Init PROVE IInv
    BY <1>2 DEF A!Init, IInv, AInv, A!DownIsSilent, A!CardsKeepTheirRows
  <1>3. ASSUME handler = "openvpn", O!Init PROVE IInv
    <2>1. /\ phase = "verify" /\ readings = ONothing /\ results = <<>>
          /\ \E env \in Paths : input.statuses = env.statuses
      BY <1>3 DEF O!Init, ONothing
    <2>2. \E S : input.statuses \in Seq(S)
      BY <2>1, PathsAssumption
    <2>3. /\ readings.configs = <<>> /\ readings.statuses = <<>>
          /\ \A S : <<>> \in Seq(S) /\ Len(<<>>) = 0 /\ DOMAIN <<>> = {}
      BY <2>1 DEF ONothing
    <2>4. 0 <= Len(input.statuses)
      BY <2>2, LenProperties
    <2>5. OProgress
      BY <2>1, <2>2, <2>3, <2>4 DEF OProgress, OPhases, ONothing
    <2>6. O!OnlyRowsFail /\ O!DownIsSilent /\ O!PairedByPosition
      BY <2>1 DEF O!OnlyRowsFail, O!DownIsSilent, O!PairedByPosition
    <2> QED
      BY <1>3, <2>1, <2>3, <2>5, <2>6 DEF IInv, OInv
  <1> QED
    BY <1>1, <1>2, <1>3 DEF Init

LEMMA Inductive == IInv /\ [Next]_vars => IInv'
  <1> SUFFICES ASSUME IInv, [Next]_vars PROVE IInv'
    OBVIOUS
  <1>1. CASE handler = "builtin" /\ B!Next /\ UNCHANGED handler
    BY <1>1, BuiltinStep DEF IInv
  <1>2. CASE handler = "amdgpu" /\ A!Next /\ UNCHANGED handler
    BY <1>2, AmdGpuStep DEF IInv
  <1>3. CASE handler = "openvpn" /\ O!Next /\ UNCHANGED handler
    BY <1>3, OpenVpnStep DEF IInv
  <1>4. CASE UNCHANGED vars
    <2>1. /\ phase' = phase /\ input' = input /\ readings' = readings /\ results' = results
          /\ handler' = handler
      BY <1>4 DEF vars
    <2>2. /\ Visited' = Visited /\ B!Verified(input)' = B!Verified(input)
          /\ \A n : SourceOf(n)' = SourceOf(n)
          /\ \A s : B!Wanted(s)' = B!Wanted(s)
      BY <2>1 DEF Visited, SourceOf, B!Wanted, B!Of, B!Item, B!Verified
    <2>3. ASSUME NEW q \in 1..12, Reached(q) PROVE Reached(q)'
      BY <2>1, <2>2, <2>3 DEF Reached
    <2>4. BInv /\ BData => BInv' /\ BData'
      <3>1. BInv => BInv'
        BY <2>1, <2>2, <2>3 DEF BInv
      <3>2. \A n : B!Item(n)' = B!Item(n)
        BY <2>1 DEF B!Item
      <3>3. BData => BData'
        BY <2>1, <2>2, <3>2 DEF BData
      <3> QED
        BY <3>1, <3>3
    <2>5. AInv => AInv'
      <3>1. A!Outputs' = A!Outputs
        BY <2>1 DEF A!Outputs
      <3>2. A!DownIsSilent' <=> A!DownIsSilent
        BY <2>1, <3>1 DEF A!DownIsSilent, A!OwnLabels
      <3>3. A!CardsKeepTheirRows' <=> A!CardsKeepTheirRows
        BY <2>1, <3>1, SameCardinality
           DEF A!CardsKeepTheirRows, A!OwnLabels, A!Reports, A!HasPower, A!Own
      <3> QED
        BY <2>1, <3>2, <3>3 DEF AInv
    <2>6. OInv => OInv'
      <3>1. /\ O!Positions' = O!Positions /\ O!Unread' = O!Unread
            /\ \A k : O!Source(k)' = O!Source(k)
        BY <2>1 DEF O!Positions, O!Unread, O!Source, O!StatusPath
      <3>2. O!Distinct' <=> O!Distinct
        BY <3>1 DEF O!Distinct, O!Labels
      <3>3. OProgress' <=> OProgress
        BY <2>1, <3>1 DEF OProgress
      <3>4. O!OnlyRowsFail' <=> O!OnlyRowsFail
        BY <2>1 DEF O!OnlyRowsFail, O!Row
      <3>5. O!DownIsSilent' <=> O!DownIsSilent
        BY <2>1, <3>1, <3>2 DEF O!DownIsSilent, O!StatusCommands, O!Extractors
      <3>6. O!PairedByPosition' <=> O!PairedByPosition
        <4> DEFINE clients(j) == O!Cardinality({n \in DOMAIN readings.statuses[j].text :
                                                 readings.statuses[j].text[n].key = "CLIENT_LIST"})
                   paired == phase = "done" /\ O!Distinct /\ "connected_clients" \in input.commands =>
                     \A i \in DOMAIN input.statuses \intersect DOMAIN input.configs :
                       LET network == <<input.configs[i].stem, "server">>
                           config == readings.configs[i]
                       IN (/\ config # None /\ network \in DOMAIN results["connected_clients"]
                           /\ config.version = 3 /\ config.server) =>
                            \E j \in DOMAIN readings.statuses :
                              LET status == readings.statuses[j]
                              IN /\ status.path = input.statuses[i] /\ status.text # None
                                 /\ results["connected_clients"][network] = clients(j)
        <4>1. paired <=> O!PairedByPosition
          BY DEF O!PairedByPosition
        <4>2. paired' <=> O!PairedByPosition'
          BY DEF O!PairedByPosition
        <4>3. \A j : clients(j)' = clients(j)
          BY <2>1
        <4> HIDE DEF clients
        <4>4. paired' <=> paired
          BY <2>1, <3>2, <4>3
        <4> QED
          BY <4>1, <4>2, <4>4
      <3> QED
        BY <2>1, <3>3, <3>4, <3>5, <3>6 DEF OInv
    <2> QED
      BY <2>1, <2>4, <2>5, <2>6 DEF IInv
  <1> QED
    BY <1>1, <1>2, <1>3, <1>4 DEF Next

LEMMA Invariance == Spec => []IInv
  BY Initially, Inductive, PTL DEF Spec

\* Each handler's state has its types: a builtin cycle has no more readings than there
\* are sources, amd-smi is run once, and the statuses read are those of sources.
THEOREM TypesAlways == Spec => []TypeOK
  <1>1. ASSUME AInv PROVE A!TypeOK
    <2>1. Len(readings) <= 1
      <3>1. CASE readings = <<>>
        BY <3>1
      <3>2. CASE \E output : readings = <<output>>
        BY <3>2
      <3> QED
        BY <1>1, <3>1, <3>2 DEF AInv
    <2> QED
      BY <1>1, <2>1 DEF AInv, A!TypeOK
  <1>2. ASSUME OInv PROVE O!TypeOK
    BY <1>2 DEF OInv, OProgress, OPhases, O!TypeOK
  <1>3. IInv => TypeOK
    BY <1>1, <1>2, BuiltinTyped DEF IInv, TypeOK
  <1> QED
    BY <1>3, Invariance, PTL

\* Whatever the host, the runtime and the config are, a builtin cycle whose config
\* verify() has accepted does not raise (handlers/builtin.py:45, core/builtin.py:419).
THEOREM CycleSurvivesAlways == Spec => []CycleSurvives
  <1>1. IInv => CycleSurvives
    BY DEF IInv, BInv, CycleSurvives, B!CycleSurvives
  <1> QED
    BY <1>1, Invariance, PTL

\* For every config, a cycle reads no source twice and none that no metric asks
\* for, and leaves no metric without a result (core/builtin.py:422-423).
THEOREM SourcesReadOnceAlways == Spec => []SourcesReadOnce
  <1>1. ASSUME IInv, handler = "builtin" PROVE B!SourcesReadOnce
    <2>1. CASE phase \in {"verify", "raised"}
      <3>1. DOMAIN readings = {} /\ phase # "done"
        BY <1>1, <2>1 DEF IInv, BInv
      <3> QED
        BY <3>1 DEF B!SourcesReadOnce
    <2>2. CASE phase \notin {"verify", "raised"}
      <3>1. B!Verified(input)
        BY <1>1, <2>2 DEF IInv, BInv
      <3>2. PICK p \in 1..12 : Reached(p)
        BY <1>1, <2>2 DEF IInv, BInv
      <3>3. ASSUME NEW i \in DOMAIN readings
            PROVE  \E n \in DOMAIN input :
                     \/ input[n].source = readings[i].source
                     \/ input[n].source = "timings" /\ readings[i].source = "runtime"
                     \/ B!Item(n) = "by_user" /\ readings[i].source = "uids"
        <4>1. B!Wanted(readings[i].source)
          BY <3>2 DEF Reached
        <4> QED
          BY <4>1 DEF B!Wanted, B!Of
      <3>4. ASSUME phase = "done" PROVE DOMAIN results = DOMAIN input
        <4>1. p = 12
          BY <3>2, <3>4, SourceFacts DEF Reached, Order
        <4>2. \A n \in DOMAIN input : SourceOf(n) \in Visited
          BY <3>1, <3>2, <4>1, HasSource DEF Reached, Order
        <4> QED
          BY <3>2, <4>2 DEF Reached
      <3>5. \A i, j \in DOMAIN readings : readings[i].source = readings[j].source => i = j
        BY <3>2 DEF Reached
      <3> QED
        BY <3>3, <3>4, <3>5 DEF B!SourcesReadOnce
    <2> QED
      BY <2>1, <2>2
  <1>2. IInv => SourcesReadOnce
    BY <1>1 DEF SourcesReadOnce
  <1> QED
    BY <1>2, Invariance, PTL

\* For any number of users, sessions, file systems and lines, and whatever changes
\* between the awaits, the metrics of one source agree (core/builtin.py:422).
THEOREM FamiliesAgreeAlways == Spec => []FamiliesAgree
  <1>1. IInv => FamiliesAgree
    BY Agreement DEF IInv, FamiliesAgree
  <1> QED
    BY <1>1, Invariance, PTL

\* For every config and every way the probes fail, what was not read shows as 0.0 or as
\* no row (core/builtin.py:424).
THEOREM FailedReadsZeroAlways == Spec => []FailedReadsZero
  <1>1. IInv => FailedReadsZero
    BY FailedAreZero DEF IInv, FailedReadsZero
  <1> QED
    BY <1>1, Invariance, PTL

\* For outputs of any length, the loop over the lines of a package tool counts those
\* that no block of obsoleting packages holds (core/builtin.py:359).
THEOREM UpgradesCountedAlways == Spec => []UpgradesCounted
  <1>1. IInv => UpgradesCounted
    BY Upgraded DEF IInv, UpgradesCounted
  <1> QED
    BY <1>1, Invariance, PTL

\* For every output of amd-smi a failed run shows as one row that is down and as no
\* other sample; and no card's data shows under a label that has no row of up, or, where
\* labels are the cards' own, one that says down (handlers/amdgpu.py:95).
THEOREM GpuDownIsSilentAlways == Spec => []GpuDownIsSilent
  <1>1. IInv => GpuDownIsSilent
    BY DEF IInv, AInv, GpuDownIsSilent
  <1> QED
    BY <1>1, Invariance, PTL

\* Whatever ids any number of cards report, a row shows what a card with its label
\* reported; and if all report ids of their own, or none does, each has its own row
\* (handlers/amdgpu.py:49).
THEOREM CardsKeepTheirRowsAlways == Spec => []CardsKeepTheirRows
  <1>1. IInv => CardsKeepTheirRows
    BY DEF IInv, AInv, CardsKeepTheirRows
  <1> QED
    BY <1>1, Invariance, PTL

\* Wherever OpenVPN is interrupted in writing any status, only a row that lost its end
\* fails the cycle (handlers/openvpn.py:154).
THEOREM OnlyRowsFailAlways == Spec => []OnlyRowsFail
  <1>1. IInv => OnlyRowsFail
    BY DEF IInv, OInv, OnlyRowsFail
  <1> QED
    BY <1>1, Invariance, PTL

\* For any configs and statuses, a source whose status cannot be read has its row of
\* up, with 0, the rows of its config, and no other (handlers/openvpn.py:166).
THEOREM VpnDownIsSilentAlways == Spec => []VpnDownIsSilent
  <1>1. IInv => VpnDownIsSilent
    BY DEF IInv, OInv, VpnDownIsSilent
  <1> QED
    BY <1>1, Invariance, PTL

\* For any number of configs, skipped or not, the clients shown for a network are those
\* of the status file at the position of its config (handlers/openvpn.py:465).
THEOREM PairedByPositionAlways == Spec => []PairedByPosition
  <1>1. IInv => PairedByPosition
    BY DEF IInv, OInv, PairedByPosition
  <1> QED
    BY <1>1, Invariance, PTL

================================================================================
