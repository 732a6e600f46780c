-------------------------------- MODULE AmdGpu ---------------------------------
(***************************************************************************)
(* verify() and execute() of the amdgpu handler (handlers/amdgpu.py): one  *)
(* run of amd-smi serves every metric of a cycle.                          *)
(*                                                                         *)
(* An entry of its output has an id or None, and the fields it reports: a  *)
(* number, or NA for anything that is none. The 17 numeric columns are     *)
(* alike and one field stands for them. An output is None if the run       *)
(* failed, <<>> if it is no list of objects. The label of the row that     *)
(* reports a failed run, the empty string, is the label None.              *)
(***************************************************************************)
EXTENDS Integers, FiniteSets, SequencesExt

CONSTANTS Configs,  \* the sets of commands configs have
          Numbers, None, NA,
          MaxCards  \* bound: entries of an output

VARIABLES
  phase,     \* "verify", "probe", "extract", "done" or "raised"
  input,     \* the configured commands
  readings,  \* the outputs of amd-smi
  results    \* the rows of each command: labels to values

vars == <<phase, input, readings, results>>

Commands == {"up", "throttled", "column"}

\* Ids are small and start at 0, like the row positions that stand in for them.
\* An entry without any field is an empty object.
Fields  == [power : Numbers \union {NA}] \union [throttled : BOOLEAN] \union {<<>>}
             \union [power : Numbers, throttled : BOOLEAN]
Entries == [id : (0..MaxCards) \union {None}, fields : Fields]

Init == /\ phase = "verify" /\ input \in Configs
        /\ readings = <<>> /\ results = <<>>

Verify ==
  /\ phase = "verify"
  /\ phase' = IF input \subseteq Commands THEN IF input = {} THEN "extract" ELSE "probe"
              ELSE "raised"
  /\ UNCHANGED <<input, readings, results>>

\* _probe: no metrics, no run; and one run for all metrics.
Probe_PerMetric(output) ==
  /\ phase = "probe"
  /\ readings' = Append(readings, output)
  /\ phase' = IF Len(readings') = Cardinality(input) THEN "extract" ELSE "probe"
  /\ UNCHANGED <<input, results>>
Probe(output) ==
  /\ phase = "probe"
  /\ readings' = Append(readings, output)
  /\ phase' = "extract"
  /\ UNCHANGED <<input, results>>

-----------------------------------------------------------------------------
\* gpu_label: the position counts from 0.
GpuLabel_Position(entry, i) == i - 1
GpuLabel(entry, i) == IF entry.id # None THEN entry.id ELSE i - 1

\* What _probe returns: labelled entries, or the row that says the run failed.
Down_Nothing == <<>>
Down == <<[label |-> None, entry |-> [id |-> None, fields |-> <<>>]]>>
Parsed ==
  IF readings = <<>> THEN <<>>
  ELSE IF readings[1] \in {None, <<>>} THEN Down
  ELSE [i \in DOMAIN readings[1] |->
          [label |-> GpuLabel(readings[1][i], i), entry |-> readings[1][i]]]

\* A row per entry that has the value; the later entry with a label wins.
Rows(has(_), value(_)) ==
  LET with == {i \in DOMAIN Parsed : has(Parsed[i].entry)}
  IN [label \in {Parsed[i].label : i \in with} |->
        LET i == CHOOSE j \in with : /\ Parsed[j].label = label
                                     /\ \A k \in with : Parsed[k].label = label => k <= j
        IN value(Parsed[i].entry)]

Reports(entry, key) == key \in DOMAIN entry.fields
Empty(entry) == entry.id = None /\ DOMAIN entry.fields = {}

Extracted(command) ==
  IF command = "up" THEN Rows(LAMBDA e : TRUE, LAMBDA e : IF Empty(e) THEN 0 ELSE 1)
  ELSE IF command = "throttled"
       THEN Rows(LAMBDA e : Reports(e, "throttled"), LAMBDA e : IF e.fields.throttled THEN 1 ELSE 0)
       ELSE Rows(LAMBDA e : Reports(e, "power") /\ e.fields.power # NA, LAMBDA e : e.fields.power)

Execute ==
  /\ phase = "extract"
  /\ results' = [c \in input |-> Extracted(c)]
  /\ phase' = "done"
  /\ UNCHANGED <<input, readings>>

Next == Verify \/ Execute \/ \E output \in {None} \union SeqOf(Entries, MaxCards) : Probe(output)

Spec == Init /\ [][Next]_vars

-----------------------------------------------------------------------------
TypeOK ==
  /\ phase \in {"verify", "probe", "extract", "done", "raised"}
  /\ input \in Configs
  /\ Len(readings) <= 1
  /\ DOMAIN results \subseteq input

\* What a card's label should be: its id, or its place in the output from 0 on.
Own(output, i) == IF output[i].id = None THEN i - 1 ELSE output[i].id
HasPower(entry) == Reports(entry, "power") /\ entry.fields.power # NA

\* All cards report ids of their own, or none reports one.
OwnLabels(output) ==
  \/ \A i, j \in DOMAIN output : i # j => output[i].id # None /\ output[i].id # output[j].id
  \/ \A i \in DOMAIN output : output[i].id = None

Outputs == {readings[i] : i \in DOMAIN readings}

\* A failed or useless run shows as one row that is down and as no other sample. After
\* any other, a label under which a card's data shows has a row of up; and as long as
\* labels are the cards' own, that row says 1.
DownIsSilent ==
  phase = "done" /\ "up" \in input =>
    /\ Outputs \intersect {None, <<>>} # {} =>
         /\ DOMAIN results["up"] = {None} /\ results["up"][None] = 0
         /\ \A c \in input \ {"up"} : DOMAIN results[c] = {}
    /\ \A c \in input \ {"up"} : \A label \in DOMAIN results[c] :
         /\ label \in DOMAIN results["up"]
         /\ \A output \in Outputs : OwnLabels(output) => results["up"][label] = 1

\* What is shown under a label was reported by a card with that label, whatever ids
\* the cards report. Where labels are the cards' own, every card has its row, and
\* what it says is that card's: an NA is no sample.
CardsKeepTheirRows ==
  \A output \in Outputs \ {None, <<>>} :
    phase = "done" =>
      /\ "column" \in input => \A label \in DOMAIN results["column"] :
           \E i \in DOMAIN output : /\ label = Own(output, i) /\ HasPower(output[i])
                                    /\ results["column"][label] = output[i].fields.power
      /\ OwnLabels(output) =>
           /\ "up" \in input => Cardinality(DOMAIN results["up"]) = Len(output)
           /\ "column" \in input => \A i \in DOMAIN output :
                HasPower(output[i]) => Own(output, i) \in DOMAIN results["column"]

===============================================================================
