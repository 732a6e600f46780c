---------------------------- MODULE HandlerSupport ----------------------------
(***************************************************************************)
(* One cycle of the bash handler (handlers/bash.py): verify_metrics() of   *)
(* helpers/support.py on the config, run_cmds() on the commands' output,   *)
(* line by line, and render_exposition() of helpers/exposition.py.         *)
(*                                                                         *)
(* Numbers are integers in an arbitrary unit; One is the number 1 of the   *)
(* quantiles' range. A name is a sequence of words, so that a metric whose *)
(* own name ends in _sum meets the series of another one. The three scalar *)
(* types are alike, and what a scalar's value is plays no part.            *)
(***************************************************************************)
EXTENDS Integers, Sequences

CONSTANTS Names,       \* the metric names configs use, sequences of words
          Bounds,      \* the buckets and quantiles configs declare
          Values,      \* the values commands print
          One,         \* the number 1
          None,        \* Python's None, and the label of an unlabelled sample
          Infinity,    \* the label of the +Inf bucket
          MaxMetrics,  \* bound: metrics of a config
          MaxDeclared, \* bound: buckets or quantiles of a metric
          MaxLines     \* bound: lines of an output

ASSUME NumbersAssumption ==
  Bounds \subseteq Int /\ Values \subseteq Int /\ One \in Int
ASSUME NamesAssumption == Names \subseteq Seq(STRING)
ASSUME NoneAssumption == None \notin Int /\ Infinity \notin Int /\ None # Infinity
ASSUME SupportBoundsAssumption ==
  MaxMetrics \in Nat /\ MaxDeclared \in Nat /\ MaxLines \in Nat

Kinds == {"scalar", "histogram", "summary"}

\* declared holds the buckets of a histogram and the quantiles of a summary.
Lists   == UNION {[1..n -> Bounds] : n \in 0..MaxDeclared}
Metrics == [name : Names, kind : Kinds, declared : Lists]

VARIABLES
  phase,       \* "verify", "parse", "finalize", "rendered" or "raised"
  config,      \* what read() returned
  at,          \* the metric whose output run_cmds parses
  values,      \* locals of parse_distribution: the value of each declared key,
  sum_value, count_value,
  errors,      \* ... and has it met an error?
  lines,       \* lines read of this output
  printed,     \* history: how many lines the output has for each key
  raw,         \* the lines of each command's output, once parsed
  results,     \* the parsed sample of each name
  failed,      \* has the parsing of an output failed?
  exposition   \* the samples rendered for each metric

parser == <<values, sum_value, count_value, errors, lines, printed>>
vars == <<phase, config, at, parser, raw, results, failed, exposition>>

-----------------------------------------------------------------------------
SeriesNames_ScalarSummary(m) ==
  IF m.kind = "histogram"
  THEN {Append(m.name, "bucket"), Append(m.name, "sum"), Append(m.name, "count")}
  ELSE {m.name}

\* series_names: what a metric exports.
SeriesNames(m) ==
  IF m.kind = "scalar" THEN {m.name}
  ELSE {IF m.kind = "histogram" THEN Append(m.name, "bucket") ELSE m.name,
        Append(m.name, "sum"), Append(m.name, "count")}

\* _verify_doubles, and the check that no other type declares a list.
Ascending_NotStrictly(s) == \A i \in 1..(Len(s) - 1) : s[i] <= s[i + 1]
Ascending(s) == \A i \in 1..(Len(s) - 1) : s[i] < s[i + 1]

DeclaredWell(m) ==
  /\ m.kind = "scalar" <=> m.declared = <<>>
  /\ Ascending(m.declared)
  /\ m.kind = "summary" => \A i \in DOMAIN m.declared : 0 < m.declared[i] /\ m.declared[i] < One

\* verify_metrics: valid lists, and series that no two metrics share.
Verified(ms) ==
  /\ \A i \in DOMAIN ms : DeclaredWell(ms[i])
  /\ \A i, j \in DOMAIN ms : i # j => SeriesNames(ms[i]) \intersect SeriesNames(ms[j]) = {}

NoValues  == [b \in Bounds |-> None]
NoPrinted == [keys |-> [b \in Bounds |-> 0], sum |-> 0, count |-> 0]

Init ==
  /\ phase = "verify"
  /\ config \in UNION {[1..n -> Metrics] : n \in 0..MaxMetrics}
  /\ at = 1
  /\ values = NoValues /\ sum_value = None /\ count_value = None
  /\ errors = FALSE /\ lines = 0 /\ printed = NoPrinted
  /\ raw = [n \in Names |-> None] /\ results = [n \in Names |-> None]
  /\ failed = FALSE /\ exposition = <<>>

Verify ==
  /\ phase = "verify"
  /\ phase' = IF ~Verified(config) THEN "raised"
              ELSE IF config = <<>> THEN "finalize" ELSE "parse"
  /\ UNCHANGED <<config, at, parser, raw, results, failed, exposition>>

-----------------------------------------------------------------------------
\* The output of the current metric's command, line by line; blank lines are
\* skipped. Metrics of one name share one command in the dict run_many() gets,
\* so the second one finds the output the first one found.
metric == config[at]

NextLine ==
  /\ phase = "parse" /\ lines < MaxLines
  /\ lines' = lines + 1
  /\ UNCHANGED <<phase, config, at, raw, results, failed, exposition>>

\* A line of one number: all a scalar prints, and an error elsewhere.
NumberLine ==
  /\ NextLine
  /\ errors' = (errors \/ metric.kind # "scalar" \/ lines > 0)
  /\ UNCHANGED <<values, sum_value, count_value, printed>>

\* A line that is no number, or no key and number, or whose key is unknown.
BadLine ==
  /\ NextLine
  /\ errors' = TRUE
  /\ UNCHANGED <<values, sum_value, count_value, printed>>

SumLine(v) ==
  /\ NextLine
  /\ IF metric.kind = "scalar"
     THEN errors' = TRUE /\ UNCHANGED sum_value
     ELSE sum_value' = v /\ UNCHANGED errors
  /\ printed' = [printed EXCEPT !.sum = @ + 1]
  /\ UNCHANGED <<values, count_value>>

CountLine(v) ==
  /\ NextLine
  /\ IF metric.kind = "scalar"
     THEN errors' = TRUE /\ UNCHANGED count_value
     ELSE count_value' = v /\ errors' = (errors \/ v < 0)
  /\ printed' = [printed EXCEPT !.count = @ + 1]
  /\ UNCHANGED <<values, sum_value>>

\* A second line for a declared key is an error, like a key that is not declared.
Expected_Again(b) == \E i \in DOMAIN metric.declared : metric.declared[i] = b
Expected(b) == (\E i \in DOMAIN metric.declared : metric.declared[i] = b) /\ values[b] = None

KeyLine(b, v) ==
  /\ NextLine
  /\ IF Expected(b)
     THEN values' = [values EXCEPT ![b] = v] /\ UNCHANGED errors
     ELSE errors' = TRUE /\ UNCHANGED values
  /\ printed' = [printed EXCEPT !.keys[b] = @ + 1]
  /\ UNCHANGED <<sum_value, count_value>>

\* The end of parse_distribution: every key has its value.
Complete(m) ==
  /\ \A i \in DOMAIN m.declared : values[m.declared[i]] # None
  /\ sum_value # None /\ count_value # None

\* The loop over a histogram's buckets passes them up to the first gap or decrease. A
\* decrease is an error, a gap none, and the count is checked where the loop stopped.
InOrder(m, i) ==
  /\ values[m.declared[i]] # None
  /\ i > 1 => values[m.declared[i - 1]] <= values[m.declared[i]]
Passed(m) == {i \in DOMAIN m.declared : \A j \in 1..i : InOrder(m, j)}

Cumulative_NoCount(m) ==
  \A i \in DOMAIN m.declared \ Passed(m) :
    i - 1 \in Passed(m) \union {0} => values[m.declared[i]] = None

Cumulative(m) ==
  /\ \A i \in DOMAIN m.declared \ Passed(m) :
       i - 1 \in Passed(m) \union {0} => values[m.declared[i]] = None
  /\ \A i \in Passed(m) : i + 1 \notin Passed(m) => values[m.declared[i]] <= count_value

\* parse_value accepts exactly one line.
Accepted(m) ==
  /\ ~errors
  /\ m.kind = "scalar" => lines = 1
  /\ m.kind # "scalar" => Complete(m)
  /\ m.kind = "histogram" => Cumulative(m)

Sample ==
  IF metric.kind = "scalar" THEN [kind |-> "value"]
  ELSE [kind |-> "distribution", values |-> values, sum |-> sum_value, count |-> count_value,
        printed |-> printed]

Failed_LastOnly == ~Accepted(metric)
Failed == failed \/ ~Accepted(metric)

Last_Beyond == at > Len(config)
Last == at = Len(config)

\* run_cmds: one output is parsed; after the last one any error raises.
EndOfOutput ==
  /\ phase = "parse"
  /\ raw[metric.name] \in {None, lines}
  /\ raw' = [raw EXCEPT ![metric.name] = lines]
  /\ results' = IF Accepted(metric) THEN [results EXCEPT ![metric.name] = Sample] ELSE results
  /\ failed' = Failed
  /\ at' = at + 1
  /\ phase' = IF ~Last THEN "parse" ELSE IF Failed THEN "raised" ELSE "finalize"
  /\ values' = NoValues /\ sum_value' = None /\ count_value' = None
  /\ errors' = FALSE /\ lines' = 0 /\ printed' = NoPrinted
  /\ UNCHANGED <<config, exposition>>

-----------------------------------------------------------------------------
Line(s, l, v) == [series |-> s, label |-> l, value |-> v]

\* _render_sample: the samples of a metric, one line each.
Rendered(m, r) ==
  LET last == Len(m.declared)
      totals == <<Line(Append(m.name, "sum"), None, r.sum),
                  Line(Append(m.name, "count"), None, r.count)>>
      family(s) == [i \in 1..last |-> Line(s, m.declared[i], r.values[m.declared[i]])]
  IN IF m.kind = "scalar" THEN <<Line(m.name, None, None)>>
     ELSE IF m.kind = "summary" THEN family(m.name) \o totals
     ELSE family(Append(m.name, "bucket"))
            \o <<Line(Append(m.name, "bucket"), Infinity, r.count)>> \o totals

\* What finalize() and the renderers insist on. A scalar's renderer takes
\* whatever result it finds.
Renderable(m) ==
  /\ results[m.name] # None
  /\ m.kind # "scalar" => results[m.name].kind = "distribution"

\* finalize: a block for every metric, or an exception.
Finalize ==
  /\ phase = "finalize"
  /\ IF \A i \in DOMAIN config : Renderable(config[i])
     THEN /\ phase' = "rendered"
          /\ exposition' = [i \in DOMAIN config |-> Rendered(config[i], results[config[i].name])]
     ELSE phase' = "raised" /\ UNCHANGED exposition
  /\ UNCHANGED <<config, at, parser, raw, results, failed>>

Next ==
  \/ Verify \/ NumberLine \/ BadLine \/ EndOfOutput \/ Finalize
  \/ \E v \in Values : SumLine(v) \/ CountLine(v)
  \/ \E b \in Bounds, v \in Values : KeyLine(b, v)

Spec == Init /\ [][Next]_vars

-----------------------------------------------------------------------------
Option(S) == S \union {None}

\* Types, and outputs are parsed only for a config that passed its checks.
TypeOK ==
  /\ phase \in {"verify", "parse", "finalize", "rendered", "raised"}
  /\ \E n \in 0..MaxMetrics : config \in [1..n -> Metrics]
  /\ at \in 1..(Len(config) + 1)
  /\ values \in [Bounds -> Option(Values)]
  /\ sum_value \in Option(Values) /\ count_value \in Option(Values)
  /\ errors \in BOOLEAN /\ failed \in BOOLEAN
  /\ lines \in Nat /\ printed \in [keys : [Bounds -> Nat], sum : Nat, count : Nat]
  /\ raw \in [Names -> Option(Nat)]
  /\ phase = "parse" => at <= Len(config)
  /\ phase \in {"parse", "finalize", "rendered"} => Verified(config)

Blocks == DOMAIN exposition
Samples(i) == {exposition[i][p] : p \in DOMAIN exposition[i]}

\* No two lines of a handler's exposition are samples of the same series with
\* the same label: verify_metrics, the ascending lists and the dict of results
\* together see to it.
SampledOnce ==
  \A i, j \in Blocks : \A p \in DOMAIN exposition[i], q \in DOMAIN exposition[j] :
    (/\ exposition[i][p].series = exposition[j][q].series
     /\ exposition[i][p].label = exposition[j][q].label) => i = j /\ p = q

\* What is rendered for a metric belongs to the series it was checked for: the
\* renderers and series_names, which the runtime checks across handlers, agree.
RendersCheckedSeries ==
  \A i \in Blocks : {s.series : s \in Samples(i)} = SeriesNames(config[i])

\* A rendered histogram is one: each bucket holds at least what the one before
\* holds, and the +Inf bucket is not below the last and equals the count.
HistogramsCumulate ==
  \A i \in Blocks : config[i].kind = "histogram" =>
    LET block == exposition[i]
        top == Len(config[i].declared) + 1
    IN /\ \A p \in 1..(top - 1) : block[p].value <= block[p + 1].value
       /\ block[top].label = Infinity /\ block[top].value = block[Len(block)].value

\* A sample that is shown was printed: its command's output has one line for
\* each declared key and no other key.
DeclaredKeysOnce ==
  \A i \in Blocks : config[i].kind # "scalar" =>
    LET count == results[config[i].name].printed.keys
    IN \A b \in Bounds :
         count[b] = IF \E p \in DOMAIN config[i].declared : config[i].declared[p] = b THEN 1 ELSE 0

\* What is shown of a metric is what its own type's parser accepted. A scalar
\* and a histogram of one name share no series, so the config passes; but they
\* share a command and a result, and no output suits both.
OwnSamples ==
  \A i \in Blocks :
    results[config[i].name].kind = IF config[i].kind = "scalar" THEN "value" ELSE "distribution"

=============================================================================
