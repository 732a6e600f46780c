-------------------------- MODULE HandlerSupportProofs -------------------------
(***************************************************************************)
(* Proofs about HandlerSupport, for configs and outputs of any length. The *)
(* invariant says what the locals of parse_distribution are worth in the   *)
(* middle of an output, and what is known of every output parsed before.   *)
(***************************************************************************)
EXTENDS HandlerSupport, InductionLemmas

-----------------------------------------------------------------------------
LEMMA ListFacts ==
  ASSUME NEW s \in Lists
  PROVE  s \in Seq(Bounds) /\ Len(s) \in Nat /\ DOMAIN s = 1..Len(s)
  <1>1. PICK n \in 0..MaxDeclared : s \in [1..n -> Bounds]
    BY DEF Lists
  <1>2. s \in Seq(Bounds)
    BY <1>1, SupportBoundsAssumption, SeqDef
  <1> QED
    BY <1>2, LenProperties

\* Every list of metrics verify_metrics is given.
LEMMA ConfigFacts ==
  ASSUME \E n \in 0..MaxMetrics : config \in [1..n -> Metrics]
  PROVE  /\ config \in Seq(Metrics) /\ Len(config) \in Nat /\ DOMAIN config = 1..Len(config)
         /\ \A i \in 1..Len(config) : config[i] \in Metrics
         /\ config = <<>> <=> Len(config) = 0
  <1>1. config \in Seq(Metrics)
    BY SupportBoundsAssumption, SeqDef
  <1>2. Len(config) \in Nat /\ DOMAIN config = 1..Len(config)
    BY <1>1, LenProperties
  <1>3. \A i \in 1..Len(config) : config[i] \in Metrics
    BY <1>1, ElementOfSeq
  <1>4. config = <<>> <=> Len(config) = 0
    BY <1>1, <1>2, EmptySeq
  <1> QED
    BY <1>1, <1>2, <1>3, <1>4

-----------------------------------------------------------------------------
\* Where run_cmds is, in the phases around it.
Cursor ==
  /\ phase = "verify" => at = 1 /\ ~failed
  /\ phase \in {"finalize", "rendered"} => at = Len(config) + 1 /\ ~failed

Printed == [keys : [Bounds -> Nat], sum : Nat, count : Nat]

LEMMA FreshParser ==
  /\ NoValues \in [Bounds -> Option(Values)]
  /\ NoPrinted \in Printed
  /\ None \in Option(Values) /\ Values \subseteq Option(Values) /\ None \notin Values
  BY NumbersAssumption, NoneAssumption DEF NoValues, NoPrinted, Printed, Option

LEMMA TypeInit == Init => TypeOK
  <1> SUFFICES ASSUME Init PROVE TypeOK
    OBVIOUS
  <1>1. \E n \in 0..MaxMetrics : config \in [1..n -> Metrics]
    BY DEF Init
  <1>2. at \in 1..(Len(config) + 1)
    BY <1>1, ConfigFacts DEF Init
  <1>3. raw \in [Names -> Option(Nat)]
    BY DEF Init, Option
  <1>4. errors \in BOOLEAN /\ failed \in BOOLEAN
    BY Zenon DEF Init
  <1> QED
    BY <1>1, <1>2, <1>3, <1>4, FreshParser DEF Init, TypeOK, Printed

LEMMA StillVerified == ASSUME config' = config PROVE Verified(config)' <=> Verified(config)
  BY DEF Verified

\* A line changes the parser's locals only.
LEMMA LineTypes ==
  ASSUME TypeOK, NextLine, errors' \in BOOLEAN,
         values' \in [Bounds -> Option(Values)],
         sum_value' \in Option(Values), count_value' \in Option(Values), printed' \in Printed
  PROVE  TypeOK'
  <1>1. UNCHANGED <<phase, config, at, raw, failed>> /\ lines' = lines + 1
    BY DEF NextLine
  <1>2. (phase \in {"parse", "finalize", "rendered"} => Verified(config))'
    BY <1>1, StillVerified DEF TypeOK
  <1>3. /\ (phase \in {"verify", "parse", "finalize", "rendered", "raised"})'
        /\ (\E n \in 0..MaxMetrics : config \in [1..n -> Metrics])'
    BY <1>1 DEF TypeOK
  <1>4. /\ (at \in 1..(Len(config) + 1))' /\ (phase = "parse" => at <= Len(config))'
        /\ lines' \in Nat /\ raw' \in [Names -> Option(Nat)] /\ failed' \in BOOLEAN
    BY <1>1 DEF TypeOK
  <1> QED
    BY <1>2, <1>3, <1>4 DEF TypeOK, Printed

LEMMA TypeStep == TypeOK /\ Cursor /\ [Next]_vars => TypeOK'
  <1> SUFFICES ASSUME TypeOK, Cursor, [Next]_vars PROVE TypeOK'
    OBVIOUS
  <1>c. /\ Len(config) \in Nat /\ DOMAIN config = 1..Len(config)
        /\ \A i \in 1..Len(config) : config[i] \in Metrics
        /\ config = <<>> <=> Len(config) = 0
    BY ConfigFacts DEF TypeOK
  <1>p. printed \in Printed /\ values \in [Bounds -> Option(Values)] /\ errors \in BOOLEAN
        /\ sum_value \in Option(Values) /\ count_value \in Option(Values)
    BY DEF TypeOK, Printed
  <1>1. CASE Verify
    <2>1. /\ UNCHANGED <<config, at, parser, raw, results, failed, exposition>>
          /\ phase' = "raised" \/ (Verified(config) /\ (phase' = "finalize" \/ (phase' = "parse" /\ config # <<>>)))
      BY <1>1 DEF Verify
    <2>2. (phase \in {"parse", "finalize", "rendered"} => Verified(config))'
      BY <2>1, StillVerified
    <2>3. (phase = "parse" => at <= Len(config))'
      BY <1>1, <1>c, <2>1 DEF Cursor, Verify
    <2> QED
      BY <2>1, <2>2, <2>3 DEF TypeOK, parser
  <1>2. CASE NumberLine
    <2>1. errors' \in BOOLEAN
      BY <1>2, <1>p, Zenon DEF NumberLine
    <2> QED
      BY <1>2, <1>p, <2>1, LineTypes DEF NumberLine
  <1>3. CASE BadLine
    <2>1. errors' \in BOOLEAN
      BY <1>3, Zenon DEF BadLine
    <2> QED
      BY <1>3, <1>p, <2>1, LineTypes DEF BadLine
  <1>4. ASSUME NEW v \in Values, SumLine(v) PROVE TypeOK'
    <2>1. errors' \in BOOLEAN
      BY <1>4, <1>p, Zenon DEF SumLine
    <2>2. printed' \in Printed
      BY <1>4, <1>p DEF SumLine, Printed
    <2>3. sum_value' \in Option(Values)
      BY <1>4, <1>p, FreshParser DEF SumLine
    <2> QED
      BY <1>4, <1>p, <2>1, <2>2, <2>3, LineTypes DEF SumLine
  <1>5. ASSUME NEW v \in Values, CountLine(v) PROVE TypeOK'
    <2>1. errors' \in BOOLEAN
      BY <1>5, <1>p, Zenon DEF CountLine
    <2>2. printed' \in Printed
      BY <1>5, <1>p DEF CountLine, Printed
    <2>3. count_value' \in Option(Values)
      BY <1>5, <1>p, FreshParser DEF CountLine
    <2> QED
      BY <1>5, <1>p, <2>1, <2>2, <2>3, LineTypes DEF CountLine
  <1>6. ASSUME NEW b \in Bounds, NEW v \in Values, KeyLine(b, v) PROVE TypeOK'
    <2>1. errors' \in BOOLEAN
      BY <1>6, <1>p, Zenon DEF KeyLine
    <2>2. printed' \in Printed
      BY <1>6, <1>p DEF KeyLine, Printed
    <2>3. values' \in [Bounds -> Option(Values)]
      BY <1>6, <1>p, FreshParser DEF KeyLine
    <2> QED
      BY <1>6, <1>p, <2>1, <2>2, <2>3, LineTypes DEF KeyLine
  <1>7. CASE EndOfOutput
    <2>1. raw' \in [Names -> Option(Nat)]
      BY <1>7 DEF TypeOK, EndOfOutput, Option
    <2>2. errors' \in BOOLEAN /\ failed' \in BOOLEAN
      <3>1. errors' \in BOOLEAN
        BY <1>7, Zenon DEF EndOfOutput
      <3>2. Failed \in BOOLEAN
        BY Zenon DEF Failed, TypeOK
      <3> QED
        BY <1>7, <3>1, <3>2, Zenon DEF EndOfOutput
    <2>3. at' \in 1..(Len(config') + 1) /\ (phase' = "parse" => at' <= Len(config'))
      BY <1>7, <1>c DEF TypeOK, EndOfOutput, Last
    <2>4. phase' \in {"parse", "finalize", "raised"} /\ Verified(config)'
      BY <1>7 DEF TypeOK, EndOfOutput, Verified
    <2>5. /\ values' \in [Bounds -> Option(Values)] /\ sum_value' \in Option(Values)
          /\ count_value' \in Option(Values) /\ printed' \in Printed /\ lines' \in Nat
          /\ config' = config
      BY <1>7, FreshParser DEF EndOfOutput
    <2> QED
      BY <2>1, <2>2, <2>3, <2>4, <2>5 DEF TypeOK, Printed
  <1>8. CASE Finalize
    BY <1>8 DEF TypeOK, Finalize, parser, Verified
  <1>9. CASE UNCHANGED vars
    BY <1>9 DEF TypeOK, vars, parser, Verified
  <1> QED
    BY <1>1, <1>2, <1>3, <1>4, <1>5, <1>6, <1>7, <1>8, <1>9 DEF Next

-----------------------------------------------------------------------------
Declares(m, b) == \E p \in DOMAIN m.declared : m.declared[p] = b

\* The locals of parse_distribution: a line has one key at most, and as long as there
\* is no error a key has a value exactly if it is declared and was printed once.
Totals ==
  /\ printed.sum + printed.count <= lines
  /\ sum_value # None => printed.sum >= 1
  /\ count_value # None => printed.count >= 1
Keys ==
  ~errors => \A b \in Bounds :
    /\ printed.keys[b] = IF values[b] = None THEN 0 ELSE 1
    /\ values[b] # None => Declares(metric, b)

\* A result that suits a metric, and an output that only its type accepts.
Suits(m, r) ==
  /\ r.kind = IF m.kind = "scalar" THEN "value" ELSE "distribution"
  /\ m.kind # "scalar" =>
       \A b \in Bounds : r.printed.keys[b] = IF Declares(m, b) THEN 1 ELSE 0
  /\ m.kind = "histogram" =>
       /\ \A i \in 1..(Len(m.declared) - 1) : r.values[m.declared[i]] <= r.values[m.declared[i + 1]]
       /\ r.values[m.declared[Len(m.declared)]] <= r.count
Parsed(m) ==
  /\ Suits(m, results[m.name])
  /\ raw[m.name] \in Nat
  /\ m.kind = "scalar" <=> raw[m.name] = 1

Collected == ~failed => \A j \in 1..(at - 1) : Parsed(config[j])

Exposed ==
  exposition = IF phase = "rendered"
               THEN [i \in DOMAIN config |-> Rendered(config[i], results[config[i].name])]
               ELSE <<>>

IInv == TypeOK /\ Cursor /\ DOMAIN results = Names /\ Totals /\ Keys /\ Collected /\ Exposed

LEMMA Initially == Init => IInv
  <1> SUFFICES ASSUME Init PROVE IInv
    OBVIOUS
  <1>1. Cursor /\ Exposed /\ DOMAIN results = Names /\ Collected
    BY DEF Init, Cursor, Exposed, Collected
  <1>2. Totals /\ Keys
    BY DEF Init, Totals, Keys, NoValues, NoPrinted
  <1> QED
    BY <1>1, <1>2, TypeInit DEF IInv

\* What is known of the outputs parsed before is about the results only.
LEMMA SameCollected ==
  ASSUME Collected, UNCHANGED <<config, at, raw, results, failed>>
  PROVE  Collected'
  <1> SUFFICES ASSUME ~failed', NEW j \in 1..(at' - 1) PROVE Parsed(config[j])'
    BY DEF Collected
  <1>1. Parsed(config[j])
    BY DEF Collected
  <1> QED
    BY <1>1 DEF Parsed, Suits, Declares

\* What does not concern the parser survives a line.
LEMMA LineKeeps ==
  ASSUME IInv, NextLine
  PROVE  Cursor' /\ DOMAIN results' = Names /\ Collected' /\ Exposed' /\ metric' = metric
         /\ lines' = lines + 1
  <1>1. UNCHANGED <<phase, config, at, raw, results, failed, exposition>> /\ lines' = lines + 1
    BY DEF NextLine
  <1>2. Collected'
    BY <1>1, SameCollected DEF IInv
  <1> QED
    BY <1>1, <1>2 DEF IInv, Cursor, Exposed, metric

LEMMA SameKeys ==
  ASSUME Keys, UNCHANGED <<values, metric>>, printed'.keys = printed.keys, ~errors' => ~errors
  PROVE  Keys'
  BY DEF Keys, Declares

LEMMA LineStep ==
  ASSUME IInv, NEW b, NEW v,
         \/ NumberLine \/ BadLine
         \/ v \in Values /\ (SumLine(v) \/ CountLine(v))
         \/ v \in Values /\ b \in Bounds /\ KeyLine(b, v)
  PROVE  Cursor' /\ DOMAIN results' = Names /\ Totals' /\ Keys' /\ Collected' /\ Exposed'
  <1>1. NextLine
    BY DEF NumberLine, BadLine, SumLine, CountLine, KeyLine
  <1>n. lines' = lines + 1 /\ UNCHANGED metric
    BY <1>1, LineKeeps
  <1>p. /\ printed \in Printed /\ values \in [Bounds -> Option(Values)] /\ lines \in Nat
        /\ printed.sum \in Nat /\ printed.count \in Nat /\ Totals /\ Keys
    BY DEF IInv, TypeOK, Printed
  <1>2. CASE NumberLine \/ BadLine
    <2>1. UNCHANGED <<values, printed, sum_value, count_value>> /\ (~errors' => ~errors)
      BY <1>2 DEF NumberLine, BadLine
    <2>2. Keys'
      BY <2>1, <1>n, <1>p, SameKeys
    <2>3. Totals'
      BY <2>1, <1>n, <1>p DEF Totals
    <2> QED
      BY <2>2, <2>3, <1>1, LineKeeps
  <1>3. CASE v \in Values /\ SumLine(v)
    <2>1. /\ UNCHANGED <<values, count_value>> /\ (~errors' => ~errors)
          /\ printed'.keys = printed.keys /\ printed'.sum = printed.sum + 1
          /\ printed'.count = printed.count
      BY <1>3, <1>p DEF SumLine, Printed
    <2>2. Keys'
      BY <2>1, <1>n, <1>p, SameKeys
    <2>3. Totals'
      BY <2>1, <1>n, <1>p DEF Totals
    <2> QED
      BY <2>2, <2>3, <1>1, LineKeeps
  <1>4. CASE v \in Values /\ CountLine(v)
    <2>1. /\ UNCHANGED <<values, sum_value>> /\ (~errors' => ~errors)
          /\ printed'.keys = printed.keys /\ printed'.sum = printed.sum
          /\ printed'.count = printed.count + 1
      BY <1>4, <1>p DEF CountLine, Printed
    <2>2. Keys'
      BY <2>1, <1>n, <1>p, SameKeys
    <2>3. Totals'
      BY <2>1, <1>n, <1>p DEF Totals
    <2> QED
      BY <2>2, <2>3, <1>1, LineKeeps
  <1>5. CASE v \in Values /\ b \in Bounds /\ KeyLine(b, v)
    <2>1. /\ printed'.keys = [printed.keys EXCEPT ![b] = @ + 1]
          /\ printed'.sum = printed.sum /\ printed'.count = printed.count
          /\ UNCHANGED <<sum_value, count_value>>
      BY <1>5, <1>p DEF KeyLine, Printed
    <2>2. Totals'
      BY <2>1, <1>n, <1>p DEF Totals
    <2>3. ASSUME ~errors', NEW c \in Bounds
          PROVE  /\ printed'.keys[c] = IF values'[c] = None THEN 0 ELSE 1
                 /\ values'[c] # None => Declares(metric', c)
      <3>1. Expected(b) /\ ~errors
        BY <1>5, <2>3 DEF KeyLine
      <3>2. values[b] = None /\ Declares(metric, b) /\ values' = [values EXCEPT ![b] = v]
        BY <1>5, <3>1 DEF KeyLine, Expected, Declares
      <3>3. /\ printed.keys[c] = IF values[c] = None THEN 0 ELSE 1
            /\ values[c] # None => Declares(metric, c)
        BY <1>p, <3>1 DEF Keys
      <3>4. printed.keys \in [Bounds -> Nat]
        BY <1>p DEF Printed
      <3>5. CASE c = b
        BY <3>2, <3>3, <3>4, <3>5, <2>1, <1>5, <1>p, <1>n, FreshParser
      <3>6. CASE c # b
        BY <3>2, <3>3, <3>4, <3>6, <2>1, <1>5, <1>p, <1>n
      <3> QED
        BY <3>5, <3>6
    <2>4. Keys'
      BY <2>3 DEF Keys
    <2> QED
      BY <2>2, <2>4, <1>1, LineKeeps
  <1> QED
    BY <1>2, <1>3, <1>4, <1>5

\* The end of an output. Two metrics of one name are a scalar and a histogram, or
\* their series would clash, and no output is accepted by both.
\* A histogram that has all its values is accepted only if the loop passed every
\* bucket: it stops early for a gap alone.
LEMMA AllPassed ==
  ASSUME NEW m \in Metrics, Complete(m), Cumulative(m)
  PROVE  /\ \A i \in 1..(Len(m.declared) - 1) : values[m.declared[i]] <= values[m.declared[i + 1]]
         /\ Len(m.declared) # 0 => values[m.declared[Len(m.declared)]] <= count_value
  <1> DEFINE n == Len(m.declared)
             P == Passed(m) \union {0}
  <1>1. n \in Nat /\ DOMAIN m.declared = 1..n
    BY ListFacts DEF Metrics
  <1>2. \A i \in 1..n : i - 1 \in P => i \in P
    BY <1>1 DEF Complete, Cumulative
  <1> HIDE DEF P, n
  <1>3. \A i \in 0..n : i \in P
    BY <1>1, <1>2, Upwards DEF P
  <1>4. \A i \in 1..n : i \in Passed(m) /\ InOrder(m, i)
    BY <1>1, <1>3 DEF P, Passed
  <1>5. ASSUME NEW i \in 1..(n - 1) PROVE values[m.declared[i]] <= values[m.declared[i + 1]]
    <2>1. i + 1 \in 1..n /\ i + 1 > 1 /\ (i + 1) - 1 = i
      BY <1>1
    <2> QED
      BY <2>1, <1>4 DEF InOrder
  <1>6. n # 0 => values[m.declared[n]] <= count_value
    <2>1. n + 1 \notin Passed(m)
      BY <1>1 DEF Passed
    <2> QED
      BY <1>1, <1>4, <2>1 DEF Cumulative
  <1> QED
    BY <1>5, <1>6 DEF n

LEMMA OutputStep ==
  ASSUME IInv, EndOfOutput
  PROVE  Cursor' /\ DOMAIN results' = Names /\ Totals' /\ Keys' /\ Collected' /\ Exposed'
  <1>c. /\ Len(config) \in Nat /\ DOMAIN config = 1..Len(config) /\ at \in 1..Len(config)
        /\ \A i \in 1..Len(config) : config[i] \in Metrics /\ config[i].name \in Names
    BY ConfigFacts DEF IInv, TypeOK, EndOfOutput, Metrics
  <1>1. Cursor'
    BY <1>c DEF EndOfOutput, Cursor, Last, Failed
  <1>2. DOMAIN results' = Names
    BY DEF EndOfOutput, IInv
  <1>3. Totals' /\ Keys'
    BY DEF EndOfOutput, Totals, Keys, NoValues, NoPrinted
  <1>4. Exposed'
    BY DEF EndOfOutput, Exposed, IInv
  <1>5. ASSUME ~failed', NEW j \in 1..at PROVE Parsed(config[j])'
    <2> DEFINE m == config[at]
    <2>1. Accepted(m) /\ ~failed
      BY <1>5 DEF EndOfOutput, Failed, metric
    <2>2. /\ raw' = [raw EXCEPT ![m.name] = lines] /\ raw[m.name] \in {None, lines} /\ lines \in Nat
          /\ results' = [results EXCEPT ![m.name] = Sample] /\ config' = config
          /\ raw \in [Names -> Option(Nat)]
      BY <2>1 DEF EndOfOutput, metric, IInv, TypeOK
    <2>3. m.kind = "scalar" <=> lines = 1
      BY <2>1, <2>2 DEF Accepted, Complete, IInv, Totals, Keys, TypeOK
    <2>4. CASE j = at
      <3>1. config'[j] = m /\ results'[config'[j].name] = Sample /\ raw'[config'[j].name] = lines
        BY <1>c, <2>2, <2>4 DEF IInv
      <3>2. Suits(m, Sample)
        <4>1. CASE m.kind = "scalar"
          BY <4>1 DEF Suits, Sample, metric
        <4>2. CASE m.kind # "scalar"
          <5>1. Sample = [kind |-> "distribution", values |-> values, sum |-> sum_value,
                          count |-> count_value, printed |-> printed]
            BY <4>2 DEF Sample, metric
          <5>2. \A b \in Bounds : printed.keys[b] = IF Declares(m, b) THEN 1 ELSE 0
            BY <4>2, <2>1 DEF Accepted, Complete, Declares, IInv, Totals, Keys, metric
          <5>3. ASSUME m.kind = "histogram"
                PROVE  /\ \A i \in 1..(Len(m.declared) - 1) :
                            values[m.declared[i]] <= values[m.declared[i + 1]]
                       /\ values[m.declared[Len(m.declared)]] <= count_value
            <6>1. Complete(m) /\ Cumulative(m)
              BY <2>1, <5>3 DEF Accepted
            <6>2. m \in Metrics /\ m.declared # <<>>
              <7>1. at \in DOMAIN config /\ config[at] \in Metrics /\ Verified(config)
                BY <1>c, ConfigFacts DEF IInv, TypeOK, EndOfOutput
              <7> QED
                BY <7>1, <5>3 DEF Verified, DeclaredWell
            <6>3. Len(m.declared) # 0
              BY <6>2, ListFacts, EmptySeq DEF Metrics
            <6> HIDE DEF m
            <6> QED
              BY <6>1, <6>2, <6>3, AllPassed
          <5> QED
            BY <4>2, <5>1, <5>2, <5>3 DEF Suits
        <4> QED
          BY <4>1, <4>2
      <3>3. Suits(config[j], results[config[j].name])'
        BY <3>1, <3>2 DEF Suits, Declares
      <3> QED
        BY <3>1, <3>3, <2>2, <2>3 DEF Parsed
    <2>5. CASE j # at
      <3>1. j \in 1..(at - 1) /\ Parsed(config[j])
        BY <2>5, <2>1, <1>c DEF IInv, Collected
      <3>2. config[j].name # m.name
        <4> SUFFICES ASSUME config[j].name = m.name PROVE FALSE
          OBVIOUS
        <4>1. raw[m.name] = lines
          BY <2>2, <3>1, NoneAssumption DEF Parsed
        <4>2. config[j].kind = "scalar" <=> m.kind = "scalar"
          BY <4>1, <2>3, <3>1 DEF Parsed
        <4>3. SeriesNames(config[j]) \intersect SeriesNames(m) # {}
          BY <4>2 DEF SeriesNames
        <4>4. Verified(config) /\ j \in DOMAIN config /\ at \in DOMAIN config
          BY <1>c, <3>1 DEF IInv, TypeOK, EndOfOutput
        <4> QED
          BY <4>3, <4>4, <2>5 DEF Verified
      <3>3. raw'[config[j].name] = raw[config[j].name] /\ results'[config[j].name] = results[config[j].name]
        BY <3>1, <3>2, <2>2, <1>c DEF IInv
      <3> QED
        BY <3>1, <3>3, <2>2 DEF Parsed, Suits, Declares
    <2> QED
      BY <2>4, <2>5
  <1>6. Collected'
    BY <1>5, <1>c DEF Collected, EndOfOutput
  <1> QED
    BY <1>1, <1>2, <1>3, <1>4, <1>6

LEMMA Inductive == IInv /\ [Next]_vars => IInv'
  <1> SUFFICES ASSUME IInv, [Next]_vars
               PROVE  Cursor' /\ DOMAIN results' = Names /\ Totals' /\ Keys' /\ Collected' /\ Exposed'
    BY TypeStep DEF IInv
  <1>1. CASE Verify
    <2>1. UNCHANGED <<config, at, values, sum_value, count_value, errors, lines, printed, raw,
                      results, failed, exposition>>
      BY <1>1 DEF Verify, parser
    <2>2. Cursor'
      BY <1>1, ConfigFacts, <2>1 DEF Verify, Cursor, IInv, TypeOK
    <2>3. Totals' /\ Keys'
      BY <2>1 DEF IInv, Totals, Keys, metric, Declares
    <2>4. Collected'
      BY <2>1, SameCollected DEF IInv
    <2> QED
      BY <1>1, <2>1, <2>2, <2>3, <2>4 DEF Verify, IInv, Exposed
  <1>2. ASSUME NEW b, NEW v,
               \/ NumberLine \/ BadLine
               \/ v \in Values /\ (SumLine(v) \/ CountLine(v))
               \/ v \in Values /\ b \in Bounds /\ KeyLine(b, v)
        PROVE  Cursor' /\ DOMAIN results' = Names /\ Totals' /\ Keys' /\ Collected' /\ Exposed'
    BY <1>2, LineStep
  <1>3. CASE EndOfOutput
    BY <1>3, OutputStep
  <1>4. CASE Finalize
    <2>1. UNCHANGED <<config, at, values, sum_value, count_value, errors, lines, printed, raw,
                      results, failed>>
      BY <1>4 DEF Finalize, parser
    <2>2. Cursor' /\ Exposed'
      BY <1>4, <2>1 DEF Finalize, Cursor, Exposed, IInv
    <2>3. Totals' /\ Keys'
      BY <2>1 DEF IInv, Totals, Keys, metric, Declares
    <2>4. Collected'
      BY <2>1, SameCollected DEF IInv
    <2> QED
      BY <2>1, <2>2, <2>3, <2>4 DEF IInv
  <1>5. CASE UNCHANGED vars
    <2>1. UNCHANGED <<phase, config, at, values, sum_value, count_value, errors, lines, printed,
                      raw, results, failed, exposition>>
      BY <1>5 DEF vars, parser
    <2>2. Cursor' /\ Exposed' /\ DOMAIN results' = Names
      BY <2>1 DEF IInv, Cursor, Exposed
    <2>3. Totals' /\ Keys'
      BY <2>1 DEF IInv, Totals, Keys, metric, Declares
    <2>4. Collected'
      BY <2>1, SameCollected DEF IInv
    <2> QED
      BY <2>2, <2>3, <2>4
  <1> QED
    BY <1>1, <1>2, <1>3, <1>4, <1>5 DEF Next

LEMMA Invariance == Spec => []IInv
  BY Initially, Inductive, PTL DEF Spec

-----------------------------------------------------------------------------
\* The samples of a metric, in their order: a family with a sample for each declared
\* key, what follows it, and the totals.
Family(m, r, series) == [i \in 1..Len(m.declared) |-> Line(series, m.declared[i], r.values[m.declared[i]])]
SumOf(m, r)   == Line(Append(m.name, "sum"), None, r.sum)
CountOf(m, r) == Line(Append(m.name, "count"), None, r.count)
Top(m, r)     == Line(Append(m.name, "bucket"), Infinity, r.count)

LEMMA MetricFacts ==
  ASSUME NEW m \in Metrics
  PROVE  /\ m.name \in Names /\ m.kind \in Kinds
         /\ m.declared \in Lists /\ m.declared \in Seq(Bounds)
         /\ Len(m.declared) \in Nat /\ DOMAIN m.declared = 1..Len(m.declared)
  BY ListFacts DEF Metrics

LEMMA FamilyFacts ==
  ASSUME NEW m \in Metrics, NEW r, NEW series, NEW S,
         \A i \in 1..Len(m.declared) : Family(m, r, series)[i] \in S
  PROVE  Family(m, r, series) \in Seq(S) /\ Len(Family(m, r, series)) = Len(m.declared)
  <1>1. Len(m.declared) \in Nat
    BY MetricFacts
  <1>2. Family(m, r, series) \in [1..Len(m.declared) -> S]
    BY DEF Family
  <1>3. Family(m, r, series) \in Seq(S)
    BY <1>1, <1>2, SeqDef
  <1>4. DOMAIN Family(m, r, series) = 1..Len(Family(m, r, series)) /\ Len(Family(m, r, series)) \in Nat
    BY <1>3, LenProperties
  <1>5. DOMAIN Family(m, r, series) = 1..Len(m.declared)
    BY DEF Family
  <1> QED
    BY <1>1, <1>3, <1>4, <1>5

LEMMA SummaryShape ==
  ASSUME NEW m \in Metrics, NEW r, m.kind = "summary"
  PROVE  LET s == Rendered(m, r)  n == Len(m.declared)
         IN /\ DOMAIN s = 1..(n + 2) /\ Len(s) = n + 2
            /\ \A i \in 1..n : s[i] = Line(m.name, m.declared[i], r.values[m.declared[i]])
            /\ s[n + 1] = SumOf(m, r) /\ s[n + 2] = CountOf(m, r)
  <1> DEFINE n == Len(m.declared)
             f == Family(m, r, m.name)
             totals == <<SumOf(m, r), CountOf(m, r)>>
             S == {f[i] : i \in 1..n} \union {SumOf(m, r), CountOf(m, r)}
  <1>n. n \in Nat
    BY MetricFacts
  <1>1. f \in Seq(S) /\ Len(f) = n
    <2>1. \A i \in 1..n : f[i] \in S
      OBVIOUS
    <2> HIDE DEF S
    <2> QED
      BY <2>1, FamilyFacts
  <1>2. totals \in Seq(S) /\ Len(totals) = 2 /\ totals[1] = SumOf(m, r) /\ totals[2] = CountOf(m, r)
    OBVIOUS
  <1>3. Rendered(m, r) = f \o totals
    BY DEF Rendered, Family, SumOf, CountOf
  <1> HIDE DEF n, totals, S, f
  <1>4. /\ f \o totals \in Seq(S) /\ Len(f \o totals) = n + 2
        /\ \A i \in 1..(n + 2) : (f \o totals)[i] = IF i <= n THEN f[i] ELSE totals[i - n]
    <2>1. /\ f \o totals \in Seq(S) /\ Len(f \o totals) = Len(f) + Len(totals)
          /\ \A i \in 1..(Len(f) + Len(totals)) :
               (f \o totals)[i] = IF i <= Len(f) THEN f[i] ELSE totals[i - Len(f)]
      BY <1>1, <1>2, ConcatProperties
    <2> QED
      BY <2>1, <1>n, <1>1, <1>2
  <1>5. DOMAIN (f \o totals) = 1..(n + 2)
    BY <1>4, LenProperties
  <1>6. \A i \in 1..n : f[i] = Line(m.name, m.declared[i], r.values[m.declared[i]])
    BY DEF f, n, Family
  <1>7. (f \o totals)[n + 1] = SumOf(m, r) /\ (f \o totals)[n + 2] = CountOf(m, r)
    BY <1>n, <1>2, <1>4
  <1> DEFINE s == f \o totals
  <1>8. /\ DOMAIN s = 1..(n + 2) /\ Len(s) = n + 2
        /\ s[n + 1] = SumOf(m, r) /\ s[n + 2] = CountOf(m, r)
    BY <1>4, <1>5, <1>7
  <1>9. \A i \in 1..n : s[i] = Line(m.name, m.declared[i], r.values[m.declared[i]])
    BY <1>n, <1>4, <1>6
  <1>0. Rendered(m, r) = s
    BY <1>3
  <1> HIDE DEF s
  <1> QED
    BY <1>0, <1>8, <1>9 DEF n

LEMMA HistogramShape ==
  ASSUME NEW m \in Metrics, NEW r, m.kind = "histogram"
  PROVE  LET s == Rendered(m, r)  n == Len(m.declared)
         IN /\ DOMAIN s = 1..(n + 3) /\ Len(s) = n + 3
            /\ \A i \in 1..n :
                 s[i] = Line(Append(m.name, "bucket"), m.declared[i], r.values[m.declared[i]])
            /\ s[n + 1] = Top(m, r) /\ s[n + 2] = SumOf(m, r) /\ s[n + 3] = CountOf(m, r)
  <1> DEFINE n == Len(m.declared)
             f == Family(m, r, Append(m.name, "bucket"))
             top == <<Top(m, r)>>
             totals == <<SumOf(m, r), CountOf(m, r)>>
             S == {f[i] : i \in 1..n} \union {Top(m, r), SumOf(m, r), CountOf(m, r)}
  <1>n. n \in Nat
    BY MetricFacts
  <1>1. f \in Seq(S) /\ Len(f) = n
    <2>1. \A i \in 1..n : f[i] \in S
      OBVIOUS
    <2> HIDE DEF S
    <2> QED
      BY <2>1, FamilyFacts
  <1>2. totals \in Seq(S) /\ Len(totals) = 2 /\ totals[1] = SumOf(m, r) /\ totals[2] = CountOf(m, r)
    OBVIOUS
  <1>t. top \in Seq(S) /\ Len(top) = 1 /\ top[1] = Top(m, r)
    OBVIOUS
  <1>3. Rendered(m, r) = (f \o top) \o totals
    BY DEF Rendered, Family, SumOf, CountOf, Top
  <1> HIDE DEF n, top, totals, S, f
  <1>4. /\ f \o top \in Seq(S) /\ Len(f \o top) = n + 1
        /\ \A i \in 1..(n + 1) : (f \o top)[i] = IF i <= n THEN f[i] ELSE top[i - n]
    <2>1. /\ f \o top \in Seq(S) /\ Len(f \o top) = Len(f) + Len(top)
          /\ \A i \in 1..(Len(f) + Len(top)) :
               (f \o top)[i] = IF i <= Len(f) THEN f[i] ELSE top[i - Len(f)]
      BY <1>1, <1>t, ConcatProperties
    <2> QED
      BY <2>1, <1>n, <1>1, <1>t
  <1> DEFINE g == f \o top
             s == g \o totals
  <1> HIDE DEF g
  <1>g. /\ g \in Seq(S) /\ Len(g) = n + 1 /\ g[n + 1] = Top(m, r)
        /\ \A i \in 1..n : g[i] = f[i]
    BY <1>4, <1>t, <1>n DEF g
  <1>5. /\ s \in Seq(S) /\ Len(s) = n + 3
        /\ \A i \in 1..(n + 3) : s[i] = IF i <= n + 1 THEN g[i] ELSE totals[i - (n + 1)]
    <2>1. /\ g \o totals \in Seq(S) /\ Len(g \o totals) = Len(g) + Len(totals)
          /\ \A i \in 1..(Len(g) + Len(totals)) :
               (g \o totals)[i] = IF i <= Len(g) THEN g[i] ELSE totals[i - Len(g)]
      BY <1>g, <1>2, ConcatProperties
    <2> QED
      BY <2>1, <1>n, <1>g, <1>2 DEF s
  <1> HIDE DEF s
  <1>6. DOMAIN s = 1..(n + 3)
    BY <1>5, LenProperties
  <1>7. \A i \in 1..n : f[i] = Line(Append(m.name, "bucket"), m.declared[i], r.values[m.declared[i]])
    BY DEF f, n, Family
  <1>8. \A i \in 1..n : s[i] = f[i]
    BY <1>n, <1>g, <1>5
  <1>9. s[n + 1] = Top(m, r) /\ s[n + 2] = SumOf(m, r) /\ s[n + 3] = CountOf(m, r)
    BY <1>n, <1>g, <1>5, <1>2
  <1>0. Rendered(m, r) = s
    BY <1>3 DEF s, g
  <1> QED
    BY <1>0, <1>5, <1>6, <1>7, <1>8, <1>9 DEF n

LEMMA ScalarShape ==
  ASSUME NEW m \in Metrics, NEW r, m.kind = "scalar"
  PROVE  Rendered(m, r) = <<Line(m.name, None, None)>> /\ DOMAIN Rendered(m, r) = {1}
  BY DEF Rendered

-----------------------------------------------------------------------------
\* The names of a metric's series are different, and so are its labels.
LEMMA NameFacts ==
  ASSUME NEW m \in Metrics
  PROVE  /\ Append(m.name, "bucket") # m.name /\ Append(m.name, "sum") # m.name
         /\ Append(m.name, "count") # m.name
         /\ Append(m.name, "bucket") # Append(m.name, "sum")
         /\ Append(m.name, "bucket") # Append(m.name, "count")
         /\ Append(m.name, "sum") # Append(m.name, "count")
  <1>1. m.name \in Seq(STRING)
    BY MetricFacts, NamesAssumption
  <1>2. ASSUME NEW w \in STRING
        PROVE  Append(m.name, w) # m.name /\ Append(m.name, w)[Len(m.name) + 1] = w
    <2>1. Len(Append(m.name, w)) = Len(m.name) + 1 /\ Append(m.name, w)[Len(m.name) + 1] = w
      BY <1>1, AppendProperties
    <2>2. Len(m.name) \in Nat
      BY <1>1, LenProperties
    <2> QED
      BY <2>1, <2>2
  <1> QED
    BY <1>2

\* A list that ascends from each entry to the next one ascends throughout.
LEMMA AscendingThroughout ==
  ASSUME NEW s, NEW n \in Nat, Len(s) = n, Ascending(s), \A i \in 1..n : s[i] \in Int
  PROVE  \A i, j \in 1..n : i < j => s[i] < s[j]
  <1> DEFINE P == {j \in 0..n : \A i \in 1..n : i < j => s[i] < s[j]}
  <1>1. 0 \in P
    OBVIOUS
  <1>2. ASSUME NEW j \in 1..n, j - 1 \in P PROVE j \in P
    <2>1. ASSUME NEW i \in 1..n, i < j PROVE s[i] < s[j]
      <3>1. j - 1 \in 1..(n - 1) /\ (j - 1) + 1 = j /\ j - 1 \in 1..n
        BY <2>1
      <3>2. s[j - 1] < s[j]
        BY <3>1 DEF Ascending
      <3>3. i # j - 1 => s[i] < s[j - 1]
        BY <1>2, <2>1
      <3> QED
        BY <3>1, <3>2, <3>3
    <2> QED
      BY <2>1
  <1> HIDE DEF P
  <1>3. \A j \in 0..n : j \in P
    BY <1>1, <1>2, Upwards
  <1> QED
    BY <1>3 DEF P

LEMMA LineFacts ==
  \A s, l, v : Line(s, l, v).series = s /\ Line(s, l, v).label = l /\ Line(s, l, v).value = v
  BY DEF Line

LEMMA LabelFacts ==
  ASSUME NEW m \in Metrics, Ascending(m.declared)
  PROVE  /\ \A i, j \in 1..Len(m.declared) : m.declared[i] = m.declared[j] => i = j
         /\ \A i \in 1..Len(m.declared) : m.declared[i] # None /\ m.declared[i] # Infinity
  <1>1. \A i \in 1..Len(m.declared) : m.declared[i] \in Int
    BY MetricFacts, NumbersAssumption, ElementOfSeq
  <1>2. Len(m.declared) \in Nat
    BY MetricFacts
  <1>3. \A i, j \in 1..Len(m.declared) : i < j => m.declared[i] < m.declared[j]
    BY <1>1, <1>2, AscendingThroughout
  <1> QED
    BY <1>1, <1>2, <1>3, NoneAssumption

\* The renderers and series_names agree, and no line of a block repeats another.
LEMMA BlockFacts ==
  ASSUME NEW m \in Metrics, NEW r, DeclaredWell(m)
  PROVE  LET s == Rendered(m, r)
         IN /\ {s[p].series : p \in DOMAIN s} = SeriesNames(m)
            /\ \A p, q \in DOMAIN s : s[p].series = s[q].series /\ s[p].label = s[q].label => p = q
  <1> DEFINE s == Rendered(m, r)
             n == Len(m.declared)
  <1>n. n \in Nat
    BY MetricFacts
  <1>l. /\ \A i, j \in 1..n : m.declared[i] = m.declared[j] => i = j
        /\ \A i \in 1..n : m.declared[i] # None /\ m.declared[i] # Infinity
    BY LabelFacts DEF DeclaredWell
  <1>1. CASE m.kind = "scalar"
    BY <1>1, ScalarShape DEF SeriesNames, Line
  <1>2. CASE m.kind # "scalar"
    <2>0. n >= 1
      <3>1. m.declared # <<>>
        BY <1>2 DEF DeclaredWell
      <3> QED
        BY <3>1, <1>n, MetricFacts, EmptySeq
    <2>1. CASE m.kind = "summary"
      <3> HIDE DEF s, n
      <3>1. /\ DOMAIN s = 1..(n + 2)
            /\ \A i \in 1..n : s[i].series = m.name /\ s[i].label = m.declared[i]
            /\ s[n + 1].series = Append(m.name, "sum") /\ s[n + 2].series = Append(m.name, "count")
        <4> DEFINE sum == Append(m.name, "sum")
                   count == Append(m.name, "count")
        <4>1. /\ DOMAIN s = 1..(n + 2)
              /\ \A i \in 1..n : s[i] = Line(m.name, m.declared[i], r.values[m.declared[i]])
              /\ s[n + 1] = Line(sum, None, r.sum) /\ s[n + 2] = Line(count, None, r.count)
          BY <2>1, SummaryShape DEF s, n, SumOf, CountOf
        <4> HIDE DEF sum, count
        <4>2. /\ \A i \in 1..n : s[i].series = m.name /\ s[i].label = m.declared[i]
              /\ s[n + 1].series = sum /\ s[n + 2].series = count
          <5>1. ASSUME NEW i \in 1..n PROVE s[i].series = m.name /\ s[i].label = m.declared[i]
            BY <4>1, LineFacts
          <5>2. s[n + 1].series = sum
            BY <4>1, LineFacts
          <5>3. s[n + 2].series = count
            BY <4>1, LineFacts
          <5> QED
            BY <5>1, <5>2, <5>3
        <4> QED
          BY <4>1, <4>2 DEF sum, count
      <3>2. SeriesNames(m) = {m.name, Append(m.name, "sum"), Append(m.name, "count")}
        BY <2>1 DEF SeriesNames
      <3>3. \A p \in DOMAIN s : p \in 1..n \/ p = n + 1 \/ p = n + 2
        <4>1. \A p \in 1..(n + 2) : p \in 1..n \/ p = n + 1 \/ p = n + 2
          BY <1>n
        <4> QED
          BY <4>1, <3>1
      <3>4. 1 \in 1..n /\ 1..n \subseteq DOMAIN s /\ n + 1 \in DOMAIN s /\ n + 2 \in DOMAIN s
        BY <3>1, <1>n, <2>0
      <3>5. {s[p].series : p \in DOMAIN s} = SeriesNames(m)
        <4>1. \A p \in DOMAIN s : s[p].series \in SeriesNames(m)
          BY <3>1, <3>2, <3>3
        <4>2. \A name \in SeriesNames(m) : \E p \in DOMAIN s : name = s[p].series
          BY <3>1, <3>2, <3>4
        <4> QED
          BY <4>1, <4>2, Zenon
      <3>6. \A p, q \in DOMAIN s : s[p].series = s[q].series /\ s[p].label = s[q].label => p = q
        BY <3>1, <3>3, <1>l, NameFacts
      <3> QED
        BY <3>5, <3>6 DEF s
    <2>2. CASE m.kind = "histogram"
      <3> HIDE DEF s, n
      <3>1. /\ DOMAIN s = 1..(n + 3)
            /\ \A i \in 1..n : s[i].series = Append(m.name, "bucket") /\ s[i].label = m.declared[i]
            /\ s[n + 1].series = Append(m.name, "bucket") /\ s[n + 1].label = Infinity
            /\ s[n + 2].series = Append(m.name, "sum") /\ s[n + 3].series = Append(m.name, "count")
        <4> DEFINE bucket == Append(m.name, "bucket")
                   sum == Append(m.name, "sum")
                   count == Append(m.name, "count")
        <4>1. /\ DOMAIN s = 1..(n + 3)
              /\ \A i \in 1..n : s[i] = Line(bucket, m.declared[i], r.values[m.declared[i]])
              /\ s[n + 1] = Line(bucket, Infinity, r.count)
              /\ s[n + 2] = Line(sum, None, r.sum) /\ s[n + 3] = Line(count, None, r.count)
          BY <2>2, HistogramShape DEF s, n, Top, SumOf, CountOf
        <4> HIDE DEF bucket, sum, count
        <4>2. /\ \A i \in 1..n : s[i].series = bucket /\ s[i].label = m.declared[i]
              /\ s[n + 1].series = bucket /\ s[n + 1].label = Infinity
              /\ s[n + 2].series = sum /\ s[n + 3].series = count
          <5>1. ASSUME NEW i \in 1..n PROVE s[i].series = bucket /\ s[i].label = m.declared[i]
            BY <4>1, LineFacts
          <5>2. s[n + 1].series = bucket /\ s[n + 1].label = Infinity
            BY <4>1, LineFacts
          <5>3. s[n + 2].series = sum
            BY <4>1, LineFacts
          <5>4. s[n + 3].series = count
            BY <4>1, LineFacts
          <5> QED
            BY <5>1, <5>2, <5>3, <5>4
        <4> QED
          BY <4>1, <4>2 DEF bucket, sum, count
      <3>2. SeriesNames(m) = {Append(m.name, "bucket"), Append(m.name, "sum"), Append(m.name, "count")}
        BY <2>2 DEF SeriesNames
      <3>3. \A p \in DOMAIN s : p \in 1..n \/ p = n + 1 \/ p = n + 2 \/ p = n + 3
        <4>1. \A p \in 1..(n + 3) : p \in 1..n \/ p = n + 1 \/ p = n + 2 \/ p = n + 3
          BY <1>n
        <4> QED
          BY <4>1, <3>1
      <3>4. /\ 1 \in 1..n /\ 1..n \subseteq DOMAIN s
            /\ n + 1 \in DOMAIN s /\ n + 2 \in DOMAIN s /\ n + 3 \in DOMAIN s
        BY <3>1, <1>n, <2>0
      <3>5. {s[p].series : p \in DOMAIN s} = SeriesNames(m)
        <4>1. \A p \in DOMAIN s : s[p].series \in SeriesNames(m)
          BY <3>1, <3>2, <3>3
        <4>2. \A name \in SeriesNames(m) : \E p \in DOMAIN s : name = s[p].series
          BY <3>1, <3>2, <3>4
        <4> QED
          BY <4>1, <4>2, Zenon
      <3>6. \A p, q \in DOMAIN s : s[p].series = s[q].series /\ s[p].label = s[q].label => p = q
        BY <3>1, <3>3, <1>l, NameFacts
      <3> QED
        BY <3>5, <3>6 DEF s
    <2> QED
      BY <1>2, <2>1, <2>2, MetricFacts DEF Kinds
  <1> QED
    BY <1>1, <1>2

\* What is known of a block of the exposition.
LEMMA Block ==
  ASSUME IInv, NEW i \in Blocks
  PROVE  /\ i \in DOMAIN config /\ config[i] \in Metrics /\ DeclaredWell(config[i])
         /\ exposition[i] = Rendered(config[i], results[config[i].name])
         /\ Suits(config[i], results[config[i].name])
         /\ Verified(config)
  <1>1. phase = "rendered"
    BY DEF IInv, Exposed, Blocks
  <1>2. i \in DOMAIN config /\ exposition[i] = Rendered(config[i], results[config[i].name])
    BY <1>1 DEF IInv, Exposed, Blocks
  <1>3. /\ DOMAIN config = 1..Len(config) /\ config[i] \in Metrics
        /\ Verified(config) /\ at = Len(config) + 1 /\ ~failed /\ Len(config) \in Nat
    BY <1>1, <1>2, ConfigFacts DEF IInv, TypeOK, Cursor
  <1> QED
    BY <1>2, <1>3 DEF IInv, Collected, Parsed, Verified

-----------------------------------------------------------------------------
\* verify_metrics, run_cmds and the renderers keep their types, and no output is
\* parsed for a config that was not checked.
THEOREM SupportTypes == Spec => []TypeOK
  <1>1. IInv => TypeOK
    BY DEF IInv
  <1> QED
    BY <1>1, Invariance, PTL

\* Whatever a scalar and a histogram of one name, and so of one command, print: what
\* is rendered of each is what its own parser accepted.
THEOREM SamplesAreOwn == Spec => []OwnSamples
  <1>1. IInv => OwnSamples
    BY Block DEF OwnSamples, Suits
  <1> QED
    BY <1>1, Invariance, PTL

\* parse_distribution accepts each declared key exactly once and no other key.
THEOREM KeysOnce == Spec => []DeclaredKeysOnce
  <1>1. IInv => DeclaredKeysOnce
    <2> SUFFICES ASSUME IInv, NEW i \in Blocks, config[i].kind # "scalar", NEW b \in Bounds
                 PROVE  results[config[i].name].printed.keys[b] =
                          IF \E p \in DOMAIN config[i].declared : config[i].declared[p] = b THEN 1 ELSE 0
      BY DEF DeclaredKeysOnce
    <2> QED
      BY Block DEF Suits, Declares
  <1> QED
    BY <1>1, Invariance, PTL

\* The series render_exposition writes for a metric are those series_names lists,
\* which is what the duplicate checks compare.
THEOREM SeriesAgree == Spec => []RendersCheckedSeries
  <1>1. IInv => RendersCheckedSeries
    <2> SUFFICES ASSUME IInv, NEW i \in Blocks
                 PROVE  {s.series : s \in Samples(i)} = SeriesNames(config[i])
      BY DEF RendersCheckedSeries
    <2>1. {exposition[i][p].series : p \in DOMAIN exposition[i]} = SeriesNames(config[i])
      BY Block, BlockFacts
    <2>2. {s.series : s \in Samples(i)} = {exposition[i][p].series : p \in DOMAIN exposition[i]}
      BY DEF Samples
    <2> QED
      BY <2>1, <2>2
  <1> QED
    BY <1>1, Invariance, PTL

\* No sample of a handler's exposition is exported twice.
THEOREM NoSampleTwice == Spec => []SampledOnce
  <1>1. IInv => SampledOnce
    <2> SUFFICES ASSUME IInv, NEW i \in Blocks, NEW j \in Blocks,
                        NEW p \in DOMAIN exposition[i], NEW q \in DOMAIN exposition[j],
                        exposition[i][p].series = exposition[j][q].series,
                        exposition[i][p].label = exposition[j][q].label
                 PROVE  i = j /\ p = q
      BY DEF SampledOnce
    <2>1. i = j
      <3>1. exposition[i][p].series \in SeriesNames(config[i])
        BY Block, BlockFacts
      <3>2. exposition[j][q].series \in SeriesNames(config[j])
        BY Block, BlockFacts
      <3>3. i \in DOMAIN config /\ j \in DOMAIN config /\ Verified(config)
        BY Block
      <3> QED
        BY <3>1, <3>2, <3>3 DEF Verified
    <2>2. p = q
      BY <2>1, Block, BlockFacts
    <2> QED
      BY <2>1, <2>2
  <1> QED
    BY <1>1, Invariance, PTL

\* The buckets of a rendered histogram do not decrease, and the last one is its count.
THEOREM HistogramsAre == Spec => []HistogramsCumulate
  <1>1. IInv => HistogramsCumulate
    <2> SUFFICES ASSUME IInv, NEW i \in Blocks, config[i].kind = "histogram"
                 PROVE  LET block == exposition[i]
                            top == Len(config[i].declared) + 1
                        IN /\ \A p \in 1..(top - 1) : block[p].value <= block[p + 1].value
                           /\ block[top].label = Infinity /\ block[top].value = block[Len(block)].value
      BY DEF HistogramsCumulate
    <2> DEFINE m == config[i]
               r == results[config[i].name]
               n == Len(config[i].declared)
               block == exposition[i]
    <2>1. m \in Metrics /\ m.kind = "histogram" /\ Suits(m, r) /\ block = Rendered(m, r)
          /\ n = Len(m.declared)
      BY Block
    <2> HIDE DEF m, r, n, block
    <2>2. n \in Nat
      BY <2>1, MetricFacts
    <2>3. /\ Len(block) = n + 3
          /\ \A p \in 1..n : block[p].value = r.values[m.declared[p]]
          /\ block[n + 1].label = Infinity /\ block[n + 1].value = r.count
          /\ block[n + 3].value = r.count
      <3>1. /\ Len(block) = n + 3
            /\ \A p \in 1..n :
                 block[p] = Line(Append(m.name, "bucket"), m.declared[p], r.values[m.declared[p]])
            /\ block[n + 1] = Top(m, r) /\ block[n + 3] = CountOf(m, r)
        BY <2>1, HistogramShape
      <3> QED
        BY <3>1, LineFacts DEF Top, CountOf
    <2>4. /\ \A p \in 1..(n - 1) : r.values[m.declared[p]] <= r.values[m.declared[p + 1]]
          /\ r.values[m.declared[n]] <= r.count
      BY <2>1 DEF Suits
    <2>5. ASSUME NEW p \in 1..n PROVE block[p].value <= block[p + 1].value
      <3>1. CASE p = n
        BY <3>1, <2>2, <2>3, <2>4
      <3>2. CASE p # n
        <4>1. p \in 1..(n - 1) /\ p + 1 \in 1..n
          BY <3>2, <2>2
        <4> QED
          BY <4>1, <2>3, <2>4
      <3> QED
        BY <3>1, <3>2
    <2>6. (n + 1) - 1 = n /\ Len(block) = n + 3
      BY <2>2, <2>3
    <2> QED
      BY <2>3, <2>5, <2>6 DEF n, block
  <1> QED
    BY <1>1, Invariance, PTL

===============================================================================
