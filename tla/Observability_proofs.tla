------------------------ MODULE Observability_proofs ------------------------
(***************************************************************************)
(* Theorems about the logger and the health check: TraceLog for any        *)
(* levels, thresholds, errors and numbers of options, copies and lines,    *)
(* CallerSource for any stack, and HealthCheck for any number of checkers, *)
(* other users of the pool, connections and deadlines.                     *)
(***************************************************************************)
EXTENDS TraceLog, CallerSource, HealthCheck, TLAPS

-----------------------------------------------------------------------------
(* TraceLog.  The invariant ties the copies to the options of the logger   *)
(* they come from, and the last line to the logger that wrote it; what the *)
(* line shows then follows from the operators.                             *)

USE DEF Silent, Error, Warn, Info

Logger ==
    [zapLogger : {"nop", "zap"}, sugar : {"nil", "nop", "zap"}, slowThreshold : Int, logLevel : Int,
     traceIDExtractor : BOOLEAN, ignoreRecordNotFoundError : BOOLEAN, parameterizedQueries : BOOLEAN]

Texts == {"none", "details", "mysql error", "database error",
          "canceled", "deadline", "notFound", "duplicated", "foreignKey"}

LogLine ==
    [sink : {"nop", "nil", "zap"}, severity : {"none", "info", "warn", "error"},
     sql : {"none", "placeholders", "with values"}, error : Texts, code : BOOLEAN, id : BOOLEAN]

Traces ==
    [nth : Nat, by : Nat, of : {"none", "statement", "error", "warn", "info"},
     err : SUBSET Causes, elapsed : Int, id : BOOLEAN, line : LogLine]

Typed ==
    /\ stage \in {"new", "ready"} /\ options \in 0..MaxOptions /\ asked \in Nat
    /\ loggers \in Seq(Logger) /\ Len(loggers) >= 1
    /\ stage = "new" => Len(loggers) = 1 /\ traced.of = "none"
    /\ traced \in Traces

(* All but the level of two loggers.                                       *)
Alike(l, m) ==
    /\ l.zapLogger = m.zapLogger /\ l.sugar = m.sugar /\ l.slowThreshold = m.slowThreshold
    /\ l.traceIDExtractor = m.traceIDExtractor
    /\ l.ignoreRecordNotFoundError = m.ignoreRecordNotFoundError
    /\ l.parameterizedQueries = m.parameterizedQueries

Copies ==
    /\ \A i \in DOMAIN loggers : Alike(loggers[i], loggers[1])
    /\ loggers[1].slowThreshold = asked
    /\ stage = "ready" => loggers[1].sugar = loggers[1].zapLogger

(* The last line is what the logger in traced.by makes of its arguments.   *)
Explained ==
    /\ IF traced.of = "none" THEN traced.by = 0 ELSE traced.by \in DOMAIN loggers
    /\ traced.of = "statement" =>
        traced.line = Line(loggers[traced.by], traced.err, traced.elapsed, traced.id)
    /\ traced.of \in {"error", "warn", "info"} => \E level \in 2..4 :
        traced.of = Names[level] /\ traced.line = MessageLine(loggers[traced.by], level, traced.id)

Inv == Typed /\ Copies /\ Explained

-----------------------------------------------------------------------------
(* The operators.                                                          *)

(* Some cause that is known comes first, so that no detail is shown.       *)
LEMMA SummaryKnown ==
    ASSUME NEW err \in SUBSET Causes
    PROVE  /\ Summary(err) \in {"database error", "canceled", "deadline", "notFound", "duplicated", "foreignKey"}
           /\ "canceled" \in err => Summary(err) = "canceled"
  <1>. DEFINE at == {i \in DOMAIN Known : Known[i] \in err}
              first == CHOOSE i \in at : \A j \in at : i <= j
  <1>1. at \subseteq 1..5
    BY DEF Known
  <1>2. ASSUME at # {}
        PROVE  \E i \in at : \A j \in at : i <= j
    <2>1. CASE 1 \in at
      BY <1>1, <2>1
    <2>2. CASE 1 \notin at /\ 2 \in at
      BY <1>1, <2>2
    <2>3. CASE 1 \notin at /\ 2 \notin at /\ 3 \in at
      BY <1>1, <2>3
    <2>4. CASE 1 \notin at /\ 2 \notin at /\ 3 \notin at /\ 4 \in at
      BY <1>1, <2>4
    <2>5. CASE 1 \notin at /\ 2 \notin at /\ 3 \notin at /\ 4 \notin at
      <3>1. at = {5}
        BY <1>1, <1>2, <2>5
      <3>. QED
        BY <3>1
    <2>. QED
      BY <2>1, <2>2, <2>3, <2>4, <2>5
  <1>3. ASSUME at # {}
        PROVE  first \in at /\ \A j \in at : first <= j
    BY <1>2, <1>3
  <1>4. Summary(err) = IF at = {} THEN "database error" ELSE Known[first]
    BY DEF Summary
  <1>5. "canceled" \in err => 1 \in at
    BY DEF Known
  <1>. HIDE DEF at, first
  <1>6. ASSUME at # {}
        PROVE  Known[first] \in {"canceled", "deadline", "notFound", "duplicated", "foreignKey"}
    <2>1. first \in 1..5
      BY <1>1, <1>3, <1>6
    <2>2. first = 1 \/ first = 2 \/ first = 3 \/ first = 4 \/ first = 5
      BY <2>1
    <2>. QED
      BY <2>2 DEF Known
  <1>7. ASSUME 1 \in at
        PROVE  first = 1
    <2>1. first \in at /\ first <= 1
      BY <1>3, <1>7
    <2>2. first \in 1..5
      BY <1>1, <2>1
    <2>. QED
      BY <2>1, <2>2
  <1>8. Known[1] = "canceled"
    BY DEF Known
  <1>. QED
    BY <1>4, <1>5, <1>6, <1>7, <1>8

LEMMA ErrorFieldsTyped ==
    ASSUME NEW l \in Logger, NEW err \in SUBSET Causes
    PROVE  /\ errorFields(l, err).error \in Texts /\ errorFields(l, err).code \in BOOLEAN
           /\ l.parameterizedQueries =>
                /\ errorFields(l, err).error # "details"
                /\ "mysql" \in err => errorFields(l, err).code
                /\ err = {"canceled"} => errorFields(l, err).error = "canceled"
  BY SummaryKnown DEF errorFields, Logger, Texts

LEMMA NoLineTyped == NoLine \in LogLine
  BY DEF NoLine, LogLine, Texts

LEMMA LineTyped ==
    ASSUME NEW l \in Logger, NEW err \in SUBSET Causes, NEW elapsed \in Int, NEW id \in BOOLEAN
    PROVE  Line(l, err, elapsed, id) \in LogLine
  <1>1. severity(l, err, elapsed) \in {"none", "info", "warn", "error"}
    BY DEF severity
  <1>2. ParamsFilter(l) \in {"placeholders", "with values"}
    BY DEF ParamsFilter
  <1>3. (l.traceIDExtractor /\ id) \in BOOLEAN /\ l.zapLogger \in {"nop", "zap"}
    BY DEF Logger
  <1>. QED
    <2>. DEFINE e == IF severity(l, err, elapsed) = "error" THEN errorFields(l, err)
                     ELSE [error |-> "none", code |-> FALSE]
                line == [sink |-> l.zapLogger, severity |-> severity(l, err, elapsed), sql |-> ParamsFilter(l),
                         error |-> e.error, code |-> e.code, id |-> l.traceIDExtractor /\ id]
    <2>1. e.error \in Texts /\ e.code \in BOOLEAN
      BY ErrorFieldsTyped DEF Texts
    <2>2. Line(l, err, elapsed, id) \in {NoLine, line}
      BY DEF Line, traceFields
    <2>. HIDE DEF e
    <2>3. line \in LogLine
      BY <1>1, <1>2, <1>3, <2>1 DEF LogLine
    <2>. HIDE DEF line
    <2>. QED
      BY <2>2, <2>3, NoLineTyped

LEMMA MessageLineTyped ==
    ASSUME NEW l \in Logger, NEW level \in 2..4, NEW id \in BOOLEAN
    PROVE  MessageLine(l, level, id) \in LogLine /\ Names[level] \in {"error", "warn", "info"}
  <1>1. Names[level] \in {"error", "warn", "info"}
    BY DEF Names
  <1>2. getSugar(l, id).sink \in {"nop", "nil", "zap"} /\ getSugar(l, id).id \in BOOLEAN
    BY DEF getSugar, Logger
  <1>. QED
    BY <1>1, <1>2, NoLineTyped DEF MessageLine, LogLine

-----------------------------------------------------------------------------
LEMMA InvInit == Init => Inv
  <1>. SUFFICES ASSUME Init
                PROVE  Inv
    OBVIOUS
  <1>1. loggers[1] \in Logger /\ loggers = <<loggers[1]>>
    BY TimesAssumption DEF Init, Logger
  <1>2. traced \in Traces
    BY NoLineTyped DEF Init, Traces
  <1>3. Typed
    BY <1>1, <1>2, TimesAssumption, BoundsAssumption DEF Init, Typed
  <1>4. Copies
    <2>1. DOMAIN loggers = {1}
      BY <1>1
    <2>. QED
      BY <2>1 DEF Init, Copies, Alike
  <1>. QED
    BY <1>3, <1>4 DEF Inv, Init, Explained

(* An option of New: one logger, and nothing logged yet.                   *)
LEMMA OptionStep ==
    ASSUME Inv, NEW l \in Logger, Apply(l), asked' \in Nat, l.slowThreshold = asked'
    PROVE  Inv'
  <1>1. loggers' = <<l>> /\ stage' = stage /\ stage = "new" /\ traced' = traced
    BY DEF Apply
  <1>2. Typed'
    BY <1>1, BoundsAssumption DEF Inv, Typed, Apply
  <1>3. Copies'
    BY <1>1 DEF Copies, Alike
  <1>4. Explained'
    BY <1>1 DEF Inv, Typed, Explained
  <1>. QED
    BY <1>2, <1>3, <1>4 DEF Inv

LEMMA OptionsStep ==
    ASSUME Inv, \/ WithLogger \/ WithSlowThreshold \/ WithLogLevel \/ WithIgnoreRecordNotFoundError
                \/ WithParameterizedQueries \/ WithTraceIDExtractor
    PROVE  Inv'
  <1>1. loggers[1] \in Logger /\ asked \in Nat /\ loggers[1].slowThreshold = asked
    BY DEF Inv, Typed, Copies
  <1>2. CASE WithLogger
    <2>1. PICK sink \in {"nop", "zap"} : Apply([loggers[1] EXCEPT !.zapLogger = sink]) /\ UNCHANGED asked
      BY <1>2 DEF WithLogger
    <2>2. [loggers[1] EXCEPT !.zapLogger = sink] \in Logger
          /\ [loggers[1] EXCEPT !.zapLogger = sink].slowThreshold = asked
      BY <1>1 DEF Logger
    <2>. QED
      BY <1>1, <2>1, <2>2, OptionStep
  <1>3. CASE WithSlowThreshold
    <2>1. PICK t \in Thresholds :
            /\ Apply([loggers[1] EXCEPT !.slowThreshold = validThreshold(t, @)])
            /\ asked' = IF t < 0 THEN asked ELSE t
      BY <1>3 DEF WithSlowThreshold
    <2>2. t \in Int /\ asked' \in Nat /\ validThreshold(t, loggers[1].slowThreshold) = asked'
      BY <1>1, <2>1, TimesAssumption DEF validThreshold
    <2>3. [loggers[1] EXCEPT !.slowThreshold = validThreshold(t, @)] \in Logger
          /\ [loggers[1] EXCEPT !.slowThreshold = validThreshold(t, @)].slowThreshold = asked'
      BY <1>1, <2>2 DEF Logger
    <2>. QED
      BY <2>1, <2>2, <2>3, OptionStep
  <1>4. CASE WithLogLevel
    <2>1. PICK n \in Levels : Apply([loggers[1] EXCEPT !.logLevel = n]) /\ UNCHANGED asked
      BY <1>4 DEF WithLogLevel
    <2>2. [loggers[1] EXCEPT !.logLevel = n] \in Logger
          /\ [loggers[1] EXCEPT !.logLevel = n].slowThreshold = asked
      BY <1>1, LevelsAssumption DEF Logger
    <2>. QED
      BY <1>1, <2>1, <2>2, OptionStep
  <1>5. CASE WithIgnoreRecordNotFoundError
    <2>1. PICK b \in BOOLEAN :
            Apply([loggers[1] EXCEPT !.ignoreRecordNotFoundError = b]) /\ UNCHANGED asked
      BY <1>5 DEF WithIgnoreRecordNotFoundError
    <2>2. [loggers[1] EXCEPT !.ignoreRecordNotFoundError = b] \in Logger
          /\ [loggers[1] EXCEPT !.ignoreRecordNotFoundError = b].slowThreshold = asked
      BY <1>1 DEF Logger
    <2>. QED
      BY <1>1, <2>1, <2>2, OptionStep
  <1>6. CASE WithParameterizedQueries
    <2>1. PICK b \in BOOLEAN : Apply([loggers[1] EXCEPT !.parameterizedQueries = b]) /\ UNCHANGED asked
      BY <1>6 DEF WithParameterizedQueries
    <2>2. [loggers[1] EXCEPT !.parameterizedQueries = b] \in Logger
          /\ [loggers[1] EXCEPT !.parameterizedQueries = b].slowThreshold = asked
      BY <1>1 DEF Logger
    <2>. QED
      BY <1>1, <2>1, <2>2, OptionStep
  <1>7. CASE WithTraceIDExtractor
    <2>1. PICK b \in BOOLEAN : Apply([loggers[1] EXCEPT !.traceIDExtractor = b]) /\ UNCHANGED asked
      BY <1>7 DEF WithTraceIDExtractor
    <2>2. [loggers[1] EXCEPT !.traceIDExtractor = b] \in Logger
          /\ [loggers[1] EXCEPT !.traceIDExtractor = b].slowThreshold = asked
      BY <1>1 DEF Logger
    <2>. QED
      BY <1>1, <2>1, <2>2, OptionStep
  <1>. QED
    BY <1>2, <1>3, <1>4, <1>5, <1>6, <1>7

LEMMA NewStep ==
    ASSUME Inv, New
    PROVE  Inv'
  <1>. DEFINE l == [loggers[1] EXCEPT !.sugar = cachedSugar(loggers[1])]
  <1>1. /\ loggers' = <<l>> /\ stage' = "ready" /\ traced' = traced /\ asked' = asked
        /\ options' = options /\ stage = "new"
    BY DEF New
  <1>2. /\ loggers[1] \in Logger /\ l \in Logger /\ l.sugar = l.zapLogger
        /\ l.slowThreshold = loggers[1].slowThreshold
    <2>1. loggers[1] \in Logger
      BY DEF Inv, Typed
    <2>. QED
      BY <2>1 DEF Logger, cachedSugar
  <1>. HIDE DEF l
  <1>3. Typed'
    BY <1>1, <1>2 DEF Inv, Typed
  <1>4. Copies'
    <2>1. DOMAIN loggers' = {1} /\ loggers'[1] = l
      BY <1>1
    <2>. QED
      BY <1>1, <1>2, <2>1 DEF Inv, Copies, Alike
  <1>5. Explained'
    BY <1>1 DEF Inv, Typed, Explained
  <1>. QED
    BY <1>3, <1>4, <1>5 DEF Inv

(* A copy is appended to the loggers, which stay as they are.              *)
LEMMA LogModeAppends ==
    ASSUME Typed, LogMode
    PROVE  \E i \in DOMAIN loggers, level \in Levels :
             /\ loggers' = Append(loggers, [loggers[i] EXCEPT !.logLevel = level])
             /\ [loggers[i] EXCEPT !.logLevel = level] \in Logger
             /\ Len(loggers') = Len(loggers) + 1
             /\ \A j \in DOMAIN loggers : loggers'[j] = loggers[j]
             /\ loggers'[Len(loggers) + 1] = [loggers[i] EXCEPT !.logLevel = level]
             /\ DOMAIN loggers = 1..Len(loggers) /\ DOMAIN loggers' = 1..(Len(loggers) + 1)
  <1>1. PICK i \in DOMAIN loggers, level \in Levels :
            loggers' = Append(loggers, [loggers[i] EXCEPT !.logLevel = level])
    BY DEF LogMode, cloneWithLevel
  <1>. DEFINE l == [loggers[i] EXCEPT !.logLevel = level]
  <1>2. loggers[i] \in Logger /\ loggers \in Seq(Logger)
    BY DEF Typed
  <1>3. l \in Logger
    BY <1>2, LevelsAssumption DEF Logger
  <1>. HIDE DEF l
  <1>4. loggers' = Append(loggers, l)
    BY <1>1 DEF l
  <1>5. /\ Len(loggers') = Len(loggers) + 1
        /\ \A j \in DOMAIN loggers : loggers'[j] = loggers[j]
        /\ loggers'[Len(loggers) + 1] = l
        /\ DOMAIN loggers = 1..Len(loggers) /\ DOMAIN loggers' = 1..(Len(loggers) + 1)
    BY <1>2, <1>3, <1>4
  <1>. QED
    BY <1>1, <1>3, <1>5 DEF l

LEMMA LogModeStep ==
    ASSUME Inv, LogMode
    PROVE  Inv'
  <1>. USE DEF Inv
  <1>1. PICK i \in DOMAIN loggers, level \in Levels :
             /\ loggers' = Append(loggers, [loggers[i] EXCEPT !.logLevel = level])
             /\ [loggers[i] EXCEPT !.logLevel = level] \in Logger
             /\ Len(loggers') = Len(loggers) + 1
             /\ \A j \in DOMAIN loggers : loggers'[j] = loggers[j]
             /\ loggers'[Len(loggers) + 1] = [loggers[i] EXCEPT !.logLevel = level]
             /\ DOMAIN loggers = 1..Len(loggers) /\ DOMAIN loggers' = 1..(Len(loggers) + 1)
    BY LogModeAppends
  <1>. DEFINE l == [loggers[i] EXCEPT !.logLevel = level]
  <1>2. UNCHANGED <<stage, options, asked, traced>> /\ stage = "ready"
    BY DEF LogMode
  <1>3. Alike(l, loggers[i])
    <2>1. loggers[i] \in Logger
      BY DEF Typed
    <2>. QED
      BY <2>1 DEF Logger, Alike
  <1>4. Typed'
    BY <1>1, <1>2 DEF Typed
  <1>. HIDE DEF l
  <1>5. l = loggers'[Len(loggers) + 1]
    BY <1>1 DEF l
  <1>6. 1 \in DOMAIN loggers /\ Len(loggers) \in Nat
    BY <1>1 DEF Typed
  <1>7. Copies'
    <2>1. Alike(l, loggers[1])
      BY <1>3 DEF Copies, Alike
    <2>2. ASSUME NEW j \in DOMAIN loggers'
          PROVE  Alike(loggers'[j], loggers'[1])
      <3>1. CASE j \in DOMAIN loggers
        BY <1>1, <1>6, <3>1 DEF Copies
      <3>2. CASE j \notin DOMAIN loggers
        <4>1. j = Len(loggers) + 1
          BY <1>1, <1>6, <3>2
        <4>. QED
          BY <1>1, <1>5, <1>6, <2>1, <4>1
      <3>. QED
        BY <3>1, <3>2
    <2>. QED
      BY <1>1, <1>2, <1>6, <2>2 DEF Copies
  <1>8. Explained'
    <2>1. traced.of # "none" => traced.by \in DOMAIN loggers'
                                /\ loggers'[traced.by] = loggers[traced.by]
      BY <1>1, <1>6 DEF Explained
    <2>. QED
      BY <1>2, <2>1 DEF Explained
  <1>. QED
    BY <1>4, <1>7, <1>8

LEMMA TraceStep ==
    ASSUME Inv, Trace
    PROVE  Inv'
  <1>. USE DEF Inv
  <1>1. UNCHANGED <<stage, options, asked, loggers>> /\ stage = "ready"
    BY DEF Trace
  <1>2. PICK i \in DOMAIN loggers, err \in Errors, elapsed \in Durations, id \in BOOLEAN :
            traced' = [nth |-> traced.nth + 1, by |-> i, of |-> "statement", err |-> err,
                       elapsed |-> elapsed, id |-> id, line |-> Line(loggers[i], err, elapsed, id)]
    BY DEF Trace
  <1>3. loggers[i] \in Logger /\ i \in Nat
    BY DEF Typed
  <1>4. err \in SUBSET Causes /\ elapsed \in Int
    BY LevelsAssumption, TimesAssumption
  <1>5. Line(loggers[i], err, elapsed, id) \in LogLine
    BY <1>3, <1>4, LineTyped
  <1>6. traced' \in Traces
    BY <1>2, <1>3, <1>4, <1>5 DEF Typed, Traces
  <1>7. Typed'
    BY <1>1, <1>6 DEF Typed
  <1>8. Copies'
    BY <1>1 DEF Copies, Alike
  <1>9. Explained'
    BY <1>1, <1>2 DEF Explained
  <1>. QED
    BY <1>7, <1>8, <1>9

LEMMA MessageStep ==
    ASSUME Inv, Message
    PROVE  Inv'
  <1>. USE DEF Inv
  <1>1. UNCHANGED <<stage, options, asked, loggers>> /\ stage = "ready"
    BY DEF Message
  <1>2. PICK i \in DOMAIN loggers, level \in 2..4, id \in BOOLEAN :
            traced' = [nth |-> traced.nth + 1, by |-> i, of |-> Names[level], err |-> {}, elapsed |-> 0,
                       id |-> id, line |-> MessageLine(loggers[i], level, id)]
    BY DEF Message
  <1>3. loggers[i] \in Logger /\ i \in Nat
    BY DEF Typed
  <1>4. MessageLine(loggers[i], level, id) \in LogLine /\ Names[level] \in {"error", "warn", "info"}
    BY <1>3, MessageLineTyped
  <1>5. traced' \in Traces
    BY <1>2, <1>3, <1>4 DEF Typed, Traces
  <1>6. Typed'
    BY <1>1, <1>5 DEF Typed
  <1>7. Copies'
    BY <1>1 DEF Copies, Alike
  <1>8. Explained'
    BY <1>1, <1>2, <1>4 DEF Explained
  <1>. QED
    BY <1>6, <1>7, <1>8

LEMMA InvNext == Inv /\ [Next]_vars => Inv'
  <1>. SUFFICES ASSUME Inv, [Next]_vars
                PROVE  Inv'
    OBVIOUS
  <1>1. CASE UNCHANGED vars
    BY <1>1 DEF vars, Inv, Typed, Copies, Alike, Explained
  <1>2. CASE Next
    BY <1>2, OptionsStep, NewStep, LogModeStep, TraceStep, MessageStep DEF Next
  <1>. QED
    BY <1>1, <1>2

LEMMA Invariance == Spec => []Inv
  <1>. QED
    BY InvInit, InvNext, PTL DEF Spec

-----------------------------------------------------------------------------
(* The types, and every copy differs from the logger in its level only     *)
(* (LogMode).                                                              *)
THEOREM TypeCorrect == Spec => []TypeOK
  <1>1. ASSUME Inv
        PROVE  TypeOK
    <2>1. ASSUME NEW i \in DOMAIN loggers
          PROVE  [loggers[i] EXCEPT !.logLevel = Warn] = [loggers[1] EXCEPT !.logLevel = Warn]
      <3>1. loggers[i] \in Logger /\ loggers[1] \in Logger /\ Alike(loggers[i], loggers[1])
        BY <1>1 DEF Inv, Typed, Copies
      <3>. QED
        BY <3>1 DEF Logger, Alike
    <2>2. traced.by \in 0..Len(loggers)
      BY <1>1 DEF Inv, Typed, Explained
    <2>. QED
      BY <1>1, <2>1, <2>2 DEF Inv, Typed, TypeOK, Traces, LogLine
  <1>. QED
    BY <1>1, Invariance, PTL

(* What a line shows, field by field.                                      *)
LEMMA LineFields ==
    ASSUME NEW l, NEW err, NEW elapsed, NEW id,
           ~(silenced(l, err) \/ severity(l, err, elapsed) = "none" \/ l.zapLogger = "nop")
    PROVE  /\ Line(l, err, elapsed, id).severity = severity(l, err, elapsed)
           /\ Line(l, err, elapsed, id).sql = ParamsFilter(l)
           /\ IF severity(l, err, elapsed) = "error"
              THEN /\ Line(l, err, elapsed, id).error = errorFields(l, err).error
                   /\ Line(l, err, elapsed, id).code = errorFields(l, err).code
              ELSE Line(l, err, elapsed, id).error = "none"
           /\ Line(l, err, elapsed, id).sink = l.zapLogger
           /\ Line(l, err, elapsed, id).id = (l.traceIDExtractor /\ id)
  <1>. DEFINE s == severity(l, err, elapsed)
              f == traceFields(l, id)
              e == IF s = "error" THEN errorFields(l, err) ELSE [error |-> "none", code |-> FALSE]
  <1>1. Line(l, err, elapsed, id) =
            [sink |-> l.zapLogger, severity |-> s, sql |-> f.sql, error |-> e.error, code |-> e.code, id |-> f.id]
    BY DEF Line
  <1>2. f.sql = ParamsFilter(l) /\ f.id = (l.traceIDExtractor /\ id)
    BY DEF traceFields
  <1>3. IF s = "error" THEN e.error = errorFields(l, err).error /\ e.code = errorFields(l, err).code
        ELSE e.error = "none"
    OBVIOUS
  <1>. HIDE DEF s, f, e
  <1>4. /\ Line(l, err, elapsed, id).severity = s /\ Line(l, err, elapsed, id).sql = f.sql
        /\ Line(l, err, elapsed, id).error = e.error /\ Line(l, err, elapsed, id).code = e.code
        /\ Line(l, err, elapsed, id).sink = l.zapLogger /\ Line(l, err, elapsed, id).id = f.id
    BY <1>1
  <1>5. s = severity(l, err, elapsed)
    BY DEF s
  <1>. QED
    BY <1>2, <1>3, <1>4, <1>5

LEMMA NoLineWhen ==
    ASSUME NEW l, NEW err, NEW elapsed, NEW id,
           silenced(l, err) \/ severity(l, err, elapsed) = "none" \/ l.zapLogger = "nop"
    PROVE  Line(l, err, elapsed, id) = NoLine
  BY DEF Line

(* No line of a parameterized logger shows a bound value or the details of *)
(* an error, whatever the error wraps (ParamsFilter, errorFields).         *)
THEOREM BoundValuesHidden == Spec => []ValuesHidden
  <1>1. ASSUME Inv, traced.of = "statement", By.parameterizedQueries
        PROVE  /\ traced.line.sql # "with values" /\ traced.line.error # "details"
               /\ traced.line.severity = "error" /\ "mysql" \in traced.err => traced.line.code
               /\ traced.line.severity = "error" /\ traced.err = {"canceled"} =>
                    traced.line.error = "canceled"
    <2>. DEFINE l == loggers[traced.by]
                e == errorFields(l, traced.err)
    <2>1. /\ l \in Logger /\ l.parameterizedQueries
          /\ traced.err \in SUBSET Causes
          /\ traced.line = Line(l, traced.err, traced.elapsed, traced.id)
      BY <1>1 DEF Inv, Typed, Traces, Explained, By
    <2>2. /\ e.error # "details"
          /\ "mysql" \in traced.err => e.code
          /\ traced.err = {"canceled"} => e.error = "canceled"
      BY <2>1, ErrorFieldsTyped
    <2>. HIDE DEF l, e
    <2>3. CASE traced.line = NoLine
      BY <2>3 DEF NoLine
    <2>4. CASE traced.line # NoLine
      <3>1. /\ traced.line.sql = ParamsFilter(l)
            /\ traced.line.severity = "error" =>
                    traced.line.error = e.error /\ traced.line.code = e.code
            /\ traced.line.severity # "error" => traced.line.error = "none"
        BY <2>1, <2>4, LineFields, NoLineWhen DEF e
      <3>2. ParamsFilter(l) = "placeholders"
        BY <2>1 DEF ParamsFilter
      <3>. QED
        BY <2>2, <3>1, <3>2
    <2>. QED
      BY <2>3, <2>4
  <1>2. Inv => ValuesHidden
    BY <1>1 DEF ValuesHidden, Traced
  <1>. QED
    BY <1>2, Invariance, PTL

(* No slow statement is missing at Warn and above, and no other is called  *)
(* slow, for every threshold asked for (Trace, WithSlowThreshold).         *)
THEOREM SlowStatementsSeen == Spec => []SlowIsSeen
  <1>1. ASSUME Inv, traced.of = "statement", By.zapLogger = "zap"
        PROVE  LET slow == asked # 0 /\ traced.elapsed > asked
               IN  /\ slow /\ By.logLevel >= Warn => traced.line.severity \in {"warn", "error"}
                   /\ traced.line.severity = "warn" => slow
    <2>. DEFINE l == loggers[traced.by]
                s == severity(l, traced.err, traced.elapsed)
    <2>1. /\ By = l /\ l.zapLogger = "zap" /\ l.slowThreshold = asked /\ l.logLevel \in Int
          /\ traced.elapsed \in Int /\ asked \in Int
          /\ traced.line = Line(l, traced.err, traced.elapsed, traced.id)
      <3>1. traced.by \in DOMAIN loggers /\ traced.line = Line(l, traced.err, traced.elapsed, traced.id)
        BY <1>1 DEF Inv, Explained
      <3>2. l \in Logger /\ By = l /\ l.slowThreshold = asked
        BY <1>1, <3>1 DEF Inv, Typed, Copies, Alike, By
      <3>3. traced.elapsed \in Int /\ asked \in Int
        BY <1>1 DEF Inv, Typed, Traces
      <3>. QED
        BY <1>1, <3>1, <3>2, <3>3 DEF Logger
    <2>. HIDE DEF l
    <2>2. /\ asked # 0 /\ traced.elapsed > asked /\ l.logLevel >= 3 => s \in {"warn", "error"}
          /\ s = "warn" => asked # 0 /\ traced.elapsed > asked
      BY <2>1 DEF severity
    <2>3. IF silenced(l, traced.err) \/ s = "none" THEN traced.line = NoLine
          ELSE traced.line.severity = s
      BY <2>1, LineFields, NoLineWhen
    <2>4. silenced(l, traced.err) <=> l.logLevel <= 1
      BY DEF silenced
    <2>5. NoLine.severity = "none"
      BY DEF NoLine
    <2>. HIDE DEF s
    <2>. QED
      BY <2>1, <2>2, <2>3, <2>4, <2>5
  <1>2. Inv => SlowIsSeen
    BY <1>1 DEF SlowIsSeen, Traced
  <1>. QED
    BY <1>2, Invariance, PTL

(* Raising the level loses no line and changes none: the cases of Trace    *)
(* are ordered by level.                                                   *)
LEMMA SeverityKept ==
    ASSUME NEW l \in Logger, NEW err \in SUBSET Causes, NEW elapsed \in Int, NEW n \in Int,
           l.logLevel > 1, l.logLevel < n, n <= 4, severity(l, err, elapsed) # "none"
    PROVE  severity([l EXCEPT !.logLevel = n], err, elapsed) = severity(l, err, elapsed)
  BY DEF severity, Logger

(* A copy of a higher level writes every line that one of a lower level   *)
(* does, at the same severity (LogMode, Trace).                            *)
THEOREM RaisingLosesNoLine == Spec => []RaisingKeepsLines
  <1>1. ASSUME Inv, traced.of = "statement", traced.line # NoLine,
               NEW n \in Levels, By.logLevel < n, n <= 4
        PROVE  Line([By EXCEPT !.logLevel = n], traced.err, traced.elapsed, traced.id) = traced.line
    <2>. DEFINE l == loggers[traced.by]
                m == [l EXCEPT !.logLevel = n]
    <2>1. /\ By = l /\ l \in Logger /\ n \in Int
          /\ traced.err \in SUBSET Causes /\ traced.elapsed \in Int
          /\ traced.line = Line(l, traced.err, traced.elapsed, traced.id)
      BY <1>1, LevelsAssumption DEF Inv, Typed, Traces, Explained, By
    <2>. HIDE DEF l
    <2>2. l.logLevel \in Int /\ m.logLevel = n /\ m.zapLogger = l.zapLogger
          /\ m.traceIDExtractor = l.traceIDExtractor /\ m.parameterizedQueries = l.parameterizedQueries
      BY <2>1 DEF Logger
    <2>3. l.logLevel > 1 /\ severity(l, traced.err, traced.elapsed) # "none" /\ l.zapLogger # "nop"
      BY <1>1, <2>1, <2>2, NoLineWhen DEF silenced
    <2>4. severity(m, traced.err, traced.elapsed) = severity(l, traced.err, traced.elapsed)
      BY <1>1, <2>1, <2>3, SeverityKept
    <2>5. /\ errorFields(m, traced.err) = errorFields(l, traced.err)
          /\ traceFields(m, traced.id) = traceFields(l, traced.id)
      BY <2>2 DEF errorFields, traceFields, ParamsFilter
    <2>6. ~silenced(l, traced.err) /\ ~silenced(m, traced.err)
      BY <1>1, <2>1, <2>2, <2>3 DEF silenced
    <2>. HIDE DEF m
    <2>7. Line(m, traced.err, traced.elapsed, traced.id) = Line(l, traced.err, traced.elapsed, traced.id)
      BY <2>2, <2>4, <2>5, <2>6 DEF Line
    <2>. QED
      BY <2>1, <2>7 DEF m
  <1>2. Inv => RaisingKeepsLines
    BY <1>1 DEF RaisingKeepsLines, Traced
  <1>. QED
    BY <1>2, Invariance, PTL

(* Lines and messages go to the logger that was given, whatever option it  *)
(* was given by, with the ID of the context (New, getSugar).               *)
THEOREM LinesReach == Spec => []LinesReachLogger
  <1>1. ASSUME Inv, traced.of = "statement", traced.line # NoLine
        PROVE  traced.line.sink = By.zapLogger /\ traced.line.id = (By.traceIDExtractor /\ traced.id)
    BY <1>1, LineFields, NoLineWhen DEF Inv, Explained, By
  <1>2. ASSUME Inv, traced.of \in {"error", "warn", "info"}
        PROVE  /\ traced.line # NoLine =>
                    traced.line.sink = By.zapLogger /\ traced.line.id = (By.traceIDExtractor /\ traced.id)
               /\ traced.of = "error" /\ By.logLevel >= Error /\ By.zapLogger = "zap" => traced.line # NoLine
    <2>. DEFINE l == loggers[traced.by]
                g == getSugar(l, traced.id)
    <2>1. By = l /\ l \in Logger /\ l.sugar = l.zapLogger /\ traced.id \in BOOLEAN
      <3>1. traced.by \in DOMAIN loggers /\ stage = "ready"
        BY <1>2 DEF Inv, Typed, Explained
      <3>. QED
        BY <1>2, <3>1 DEF Inv, Typed, Copies, Alike, Traces, By
    <2>2. PICK level \in 2..4 : traced.of = Names[level] /\ traced.line = MessageLine(l, level, traced.id)
      BY <1>2 DEF Inv, Explained
    <2>. HIDE DEF l
    <2>3. g.sink = l.zapLogger /\ g.id = (l.traceIDExtractor /\ traced.id)
      BY <2>1 DEF getSugar, Logger
    <2>. HIDE DEF g
    <2>4. traced.line = IF l.logLevel < level \/ g.sink = "nop" THEN NoLine
                        ELSE [NoLine EXCEPT !.sink = g.sink, !.severity = Names[level], !.id = g.id]
      BY <2>2 DEF MessageLine, g
    <2>5. [NoLine EXCEPT !.sink = g.sink, !.severity = Names[level], !.id = g.id].sink = g.sink
          /\ [NoLine EXCEPT !.sink = g.sink, !.severity = Names[level], !.id = g.id].id = g.id
      BY DEF NoLine
    <2>6. traced.of = "error" => level = 2
      <3>1. level = 2 \/ level = 3 \/ level = 4
        OBVIOUS
      <3>. QED
        BY <2>2, <3>1 DEF Names
    <2>7. l.zapLogger = "zap" /\ ~(l.logLevel < level) => traced.line.sink = "zap"
      BY <2>3, <2>4, <2>5
    <2>8. NoLine.sink = "nop"
      BY DEF NoLine
    <2>9. traced.of = "error" /\ l.logLevel >= 2 /\ l.zapLogger = "zap" => traced.line # NoLine
      <3>1. l.logLevel \in Int
        BY <2>1 DEF Logger
      <3>. QED
        BY <2>6, <2>7, <2>8, <3>1
    <2>. QED
      BY <2>1, <2>3, <2>4, <2>5, <2>9
  <1>3. Inv => LinesReachLogger
    <2>. SUFFICES ASSUME Inv, traced.of # "none"
                  PROVE  LinesReachLogger
      BY DEF LinesReachLogger
    <2>1. traced.of = "statement" \/ traced.of \in {"error", "warn", "info"}
      BY DEF Inv, Typed, Traces
    <2>. QED
      BY <1>1, <1>2, <2>1 DEF LinesReachLogger
  <1>. QED
    BY <1>3, Invariance, PTL

-----------------------------------------------------------------------------
(* CallerSource, for every stack of every depth and for any number of      *)
(* frames stored.  The invariant says what the loop knows: the frames it   *)
(* has passed are internal, and it passes them one by one.                 *)

(* The prefixes of names tell just the frames that may be named.           *)
LEMMA InternalOrCaller ==
    ASSUME NEW frame \in Frames
    PROVE  internalFrame(frame) <=> ~Caller(frame)
  <1>1. /\ frame[2] \in {".go", ".gen.go", "_test.go"}
        /\ frame[1] \in STRING \X STRING
    BY FramesAssumption
  <1>2. frame[1] = <<frame[1][1], frame[1][2]>>
    BY <1>1
  <1>. DEFINE m == frame[1][1]
              f == frame[1][2]
  <1>3. frame[1] \in {<<"gorm.io", "/">>, <<"github.com/gtkit/ormx", ".">>,
                      <<"github.com/gtkit/ormx", "/">>, <<"runtime", ".">>}
        <=> \/ m = "gorm.io" /\ f = "/"
            \/ m = "github.com/gtkit/ormx" /\ f \in {".", "/"}
            \/ m = "runtime" /\ f = "."
    BY <1>2
  <1>. QED
    BY <1>1, <1>3 DEF internalFrame, Caller, Module, Follows

-----------------------------------------------------------------------------
(* The frames the loop has passed are internal; it stops at the first that *)
(* is not, or when all that were stored have been passed.                  *)
Passed ==
    /\ stack \in Seq(Frames) /\ Len(stack) <= MaxStack
    /\ next \in 0..depth
    /\ source \in {-1, 0} => \A i \in 1..next : internalFrame(stack[i])
    /\ source \in {-1, 0, next}
    /\ source = 0 => next = depth
    /\ source > 0 => /\ ~internalFrame(stack[next])
                     /\ \A i \in 1..(next - 1) : internalFrame(stack[i])

LEMMA DepthTyped ==
    ASSUME stack \in Seq(Frames)
    PROVE  depth \in 0..maxDepth /\ depth <= Len(stack)
                /\ (Len(stack) <= maxDepth => depth = Len(stack))
                /\ (Len(stack) > maxDepth => depth = maxDepth)
  BY DepthAssumption DEF depth

LEMMA PassedInit == CallerInit => Passed
  <1>. SUFFICES ASSUME CallerInit
                PROVE  Passed
    OBVIOUS
  <1>1. PICK n \in 0..MaxStack : stack \in [1..n -> Frames]
    BY DEF CallerInit, Stacks
  <1>2. stack \in Seq(Frames) /\ Len(stack) = n
    BY <1>1, DepthAssumption
  <1>. QED
    BY <1>2, DepthTyped, DepthAssumption DEF CallerInit, Passed

LEMMA PassedNext == Passed /\ [CallerNext]_callerVars => Passed'
  <1>. SUFFICES ASSUME Passed, [CallerNext]_callerVars
                PROVE  Passed'
    OBVIOUS
  <1>1. CASE UNCHANGED callerVars
    BY <1>1 DEF callerVars, Passed, depth
  <1>2. CASE Look
    <2>. USE <1>2
    <2>1. source = -1 /\ stack' = stack /\ depth' = depth
      BY DEF Look, depth
    <2>2. depth \in Nat /\ next \in Nat /\ next <= depth
      BY DepthTyped, DepthAssumption DEF Passed
    <2>3. CASE ~more(next)
      BY <2>1, <2>2, <2>3 DEF Look, Passed, more
    <2>4. CASE more(next) /\ internalFrame(stack[next + 1])
      BY <2>1, <2>2, <2>4 DEF Look, Passed, more
    <2>5. CASE more(next) /\ ~internalFrame(stack[next + 1])
      BY <2>1, <2>2, <2>5 DEF Look, Passed, more
    <2>. QED
      BY <2>3, <2>4, <2>5
  <1>. QED
    BY <1>1, <1>2 DEF CallerNext

(* What the loop knows holds at every step of it.                          *)
LEMMA CallerInvariance == CallerSpec => []Passed
  BY PassedInit, PassedNext, PTL DEF CallerSpec

(* The search never looks past the frames that runtime.Callers stored.     *)
THEOREM CallerTypeCorrect == CallerSpec => []CallerTypeOK
  <1>1. Passed => CallerTypeOK
    BY DepthTyped, DepthAssumption DEF Passed, CallerTypeOK
  <1>. QED
    BY <1>1, CallerInvariance, PTL

(* A log line names the innermost frame that is not of GORM, ormx, the     *)
(* runtime or generated code, on every stack (callerSource).               *)
THEOREM InnermostCallerNamed == CallerSpec => []InnermostCaller
  <1>1. ASSUME Passed
        PROVE  InnermostCaller
    <2>. DEFINE len == Len(stack)
    <2>1. \A i \in 1..len : internalFrame(stack[i]) <=> ~Caller(stack[i])
      <3>. SUFFICES ASSUME NEW i \in 1..Len(stack)
                    PROVE  internalFrame(stack[i]) <=> ~Caller(stack[i])
        OBVIOUS
      <3>1. stack[i] \in Frames
        BY <1>1 DEF Passed
      <3>. QED
        BY <3>1, InternalOrCaller
    <2>2. /\ depth \in Nat /\ depth <= len /\ next \in 0..depth /\ len \in Nat
          /\ source = 0 => next = depth
          /\ depth = len \/ depth = maxDepth
          /\ source \in {-1, 0, next}
          /\ \A i \in 1..(source - 1) : internalFrame(stack[i])
          /\ source > 0 => ~internalFrame(stack[source])
          /\ source = 0 => \A i \in 1..next : internalFrame(stack[i])
      BY <1>1, DepthTyped, DepthAssumption DEF Passed
    <2>. HIDE DEF len
    <2>3. ASSUME source > 0
          PROVE  Caller(stack[source]) /\ \A i \in 1..(source - 1) : ~Caller(stack[i])
      BY <2>1, <2>2, <2>3
    <2>4. ASSUME source = 0, NEW i \in 1..len, i <= maxDepth
          PROVE  ~Caller(stack[i])
      <3>1. i \in 1..next
        BY <2>2, <2>4, DepthAssumption
      <3>. QED
        BY <2>1, <2>2, <2>4, <3>1
    <2>5. DOMAIN stack = 1..len
      BY <1>1 DEF Passed, len
    <2>. QED
      BY <2>3, <2>4, <2>5 DEF InnermostCaller
  <1>. QED
    BY <1>1, CallerInvariance, PTL

-----------------------------------------------------------------------------
(* HealthCheck.  The invariant follows one check: how much of its time is  *)
(* left, and what it has seen at each place.                               *)

Check ==
    [pc : {"idle", "report", "done", "panicked"} \cup Waiting \cup Probing,
     asked : Timeouts \cup {None}, left : Int, derived : BOOLEAN, spent : Nat,
     status : {"none", "up", "down"}, openAtStart : BOOLEAN, pinged : BOOLEAN, probed : BOOLEAN]

HealthInv == HealthTypeOK /\ TimeLeft /\ PlaceOfCheck /\ UpWasSeen

(* What HealthInv says of one check, in the state r.                       *)
Good(r) ==
    /\ r \in Check
    /\ r.pc # "idle" =>
        /\ r.left >= 0
        /\ probe # "ignores" => r.spent + r.left <= deadline(r.asked)
    /\ r.pc \in Waiting \cup Probing => r.status = "none"
    /\ r.pc = "wait" /\ pool = "open" => r.openAtStart
    /\ r.pc \in Probing \cup {"ping", "report"} => r.openAtStart
    /\ r.pc \in Probing \cup {"report"} => r.pinged
    /\ r.pc \in Probing => probe # NoProbe
    /\ r.pc = "idle" => r.spent = 0 /\ r.status = "none"
    /\ r.status = "up" => r.openAtStart /\ r.pinged /\ (probe # NoProbe => r.probed)

(* A checker that has not checked yet.                                     *)
LEMMA NoCheckTyped ==
    /\ NoCheck \in Check
    /\ NoCheck.pc = "idle" /\ NoCheck.spent = 0 /\ NoCheck.status = "none"
  BY DEF NoCheck, Check, None

(* A step that sets one check to a good state keeps the invariant.         *)
LEMMA SetGood ==
    ASSUME HealthInv, NEW c \in Checkers, NEW r, Good(r), Set(c, r), UNCHANGED <<probe, pool>>
    PROVE  HealthInv'
  <1>1. \A d \in Checkers : check'[d] = IF d = c THEN r ELSE check[d]
    BY DEF HealthInv, HealthTypeOK, Set
  <1>2. \A d \in Checkers : Good(check[d])
    BY DEF Good, Check, HealthInv, HealthTypeOK, TimeLeft, PlaceOfCheck, UpWasSeen
  <1>3. \A d \in Checkers : Good(check[d])'
    BY <1>1, <1>2 DEF Good
  <1>4. HealthTypeOK'
    <2>1. r \in Check
      BY DEF Good
    <2>. QED
      BY <2>1 DEF HealthInv, HealthTypeOK, Set, Check
  <1>. QED
    BY <1>3, <1>4 DEF Good, HealthInv, TimeLeft, PlaceOfCheck, UpWasSeen

(* Each check is good by itself.                                           *)
LEMMA InvIsGood ==
    ASSUME HealthInv, NEW c \in Checkers
    PROVE  Good(check[c])
  BY DEF Good, Check, HealthInv, HealthTypeOK, TimeLeft, PlaceOfCheck, UpWasSeen

(* Every step of a check keeps the invariant.                              *)
LEMMA CheckStep ==
    ASSUME HealthInv, NEW c \in Checkers, Step(c)
    PROVE  HealthInv'
  <1>. DEFINE was == check[c]
  <1>1. Good(was)
    BY InvIsGood
  <1>2. CASE Start(c)
    <2>1. PICK given \in Timeouts :
            Set(c, [NoCheck EXCEPT !.pc = "wait", !.asked = given, !.left = deadline(given),
                                   !.derived = (given = None), !.openAtStart = (pool = "open")])
      BY <1>2 DEF Start
    <2>2. PICK derived \in BOOLEAN, open \in BOOLEAN :
            derived = (given = None) /\ open = (pool = "open")
      OBVIOUS
    <2>. DEFINE r == [NoCheck EXCEPT !.pc = "wait", !.asked = given, !.left = deadline(given),
                                     !.derived = derived, !.openAtStart = open]
    <2>3. Set(c, r)
      BY <2>1, <2>2
    <2>4. deadline(given) \in Nat
      BY TimeoutsAssumption DEF deadline, None
    <2>5. r \in Check
      <3>1. /\ given \in Timeouts \cup {None} /\ deadline(given) \in Int
            /\ derived \in BOOLEAN /\ open \in BOOLEAN
        BY <2>1, <2>2, <2>4
      <3>. DEFINE q == [NoCheck EXCEPT !.pc = "wait", !.asked = given]
      <3>2. q \in Check
        BY <3>1, NoCheckTyped DEF Check, Waiting
      <3>3. r = [q EXCEPT !.left = deadline(given), !.derived = derived, !.openAtStart = open]
        BY DEF NoCheck
      <3>. HIDE DEF q, r
      <3>. QED
        BY <3>1, <3>2, <3>3 DEF Check
    <2>6. /\ r.pc = "wait" /\ r.asked = given /\ r.left = deadline(given)
          /\ r.spent = 0 /\ r.status = "none" /\ (pool = "open" => r.openAtStart)
      BY <2>2, NoCheckTyped DEF Check
    <2>. HIDE DEF r
    <2>7. Good(r)
      BY <2>4, <2>5, <2>6 DEF Good, Waiting, Probing
    <2>. QED
      BY <1>2, <2>3, <2>7, SetGood DEF Start
  <1>3. CASE Acquire(c)
    <2>. DEFINE r == [was EXCEPT !.pc = IF @ = "wait" THEN "ping" ELSE "probe query"]
    <2>1. Good(r)
      BY <1>1, <1>3 DEF Acquire, Good, Check, Waiting, Probing
    <2>. QED
      BY <1>3, <2>1, SetGood DEF Acquire
  <1>4. CASE AcquireClosed(c)
    <2>. DEFINE r == [was EXCEPT !.pc = "done", !.status = "down", !.derived = FALSE]
                q == [was EXCEPT !.pc = "probe"]
    <2>1. was.pc = "wait" => Good(r) /\ Set(c, r)
      BY <1>1, <1>4 DEF AcquireClosed, Report, End, stillDerived, Good, Check, Waiting, Probing
    <2>2. was.pc # "wait" => Good(q) /\ Set(c, q)
      BY <1>1, <1>4 DEF AcquireClosed, Good, Check, Waiting, Probing
    <2>. QED
      BY <1>4, <2>1, <2>2, SetGood DEF AcquireClosed
  <1>5. CASE PingAnswered(c)
    <2>. DEFINE r == [was EXCEPT !.pc = IF probe = NoProbe THEN "report" ELSE "probe",
                                 !.pinged = TRUE]
    <2>1. Good(r) /\ Set(c, r)
      BY <1>1, <1>5 DEF PingAnswered, Good, Check, Waiting, Probing
    <2>. QED
      BY <1>5, <2>1, SetGood DEF PingAnswered
  <1>6. CASE PingError(c)
    <2>. DEFINE r == [was EXCEPT !.pc = "done", !.status = "down", !.derived = FALSE]
    <2>1. Good(r) /\ Set(c, r)
      BY <1>1, <1>6 DEF PingError, Report, End, stillDerived, Good, Check, Waiting, Probing
    <2>. QED
      BY <1>6, <2>1, SetGood DEF PingError
  <1>7. CASE ProbeQuery(c)
    <2>. DEFINE r == [was EXCEPT !.pc = "probe wait"]
    <2>1. Good(r)
      BY <1>1, <1>7 DEF ProbeQuery, Good, Check, Waiting, Probing
    <2>. QED
      BY <1>7, <2>1, SetGood DEF ProbeQuery
  <1>8. CASE ProbeAnswer(c)
    <2>. DEFINE r == [was EXCEPT !.pc = "probe"]
    <2>1. Good(r)
      BY <1>1, <1>8 DEF ProbeAnswer, Good, Check, Waiting, Probing
    <2>. QED
      BY <1>8, <2>1, SetGood DEF ProbeAnswer
  <1>9. CASE ProbeReturns(c)
    <2>1. PICK e \in BOOLEAN :
            Set(c, [was EXCEPT !.pc = "report", !.status = probeStatus(e), !.probed = ~e])
      BY <1>9 DEF ProbeReturns
    <2>. DEFINE r == [was EXCEPT !.pc = "report", !.status = probeStatus(e), !.probed = ~e]
    <2>2. Good(r)
      BY <1>1, <1>9 DEF ProbeReturns, probeStatus, Good, Check, Waiting, Probing
    <2>. QED
      BY <1>9, <2>1, <2>2, SetGood DEF ProbeReturns
  <1>10. CASE ProbePanics(c)
    <2>. DEFINE r == [was EXCEPT !.pc = "panicked", !.status = "none", !.derived = FALSE]
    <2>1. Good(r) /\ Set(c, r)
      BY <1>1, <1>10 DEF ProbePanics, End, stillDerived, Good, Check, Waiting, Probing
    <2>. QED
      BY <1>10, <2>1, SetGood DEF ProbePanics
  <1>11. CASE Finish(c)
    <2>. DEFINE r == [was EXCEPT !.pc = "done", !.derived = FALSE,
                                 !.status = IF probe = NoProbe THEN "up" ELSE @]
    <2>1. Good(r) /\ Set(c, r)
      BY <1>1, <1>11
      DEF Finish, Report, End, stillDerived, initialStatus, Good, Check, Waiting, Probing
    <2>. QED
      BY <1>11, <2>1, SetGood DEF Finish
  <1>12. CASE Expire(c)
    <2>. DEFINE r == [was EXCEPT !.pc = "done", !.status = "down", !.derived = FALSE]
                q == [was EXCEPT !.pc = "report", !.status = "down"]
    <2>1. was.pc \in Waiting => Good(r) /\ Set(c, r)
      BY <1>1, <1>12 DEF Expire, Report, End, stillDerived, Good, Check, Waiting, Probing
    <2>2. was.pc \notin Waiting => Good(q) /\ Set(c, q)
      BY <1>1, <1>12 DEF Expire, Obeys, Good, Check, Waiting, Probing
    <2>. QED
      BY <1>12, <2>1, <2>2, SetGood DEF Expire
  <1>. QED
    BY <1>2, <1>3, <1>4, <1>5, <1>6, <1>7, <1>8, <1>9, <1>10, <1>11, <1>12 DEF Step

(* Time only passes while nobody is due: what a check spends, it had left. *)
LEMMA TickStep ==
    ASSUME HealthInv, Tick
    PROVE  HealthInv'
  <1>. DEFINE later(r) ==
         IF r.pc \in {"idle", "done", "panicked"} THEN r
         ELSE [r EXCEPT !.left = IF @ \in {None, 0} THEN @ ELSE @ - 1,
                        !.spent = IF @ = Horizon THEN @ ELSE @ + 1]
  <1>1. check' = [c \in Checkers |-> later(check[c])] /\ UNCHANGED <<probe, pool>>
    BY DEF Tick
  <1>2. ASSUME NEW c \in Checkers
        PROVE  Good(later(check[c]))
    <2>. DEFINE was == check[c]
    <2>1. Good(was) /\ was.pc # "report" /\ ~(Obeys(c) /\ Remaining(c) = 0)
      BY InvIsGood DEF Tick
    <2>2. CASE was.pc \in {"idle", "done", "panicked"}
      BY <2>1, <2>2
    <2>3. CASE was.pc \notin {"idle", "done", "panicked"}
      <3>. DEFINE left == IF was.left \in {None, 0} THEN was.left ELSE was.left - 1
                  spent == IF was.spent = Horizon THEN was.spent ELSE was.spent + 1
      <3>1. later(was) = [was EXCEPT !.left = left, !.spent = spent]
        BY <2>3
      <3>2. was.left = 0 => probe = "ignores"
        BY <2>1, <2>3, TimeoutsAssumption
        DEF Obeys, Remaining, probeLeft, Good, Check, Waiting, Probing, HealthInv, HealthTypeOK
      <3>3. was.left \in Nat /\ was.spent \in Nat /\ was.pc # "idle"
        BY <2>1, <2>3 DEF Good, Check
      <3>4. left \in Nat /\ spent \in Nat
        BY <3>3 DEF None
      <3>5. was.left # 0 => spent + left <= was.spent + was.left
        BY <3>3 DEF None
      <3>6. deadline(was.asked) \in Nat
        BY <2>1, TimeoutsAssumption DEF deadline, Good, Check, None
      <3>7. probe # "ignores" => was.spent + was.left <= deadline(was.asked)
        BY <2>1, <3>3 DEF Good
      <3>. HIDE DEF left, spent, later
      <3>8. probe # "ignores" => spent + left <= deadline(was.asked)
        BY <3>2, <3>3, <3>4, <3>5, <3>6, <3>7
      <3>. DEFINE r == [was EXCEPT !.left = left, !.spent = spent]
      <3>9. r \in Check
        <4>1. was \in Check /\ left \in Int /\ spent \in Nat
          BY <2>1, <3>4 DEF Good
        <4>. QED
          BY <4>1 DEF Check
      <3>10. /\ r.pc = was.pc /\ r.asked = was.asked /\ r.status = was.status
             /\ r.left = left /\ r.spent = spent /\ (r.openAtStart <=> was.openAtStart)
             /\ (r.pinged <=> was.pinged) /\ (r.probed <=> was.probed)
        <4>1. was \in Check
          BY <2>1 DEF Good
        <4>. QED
          BY <4>1 DEF Check
      <3>. HIDE DEF r
      <3>11. r.left >= 0 /\ (probe # "ignores" => r.spent + r.left <= deadline(r.asked))
        BY <3>4, <3>8, <3>10
      <3>12. /\ r.pc \in Waiting \cup Probing => r.status = "none"
             /\ r.pc = "wait" /\ pool = "open" => r.openAtStart
             /\ r.pc \in Probing \cup {"ping", "report"} => r.openAtStart
             /\ r.pc \in Probing \cup {"report"} => r.pinged
        BY <2>1, <3>10 DEF Good
      <3>13. /\ r.pc \in Probing => probe # NoProbe
             /\ r.status = "up" => r.openAtStart /\ r.pinged /\ (probe # NoProbe => r.probed)
        BY <2>1, <3>10 DEF Good
      <3>14. Good(r)
        BY <3>3, <3>9, <3>10, <3>11, <3>12, <3>13 DEF Good
      <3>. QED
        BY <3>1, <3>14 DEF r
    <2>. QED
      BY <2>2, <2>3
  <1>. HIDE DEF later
  <1>3. \A c \in Checkers : check'[c] = later(check[c])
    BY <1>1
  <1>4. \A c \in Checkers : Good(check[c])'
    BY <1>1, <1>2, <1>3 DEF Good
  <1>5. HealthTypeOK'
    BY <1>1, <1>2 DEF Good, Check, HealthInv, HealthTypeOK
  <1>. QED
    BY <1>4, <1>5 DEF Good, HealthInv, TimeLeft, PlaceOfCheck, UpWasSeen

-----------------------------------------------------------------------------
(* Before the first check there is nothing to relate.                      *)
LEMMA HealthInvInit == HealthInit => HealthInv
  <1>. SUFFICES ASSUME HealthInit PROVE HealthInv
    OBVIOUS
  <1>1. \A c \in Checkers : check[c] = NoCheck
    BY DEF HealthInit
  <1>2. HealthTypeOK
    BY NoCheckTyped DEF HealthInit, HealthTypeOK, Check
  <1>3. \A c \in Checkers : /\ check[c].pc = "idle" /\ check[c].spent = 0
                            /\ check[c].status = "none"
    BY <1>1, NoCheckTyped
  <1>. QED
    BY <1>2, <1>3 DEF HealthInv, TimeLeft, PlaceOfCheck, UpWasSeen, Waiting, Probing

(* Every step keeps the invariant.                                         *)
LEMMA HealthInvNext == HealthInv /\ [HealthNext]_healthVars => HealthInv'
  <1>. SUFFICES ASSUME HealthInv, [HealthNext]_healthVars PROVE HealthInv'
    OBVIOUS
  <1>1. ASSUME NEW c \in Checkers, Step(c) PROVE HealthInv'
    BY <1>1, CheckStep
  <1>2. CASE Tick
    BY <1>2, TickStep
  <1>3. ASSUME UNCHANGED <<probe, check>>, pool' \in {"open", "closed"},
               pool' = "open" => pool = "open"
        PROVE  HealthInv'
    BY <1>3 DEF HealthInv, HealthTypeOK, TimeLeft, PlaceOfCheck, UpWasSeen
  <1>4. ASSUME NEW o \in Others, OtherUses(o) PROVE HealthInv'
    BY <1>3, <1>4 DEF OtherUses, HealthInv, HealthTypeOK
  <1>5. CASE ServerTurns \/ ClosePool \/ UNCHANGED healthVars
    BY <1>3, <1>5 DEF ServerTurns, ClosePool, healthVars, HealthInv, HealthTypeOK
  <1>. QED
    BY <1>1, <1>2, <1>4, <1>5 DEF HealthNext

(* The invariant holds in every reachable state (health.go, HealthCheck).  *)
THEOREM HealthInvariance == HealthSpec => []HealthInv
  BY HealthInvInit, HealthInvNext, PTL DEF HealthSpec

(* No check takes longer than its caller allows, or than the default, with *)
(* whatever pool, server and probe, unless the probe ignores its context.  *)
THEOREM ReportsComeOnTime == HealthSpec => []ReportOnTime
  <1>1. HealthInv => ReportOnTime
    <2>. SUFFICES ASSUME HealthInv, NEW c \in Checkers, probe # "ignores"
                  PROVE  check[c].spent <= deadline(check[c].asked)
      BY DEF ReportOnTime, deadline
    <2>1. Good(check[c]) /\ deadline(check[c].asked) \in Nat
      BY InvIsGood, TimeoutsAssumption DEF deadline, Good, Check, None
    <2>. QED
      BY <2>1 DEF Good, Check
  <1>. QED
    BY <1>1, HealthInvariance, PTL

(* "up" is said only of a pool that was open, whose server answered this   *)
(* check and whose probe, if there is one, found nothing.                  *)
THEOREM UpIsSeen == HealthSpec => []UpWasSeen
  <1>1. HealthInv => UpWasSeen
    BY DEF HealthInv
  <1>. QED
    BY <1>1, HealthInvariance, PTL
=============================================================================
