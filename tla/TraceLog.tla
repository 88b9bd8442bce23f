------------------------------ MODULE TraceLog ------------------------------
(***************************************************************************)
(* The zap logger for GORM (zlogger/zaplog.go, zap_option.go, use.go): a   *)
(* logger is built from options, GORM derives copies of other levels from  *)
(* it, and each traces the statements of its sessions.                     *)
(*                                                                         *)
(* Levels are GORM's: 1 Silent, 2 Error, 3 Warn, 4 Info; others may be set *)
(* too.  An error is the set of what it can be unwrapped to.  A line is    *)
(* what its fields show and the zap logger it reaches, its wording and the *)
(* source (CallerSource) aside.                                            *)
(***************************************************************************)
EXTENDS Integers, Sequences, FiniteSets

CONSTANTS
    Levels,         \* arguments of WithLogLevel and LogMode
    Thresholds,     \* arguments of WithSlowThreshold, negative ones included
    SlowTime,       \* the default, slowTime
    Errors,         \* what statements fail with, {} for success
    Durations,      \* how long they take
    MaxOptions, MaxCopies, MaxLines     \* bounds: options of New, calls of LogMode and of Trace

(* What an error may be unwrapped to.                                      *)
Causes == {"mysql", "canceled", "deadline", "notFound", "duplicated", "foreignKey", "other"}

ASSUME LevelsAssumption == Levels \subseteq Int /\ Errors \subseteq SUBSET Causes
ASSUME TimesAssumption  == Thresholds \subseteq Int /\ Durations \subseteq Int /\ SlowTime \in Nat
ASSUME BoundsAssumption == MaxOptions \in Nat /\ MaxCopies \in Nat /\ MaxLines \in Nat

Silent == 1
Error  == 2
Warn   == 3
Info   == 4

VARIABLES
    stage,      \* "new" while options are applied, then "ready"
    options,    \* how many there were
    asked,      \* the last threshold asked for that is none of nonsense
    loggers,    \* the logger and its copies
    traced      \* the last statement or message logged, by which, and the line

vars == <<stage, options, asked, loggers, traced>>

NoLine == [sink |-> "nop", severity |-> "none", sql |-> "none", error |-> "none", code |-> FALSE, id |-> FALSE]

Init ==
    /\ stage = "new" /\ options = 0 /\ asked = SlowTime
    /\ loggers = <<[zapLogger |-> "nop", sugar |-> "nil", slowThreshold |-> SlowTime, logLevel |-> Warn,
                    traceIDExtractor |-> FALSE, ignoreRecordNotFoundError |-> FALSE,
                    parameterizedQueries |-> TRUE]>>
    /\ traced = [nth |-> 0, by |-> 0, of |-> "none", err |-> {}, elapsed |-> 0, id |-> FALSE, line |-> NoLine]

-----------------------------------------------------------------------------
(* The options of New; nil options are skipped.                            *)

Apply(l) ==
    /\ stage = "new" /\ options < MaxOptions
    /\ options' = options + 1
    /\ loggers' = <<l>>
    /\ UNCHANGED <<stage, traced>>

WithLogger ==
    \E sink \in {"nop", "zap"} : Apply([loggers[1] EXCEPT !.zapLogger = sink]) /\ UNCHANGED asked

validThreshold(t, old) == IF t < 0 THEN old ELSE t

WithSlowThreshold ==
    \E t \in Thresholds :
        /\ Apply([loggers[1] EXCEPT !.slowThreshold = validThreshold(t, @)])
        /\ asked' = IF t < 0 THEN asked ELSE t

WithLogLevel == \E n \in Levels : Apply([loggers[1] EXCEPT !.logLevel = n]) /\ UNCHANGED asked

WithIgnoreRecordNotFoundError ==
    \E b \in BOOLEAN : Apply([loggers[1] EXCEPT !.ignoreRecordNotFoundError = b]) /\ UNCHANGED asked

WithParameterizedQueries ==
    \E b \in BOOLEAN : Apply([loggers[1] EXCEPT !.parameterizedQueries = b]) /\ UNCHANGED asked

WithTraceIDExtractor ==
    \E b \in BOOLEAN : Apply([loggers[1] EXCEPT !.traceIDExtractor = b]) /\ UNCHANGED asked

(* The sugared logger New caches, once every option has been applied.      *)
cachedSugar(l) == l.zapLogger

New ==
    /\ stage = "new" /\ stage' = "ready"
    /\ loggers' = <<[loggers[1] EXCEPT !.sugar = cachedSugar(loggers[1])]>>
    /\ UNCHANGED <<options, asked, traced>>

-----------------------------------------------------------------------------
cloneWithLevel(i, level) == Append(loggers, [loggers[i] EXCEPT !.logLevel = level])

LogMode ==
    /\ stage = "ready" /\ Len(loggers) <= MaxCopies
    /\ \E i \in DOMAIN loggers, level \in Levels : loggers' = cloneWithLevel(i, level)
    /\ UNCHANGED <<stage, options, asked, traced>>

(* What fc shows of the statement: GORM puts the parameters in that        *)
(* ParamsFilter lets through.                                              *)
ParamsFilter(l) == IF l.parameterizedQueries THEN "placeholders" ELSE "with values"

(* Mutant: an error that is not known is printed.                          *)
errorFieldsRaw(l, err) ==
    IF l.parameterizedQueries /\ "mysql" \in err THEN [error |-> "mysql error", code |-> TRUE]
    ELSE [error |-> "details", code |-> FALSE]

(* The causes told apart where the details are hidden, in the order asked. *)
Known == <<"canceled", "deadline", "notFound", "duplicated", "foreignKey">>

Summary(err) ==
    LET at == {i \in DOMAIN Known : Known[i] \in err}
    IN  IF at = {} THEN "database error" ELSE Known[CHOOSE i \in at : \A j \in at : i <= j]

errorFields(l, err) ==
    IF ~l.parameterizedQueries THEN [error |-> "details", code |-> FALSE]
    ELSE IF "mysql" \in err THEN [error |-> "mysql error", code |-> TRUE]
    ELSE [error |-> Summary(err), code |-> FALSE]

silenced(l, err) == l.logLevel <= Silent

(* Mutant: slow statements are reported at Warn only.                      *)
severityExact(l, err, elapsed) ==
    IF err # {} /\ l.logLevel >= Error THEN "error"
    ELSE IF l.slowThreshold # 0 /\ elapsed > l.slowThreshold /\ l.logLevel = Warn THEN "warn"
    ELSE IF l.logLevel = Info THEN "info"
    ELSE "none"

(* The cases of Trace, in their order.                                     *)
severity(l, err, elapsed) ==
    LET ignored == "notFound" \in err /\ l.ignoreRecordNotFoundError
    IN  IF err # {} /\ l.logLevel >= Error /\ ~ignored THEN "error"
        ELSE IF l.slowThreshold # 0 /\ elapsed > l.slowThreshold /\ l.logLevel >= Warn THEN "warn"
        ELSE IF l.logLevel = Info THEN "info"
        ELSE "none"

traceFields(l, id) == [sql |-> ParamsFilter(l), id |-> l.traceIDExtractor /\ id]

(* Without a line nothing is asked of fc; a nop logger drops the line.     *)
Line(l, err, elapsed, id) ==
    LET s == severity(l, err, elapsed)
        f == traceFields(l, id)
        e == IF s = "error" THEN errorFields(l, err) ELSE [error |-> "none", code |-> FALSE]
    IN  IF silenced(l, err) \/ s = "none" \/ l.zapLogger = "nop" THEN NoLine
        ELSE [sink |-> l.zapLogger, severity |-> s, sql |-> f.sql, error |-> e.error, code |-> e.code, id |-> f.id]

Trace ==
    /\ stage = "ready" /\ traced.nth < MaxLines
    /\ \E i \in DOMAIN loggers, err \in Errors, elapsed \in Durations, id \in BOOLEAN :
        traced' = [nth |-> traced.nth + 1, by |-> i, of |-> "statement", err |-> err, elapsed |-> elapsed, id |-> id,
                   line |-> Line(loggers[i], err, elapsed, id)]
    /\ UNCHANGED <<stage, options, asked, loggers>>

(* getSugar: with an ID the logger is made anew, and the cache is not used.*)
getSugar(l, id) ==
    IF l.traceIDExtractor /\ id THEN [sink |-> l.zapLogger, id |-> TRUE] ELSE [sink |-> l.sugar, id |-> FALSE]

(* Info, Warn and Error: messages of GORM that are about no statement.     *)
Names == <<"none", "error", "warn", "info">>

MessageLine(l, level, id) ==
    LET g == getSugar(l, id)
    IN  IF l.logLevel < level \/ g.sink = "nop" THEN NoLine
        ELSE [NoLine EXCEPT !.sink = g.sink, !.severity = Names[level], !.id = g.id]

Message ==
    /\ stage = "ready" /\ traced.nth < MaxLines
    /\ \E i \in DOMAIN loggers, level \in Error..Info, id \in BOOLEAN :
        traced' = [nth |-> traced.nth + 1, by |-> i, of |-> Names[level], err |-> {}, elapsed |-> 0, id |-> id,
                   line |-> MessageLine(loggers[i], level, id)]
    /\ UNCHANGED <<stage, options, asked, loggers>>

Next ==
    \/ WithLogger \/ WithSlowThreshold \/ WithLogLevel \/ WithIgnoreRecordNotFoundError
    \/ WithParameterizedQueries \/ WithTraceIDExtractor
    \/ New \/ LogMode \/ Trace \/ Message

Spec == Init /\ [][Next]_vars

-----------------------------------------------------------------------------
(* Properties.                                                             *)

(* The types; every copy differs from the logger in its level only.        *)
TypeOK ==
    /\ stage \in {"new", "ready"} /\ options \in 0..MaxOptions
    /\ traced.by \in 0..Len(loggers) /\ traced.err \subseteq Causes
    /\ traced.line.severity \in {"none", "info", "warn", "error"}
    /\ \A i \in DOMAIN loggers :
        [loggers[i] EXCEPT !.logLevel = Warn] = [loggers[1] EXCEPT !.logLevel = Warn]

By == loggers[traced.by]
Traced == traced.of = "statement"

(* No line of a parameterized logger or of its copies shows a bound value, *)
(* neither in the statement nor in the text of the error, whatever the     *)
(* error is wrapped in; but the code of a MySQL error and the end of a     *)
(* context stay to be seen (ParamsFilter, errorFields).                    *)
ValuesHidden ==
    Traced /\ By.parameterizedQueries =>
        /\ traced.line.sql # "with values"
        /\ traced.line.error # "details"
        /\ traced.line.severity = "error" /\ "mysql" \in traced.err => traced.line.code
        /\ traced.line.severity = "error" /\ traced.err = {"canceled"} =>
            traced.line.error = "canceled"

(* A slow statement leaves a line at Warn and Info, be it an error that is *)
(* ignored or one that is not, and no other statement is called slow: the  *)
(* threshold is the last one set that is not negative, and 0 means none.   *)
SlowIsSeen ==
    Traced /\ By.zapLogger = "zap" =>
        LET slow == asked # 0 /\ traced.elapsed > asked
        IN  /\ slow /\ By.logLevel >= Warn => traced.line.severity \in {"warn", "error"}
            /\ traced.line.severity = "warn" => slow

(* Raising the level up to Info loses no line and changes none: whoever    *)
(* turns logging up to look at a problem sees what there was to see.       *)
RaisingKeepsLines ==
    Traced /\ traced.line # NoLine =>
        \A n \in Levels : By.logLevel < n /\ n <= Info =>
            Line([By EXCEPT !.logLevel = n], traced.err, traced.elapsed, traced.id) = traced.line

(* Statements and messages alike reach the zap logger given, at every      *)
(* level that lets them, and carry the ID of the context that asked for it *)
(* when an extractor was given (New, getSugar, extractTraceID).            *)
LinesReachLogger ==
    traced.of # "none" =>
        /\ traced.line # NoLine =>
            traced.line.sink = By.zapLogger /\ traced.line.id = (By.traceIDExtractor /\ traced.id)
        /\ traced.of = "error" /\ By.logLevel >= Error /\ By.zapLogger = "zap" => traced.line # NoLine
=============================================================================
