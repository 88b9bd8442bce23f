-------------------------- MODULE MCObservability --------------------------
(* What can be seen of a Client from outside, for TLC: the lines its        *)
(* logger writes (TraceLog), the place in the program they name             *)
(* (CallerSource), and its health check (HealthCheck).  The parts do not    *)
(* interact: a behaviour is one of one part, while the others stay as they  *)
(* are.                                                                     *)
EXTENDS TraceLog, CallerSource, HealthCheck

MCErrors ==
    {{}} \cup {{c} : c \in Causes}
         \cup {{"mysql", "canceled"}, {"other", "notFound"}, {"other", "canceled"}, {"mysql", "duplicated"}}
MCLevels     == 0..5
MCThresholds == {-1, 0, 1}

(* GORM, the root package of ormx and one below it, with their tests,       *)
(* modules whose names begin like theirs, the runtime, and an application   *)
(* with tests and generated code.                                           *)
MCFrames ==
    {<<<<"gorm.io", "/">>, ".go">>,
     <<<<"github.com/gtkit/ormx", ".">>, ".go">>, <<<<"github.com/gtkit/ormx", ".">>, "_test.go">>,
     <<<<"github.com/gtkit/ormx", "/">>, ".go">>, <<<<"github.com/gtkit/ormx", "/">>, "_test.go">>,
     <<<<"github.com/gtkit/ormx", "+">>, ".go">>,
     <<<<"runtime", ".">>, ".go">>, <<<<"runtime", "/">>, ".go">>,
     <<<<"app", ".">>, ".go">>, <<<<"app", ".">>, "_test.go">>, <<<<"app", "/">>, ".gen.go">>}

(* Ended already, later than the default, and none.                         *)
MCTimeouts == {None, 0, 2}
MCProbes   == {NoProbe, "obeys", "ignores"}

-----------------------------------------------------------------------------
VARIABLE part

(* A part that is not looked at does not multiply the initial states.       *)
MCInit ==
    /\ part \in {"trace", "caller", "health"}
    /\ Init /\ HealthInit /\ (part # "health" => probe = NoProbe)
    /\ IF part = "caller" THEN CallerInit ELSE stack = << >> /\ next = 0 /\ source = -1

InTrace  == part = "trace" /\ UNCHANGED <<part, callerVars, healthVars>>
InCaller == part = "caller" /\ UNCHANGED <<part, vars, healthVars>>
InHealth == part = "health" /\ UNCHANGED <<part, vars, callerVars>>

MCNext ==
    \/ InTrace /\ WithLogger
    \/ InTrace /\ WithSlowThreshold
    \/ InTrace /\ WithLogLevel
    \/ InTrace /\ WithIgnoreRecordNotFoundError
    \/ InTrace /\ WithParameterizedQueries
    \/ InTrace /\ WithTraceIDExtractor
    \/ InTrace /\ New
    \/ InTrace /\ LogMode
    \/ InTrace /\ Trace
    \/ InTrace /\ Message
    \/ InCaller /\ Look
    \/ \E c \in Checkers :
        \/ InHealth /\ Start(c)
        \/ InHealth /\ Acquire(c)
        \/ InHealth /\ AcquireClosed(c)
        \/ InHealth /\ PingAnswered(c)
        \/ InHealth /\ PingError(c)
        \/ InHealth /\ ProbeQuery(c)
        \/ InHealth /\ ProbeAnswer(c)
        \/ InHealth /\ ProbeReturns(c)
        \/ InHealth /\ ProbePanics(c)
        \/ InHealth /\ Finish(c)
        \/ InHealth /\ Expire(c)
    \/ \E o \in Others : InHealth /\ OtherUses(o)
    \/ InHealth /\ ServerTurns
    \/ InHealth /\ ClosePool
    \/ InHealth /\ Tick

(* Fairness of HealthCheck, where it is explained.                          *)
MCFairness ==
    /\ SF_healthVars(InHealth /\ Tick)
    /\ \A c \in Checkers : WF_healthVars(InHealth /\ Expire(c)) /\ WF_healthVars(InHealth /\ Finish(c))

MCSpec == MCInit /\ [][MCNext]_<<part, vars, callerVars, healthVars>> /\ MCFairness
=============================================================================
