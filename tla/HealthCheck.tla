---------------------------- MODULE HealthCheck ----------------------------
(***************************************************************************)
(* Client.HealthCheck (health.go): goroutines check one Client while       *)
(* others use its connection pool, the server stops answering and the pool *)
(* is closed.                                                              *)
(*                                                                         *)
(* Time is counted in ticks: left is what remains until the context of a   *)
(* check ends, spent what its caller has waited, up to the bound Horizon.  *)
(* database/sql (external) waits for a connection and for the answer of    *)
(* the server no longer than the context it is given.                      *)
(***************************************************************************)
EXTENDS Integers, FiniteSets

CONSTANTS
    Checkers,       \* goroutines that check again and again
    Others,         \* other users of the pool
    MaxOpenConns,
    Timeouts,       \* deadlines that callers set, None for no deadline
    DefaultTimeout, \* defaultHealthCheckTimeout
    Probes          \* Config.HealthProbe: NoProbe, "obeys" or "ignores" its context

None    == -1             \* no deadline
NoProbe == "none"
Horizon == 1 + CHOOSE n \in Timeouts \cup {DefaultTimeout} :
                    \A m \in Timeouts \cup {DefaultTimeout} : m <= n

ASSUME TimeoutsAssumption ==
    /\ DefaultTimeout \in Nat \ {0}
    /\ Timeouts \subseteq {None} \cup Nat
    /\ MaxOpenConns \in Nat \ {0}
    /\ Probes \subseteq {NoProbe, "obeys", "ignores"}

VARIABLES
    probe,      \* the probe of the Client
    pool,       \* "open" or "closed"
    server,     \* "up" or "hung"
    conns,      \* who holds a connection
    check       \* of a checker

healthVars == <<probe, pool, server, conns, check>>

-----------------------------------------------------------------------------
NoCheck == [pc |-> "idle", asked |-> None, left |-> None, derived |-> FALSE, spent |-> 0,
            status |-> "none", openAtStart |-> FALSE, pinged |-> FALSE, probed |-> FALSE]

HealthInit ==
    /\ probe \in Probes
    /\ pool = "open" /\ server = "up" /\ conns = {}
    /\ check = [c \in Checkers |-> NoCheck]

Set(c, r) == check' = [check EXCEPT ![c] = r]

(* Mutant: a check without a deadline has none.                            *)
callerDeadline(asked) == asked

deadline(asked) == IF asked = None THEN DefaultTimeout ELSE asked

Start(c) ==
    /\ check[c].pc \in {"idle", "done", "panicked"}
    /\ \E asked \in Timeouts :
        Set(c, [NoCheck EXCEPT !.pc = "wait", !.asked = asked, !.left = deadline(asked),
                               !.derived = (asked = None), !.openAtStart = (pool = "open")])
    /\ UNCHANGED <<probe, pool, server, conns>>

(* The deferred cancel of a context the check derived itself.              *)
stillDerived(r) == FALSE

End(c, pc, status) ==
    LET r == [check[c] EXCEPT !.pc = pc, !.status = status]
    IN  Set(c, [r EXCEPT !.derived = stillDerived(r)])

Report(c, status) == End(c, "done", status)

Release(c) == conns \ {c}

(* database/sql: a free connection, for the ping or for a statement of the *)
(* probe.                                                                  *)
Acquire(c) ==
    /\ check[c].pc \in {"wait", "probe wait"}
    /\ pool = "open" /\ Cardinality(conns) < MaxOpenConns
    /\ conns' = conns \cup {c}
    /\ Set(c, [check[c] EXCEPT !.pc = IF @ = "wait" THEN "ping" ELSE "probe query"])
    /\ UNCHANGED <<probe, pool, server>>

AcquireClosed(c) ==
    /\ check[c].pc \in {"wait", "probe wait"} /\ pool = "closed"
    /\ IF check[c].pc = "wait" THEN Report(c, "down")
       ELSE Set(c, [check[c] EXCEPT !.pc = "probe"])
    /\ UNCHANGED <<probe, pool, server, conns>>

PingAnswered(c) ==
    /\ check[c].pc = "ping" /\ server = "up"
    /\ conns' = Release(c)
    /\ IF probe = NoProbe THEN Set(c, [check[c] EXCEPT !.pc = "report", !.pinged = TRUE])
       ELSE Set(c, [check[c] EXCEPT !.pc = "probe", !.pinged = TRUE])
    /\ UNCHANGED <<probe, pool, server>>

(* The server refuses, or the connection breaks.                           *)
PingError(c) ==
    /\ check[c].pc = "ping"
    /\ conns' = conns \ {c}
    /\ Report(c, "down")
    /\ UNCHANGED <<probe, pool, server>>

(* The probe (external) may use the Client it is given.                    *)
ProbeQuery(c) ==
    /\ check[c].pc = "probe"
    /\ Set(c, [check[c] EXCEPT !.pc = "probe wait"])
    /\ UNCHANGED <<probe, pool, server, conns>>

ProbeAnswer(c) ==
    /\ check[c].pc = "probe query" /\ server = "up"
    /\ conns' = conns \ {c}
    /\ Set(c, [check[c] EXCEPT !.pc = "probe"])
    /\ UNCHANGED <<probe, pool, server>>

(* Mutant: the error of the probe does not count.                          *)
upAfterPing(err) == "up"

probeStatus(err) == IF err THEN "down" ELSE "up"

ProbeReturns(c) ==
    /\ check[c].pc = "probe"
    /\ \E err \in BOOLEAN :
        Set(c, [check[c] EXCEPT !.pc = "report", !.status = probeStatus(err), !.probed = ~err])
    /\ UNCHANGED <<probe, pool, server, conns>>

ProbePanics(c) ==
    /\ check[c].pc = "probe"
    /\ End(c, "panicked", "none")
    /\ UNCHANGED <<probe, pool, server, conns>>

initialStatus == "up"

(* The statistics of the pool go into the report, without waiting.         *)
Finish(c) ==
    /\ check[c].pc = "report"
    /\ Report(c, IF probe = NoProbe THEN initialStatus ELSE check[c].status)
    /\ UNCHANGED <<probe, pool, server, conns>>

(* Mutant: the probe runs under the context of the caller.                 *)
probeOfCaller(r) == r.asked

(* What remains for the probe of the time of the check.                    *)
probeLeft(r) == r.left

(* Whether whoever waits for the check c looks at its context.             *)
Obeys(c) ==
    \/ check[c].pc \in {"wait", "ping"}
    \/ check[c].pc \in {"probe", "probe wait", "probe query"} /\ probe = "obeys"

Remaining(c) == IF check[c].pc \in {"wait", "ping"} THEN check[c].left ELSE probeLeft(check[c])

(* The context ends what waits under it.                                   *)
Expire(c) ==
    /\ Obeys(c) /\ Remaining(c) = 0
    /\ conns' = conns \ {c}
    /\ IF check[c].pc \in {"wait", "ping"} THEN Report(c, "down")
       ELSE Set(c, [check[c] EXCEPT !.pc = "report", !.status = "down"])
    /\ UNCHANGED <<probe, pool, server>>

(* Time passes; who looks at an ended context has seen it by then, and the *)
(* report does not wait.                                                   *)
Tick ==
    /\ \A c \in Checkers : check[c].pc # "report" /\ ~(Obeys(c) /\ Remaining(c) = 0)
    /\ check' = [c \in Checkers |->
            IF check[c].pc \in {"idle", "done", "panicked"} THEN check[c]
            ELSE [check[c] EXCEPT !.left = IF @ \in {None, 0} THEN @ ELSE @ - 1,
                                  !.spent = IF @ = Horizon THEN @ ELSE @ + 1]]
    /\ UNCHANGED <<probe, pool, server, conns>>

(* The environment: others hold connections as long as they like.          *)
OtherUses(o) ==
    /\ \/ pool = "open" /\ o \notin conns /\ Cardinality(conns) < MaxOpenConns
          /\ conns' = conns \cup {o}
       \/ o \in conns /\ conns' = conns \ {o}
    /\ UNCHANGED <<probe, pool, server, check>>

ServerTurns ==
    /\ server' \in {"up", "hung"} \ {server}
    /\ UNCHANGED <<probe, pool, conns, check>>

ClosePool ==
    /\ pool = "open" /\ pool' = "closed"
    /\ UNCHANGED <<probe, server, conns, check>>

Step(c) ==
    \/ Start(c) \/ Acquire(c) \/ AcquireClosed(c) \/ PingAnswered(c) \/ PingError(c)
    \/ ProbeQuery(c) \/ ProbeAnswer(c) \/ ProbeReturns(c) \/ ProbePanics(c)
    \/ Finish(c) \/ Expire(c)

HealthNext ==
    \/ \E c \in Checkers : Step(c)
    \/ \E o \in Others : OtherUses(o)
    \/ ServerTurns \/ ClosePool \/ Tick

(* Time passes however many checks come and go in between, a timer that is *)
(* due fires and the code after it runs; that a connection becomes free or *)
(* that the server answers is not assumed.                                 *)
Fairness ==
    SF_healthVars(Tick) /\ \A c \in Checkers : WF_healthVars(Expire(c)) /\ WF_healthVars(Finish(c))

HealthSpec == HealthInit /\ [][HealthNext]_healthVars /\ Fairness

-----------------------------------------------------------------------------
(* What a check knows at each of its places: how much of its time is left, *)
(* that it came past a ping only on a pool that was open when it began,    *)
(* and that it has no status before it reports.                            *)

Waiting == {"wait", "ping"}
Probing == {"probe", "probe wait", "probe query"}

HealthTypeOK ==
    /\ probe \in Probes /\ pool \in {"open", "closed"}
    /\ check \in [Checkers ->
         [pc : {"idle", "report", "done", "panicked"} \cup Waiting \cup Probing,
          asked : Timeouts \cup {None}, left : Int, derived : BOOLEAN, spent : Nat,
          status : {"none", "up", "down"},
          openAtStart : BOOLEAN, pinged : BOOLEAN, probed : BOOLEAN]]

TimeLeft ==
    \A c \in Checkers : check[c].pc # "idle" =>
        /\ check[c].left >= 0
        /\ probe # "ignores" => check[c].spent + check[c].left <= deadline(check[c].asked)

PlaceOfCheck ==
    \A c \in Checkers :
        /\ check[c].pc \in Waiting \cup Probing => check[c].status = "none"
        /\ check[c].pc = "wait" /\ pool = "open" => check[c].openAtStart
        /\ check[c].pc \in Probing \cup {"ping", "report"} => check[c].openAtStart
        /\ check[c].pc \in Probing \cup {"report"} => check[c].pinged
        /\ check[c].pc \in Probing => probe # NoProbe
        /\ check[c].pc = "idle" => check[c].spent = 0 /\ check[c].status = "none"

-----------------------------------------------------------------------------
(* Properties.                                                             *)

Running(c) == check[c].pc \notin {"idle", "done", "panicked"}

(* A check takes no longer than its caller allows, or than the default if  *)
(* its caller allows any time: ping and probe share that one limit, on a   *)
(* pool without connections and a server that hangs too.  Only a probe     *)
(* that ignores its context exceeds it.                                    *)
ReportOnTime ==
    \A c \in Checkers : probe # "ignores" =>
        check[c].spent <= IF check[c].asked = None THEN DefaultTimeout ELSE check[c].asked

(* "up" is only said of a pool that was open when the check began, whose   *)
(* server answered this very check and whose probe found nothing.          *)
UpWasSeen ==
    \A c \in Checkers : check[c].status = "up" =>
        /\ check[c].openAtStart /\ check[c].pinged
        /\ probe # NoProbe => check[c].probed

(* Every check ends, without a deadline, a connection or a server, unless  *)
(* it is in a probe that ignores its context; and then it has neither a    *)
(* connection nor a context left, even if the probe panicked.              *)
CheckReturns ==
    \A c \in Checkers :
        Running(c) ~> \/ ~Running(c) /\ ~check[c].derived /\ c \notin conns
                      \/ probe = "ignores" /\ check[c].pinged
=============================================================================
