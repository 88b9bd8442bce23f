-------------------------- MODULE MCConfiguration --------------------------
(* What a Client is made of, for TLC: the options and the DSN (DsnConfig), *)
(* what Configs share (Settings), and the retry loops their numbers end up *)
(* in (RetryBackoff).  The parts do not interact: a behaviour is one of    *)
(* one part, while the others stay as they are.                            *)
EXTENDS Settings, RetryBackoff, DsnConfig

MCRetryArgs == {<<2, 3, 4>>, <<-1, 0, 4>>, <<0, 3, -1>>}
MCValues    == {-1, 0, 7}

MCBaseWaits == (-1)..31
MCMaxWaits  == (-1)..31
MCRetries   == {0, 2, 31}

MCAddresses == {<<"h1", "p1">>, <<"/sock">>}

(* A TCP DSN that asks for opportunistic TLS and a charset list, one that  *)
(* verifies the server but allows plaintext, and a socket DSN.             *)
MCDsns ==
    {[id |-> "list", Net |-> "tcp", Addr |-> <<"h1", "p1">>, TLSConfig |-> "preferred",
      charset |-> "c1,c2", fallback |-> FALSE, other |-> TRUE, keys |-> {"k1"}],
     [id |-> "tls", Net |-> "tcp", Addr |-> <<"h1", "p1">>, TLSConfig |-> "true",
      charset |-> "", fallback |-> TRUE, other |-> FALSE, keys |-> {}],
     [id |-> "socket", Net |-> "unix", Addr |-> <<"/sock">>, TLSConfig |-> "",
      charset |-> "c1", fallback |-> FALSE, other |-> TRUE, keys |-> {}]}

VARIABLE part

MCInit ==
    /\ part \in {"dsn", "settings", "retry"}
    /\ DsnInit /\ Init
    /\ IF part = "retry" THEN RetryInit
       ELSE RetryInit /\ <<baseWait, maxWait, maxRetries>> = <<1, 5, 0>>

InDsn      == part = "dsn" /\ UNCHANGED <<part, vars, retryVars>>
InSettings == part = "settings" /\ UNCHANGED <<part, dsnVars, retryVars>>
InRetry    == part = "retry" /\ UNCHANGED <<part, dsnVars, vars>>

MCNext ==
    \/ \E i \in Slots :
        \/ InDsn /\ WithNetwork(i)
        \/ InDsn /\ WithAddress(i)
        \/ InDsn /\ WithHost(i)
        \/ InDsn /\ WithPort(i)
        \/ InDsn /\ WithTLSConfig(i)
        \/ InDsn /\ WithCharset(i)
        \/ InDsn /\ WithSystemVariable(i)
        \/ InDsn /\ WithDSN(i)
        \/ InDsn /\ WithBadDSN(i)
        \/ InDsn /\ Return(i)
        \/ \E from \in Configs : InDsn /\ DsnWith(from, i)
    \/ \E i \in Configs : InDsn /\ RedactedDSN(i)
    \/ \E v \in Vars :
        \/ InSettings /\ MakeDefault(v)
        \/ InSettings /\ MakeZero(v)
        \/ InSettings /\ WriteThrough(v)
        \/ InSettings /\ SetField(v)
        \/ \E w \in Vars : InSettings /\ With(v, w)
        \/ \E w \in Vars : InSettings /\ Assign(v, w)
        \/ \E k \in Clients : InSettings /\ Open(k, v)
        \/ \E k \in Clients : InSettings /\ Config(k, v)
    \/ \E k \in Clients : InSettings /\ OpenWithDB(k)
    \/ InRetry /\ Settle
    \/ InRetry /\ GiveUp
    \/ InRetry /\ Sleep
    \/ InRetry /\ TimerFires
    \/ InRetry /\ Canceled

MCSpec == MCInit /\ [][MCNext]_<<part, dsnVars, vars, retryVars>>
=============================================================================
