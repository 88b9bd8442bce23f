----------------------------- MODULE DsnConfig -----------------------------
(***************************************************************************)
(* Config values and what the driver is given for them (options.go,        *)
(* config.go, dsn.go).                                                     *)
(*                                                                         *)
(* With clones a Config and applies options to the clone, in order; the    *)
(* result is a value its user expects to stay as it is, although clones    *)
(* share the state WithDSN parsed and maps are references.  driverConfig   *)
(* lays the fields of MySQLConfig over the driver configuration parsed     *)
(* from the DSN, whose derived parts (TLS state, plaintext fallback,       *)
(* charset list) may no longer fit.                                        *)
(*                                                                         *)
(* Fields that are copied one by one without a condition (user, password,  *)
(* database, timeouts, ...) are left out, and so is Collation; an address  *)
(* is <<host, port>> or <<socket path>>, and << >> is an empty Addr.       *)
(***************************************************************************)
EXTENDS Integers, Sequences

CONSTANTS
    Slots,          \* Config values made by With
    Hosts, Ports, Keys,
    Addresses,      \* arguments of WithAddress
    TLSNames,       \* arguments of WithTLSConfig
    Charsets,       \* arguments of WithCharset, see NotApplicable
    Dsns,           \* what the DSNs that can be parsed say
    MaxOptions      \* bound: options applied in one behaviour

Default == "default"            \* DefaultConfig()
Configs == Slots \cup {Default}
None    == "none"
BadDsn  == "bad"                \* the sticky error of a DSN that cannot be parsed

(* References to SystemVariables maps: the map a slot allocates has its    *)
(* name, Copy is the clone redacted() works on.  "-": the key is absent.   *)
Copy  == "copy"
Names == Keys \cup {""}
Maps  == [Names -> {"-", "value", "******"}]
EmptyMap == [k \in Names |-> "-"]

(* What a DSN is called is not the name of another one.  An empty host or  *)
(* port is not asked for: it takes the address away, as it says.           *)
ASSUME SlotsAssumption == Slots \cap {Default, Copy, None, BadDsn} = {}
ASSUME DsnsAssumption ==
    \A d \in Dsns :
        /\ d.id # None /\ \A e \in Dsns : d.id = e.id => d = e
        /\ d.fallback \in BOOLEAN /\ d.other \in BOOLEAN
ASSUME HostsAssumption == "" \notin Hosts \cup Ports

(* Charsets an option cannot apply: none, a comma list, no identifier.     *)
NotApplicable == {"", "c1,c2", "c!"}

VARIABLES
    phase,      \* of a Config: unused, building (inside With), sealed (returned)
    cfg,        \* its MySQLConfig and dsn fields; SystemVariables is a reference
    dsnHeap,    \* the maps
    parsed,     \* the driver configurations of dsnState.base, by the slot that parsed
    applied,    \* number of options applied so far
    history,    \* of a Config: what the options so far asked for
    sealed,     \* the value of the Config when With returned it
    exposed     \* a redacted form has shown a secret

dsnVars == <<phase, cfg, dsnHeap, parsed, applied, history, sealed, exposed>>

-----------------------------------------------------------------------------
(* The driver (external): it derives TLS state from the TLS name and the   *)
(* endpoint, when it parses a DSN and when it connects, but only if there  *)
(* is none yet.                                                            *)

NoTLS == [name |-> "", server |-> ""]

TLSOf(name, net, addr) ==
    IF name \in {"", "false"} THEN NoTLS
    ELSE [name   |-> name,
          server |-> IF name \notin {"preferred", "skip-verify"} /\ (Len(addr) = 2 \/ net = "tcp")
                     THEN addr[1] ELSE ""]

normalize(d) ==
    IF d.TLS # NoTLS THEN d
    ELSE [d EXCEPT !.TLS = TLSOf(d.TLSConfig, d.Net, d.Addr),
                   !.fallback = @ \/ d.TLSConfig = "preferred"]

NewDriverConfig ==
    [Net |-> "tcp", Addr |-> << >>, TLSConfig |-> "", TLS |-> NoTLS, fallback |-> FALSE,
     charset |-> "", other |-> FALSE, Params |-> EmptyMap]

MapOf(keys) == [k \in Names |-> IF k \in keys THEN "value" ELSE "-"]

parseDSN(dsn) ==
    normalize([Net |-> dsn.Net, Addr |-> dsn.Addr, TLSConfig |-> dsn.TLSConfig, TLS |-> NoTLS,
               fallback |-> dsn.fallback, charset |-> dsn.charset, other |-> dsn.other,
               Params |-> MapOf(dsn.keys)])

-----------------------------------------------------------------------------
(* dsn.go: early returns in the order of the code.                         *)

network(c) == IF c.Net = "" THEN "tcp" ELSE c.Net

hasAddress(c) == c.Addr # << >> \/ (c.Net # "unix" /\ c.Host # "" /\ c.Port # "")

address(c) == IF c.Addr # << >> THEN c.Addr ELSE <<c.Host, c.Port>>

fromDSN(c) == c.dsn \notin {None, BadDsn}

SystemVariables(c, maps) == IF c.vars = None THEN EmptyMap ELSE maps[c.vars]

dsnCharset(c, bases) == IF fromDSN(c) THEN bases[c.dsn].charset ELSE ""

charsetFails(c, bases) == c.Charset # dsnCharset(c, bases) /\ c.Charset \in NotApplicable

configError(c, maps, bases) ==
    IF c.dsn = BadDsn THEN "dsn"
    ELSE IF ~hasAddress(c) THEN "address"
    ELSE IF SystemVariables(c, maps)[""] # "-" THEN "variable"
    ELSE IF charsetFails(c, bases) THEN "charset"
    ELSE None

(* Mutants: a new endpoint starts from an empty configuration; it is not   *)
(* compared.                                                               *)
rebaseAnew(base, c) == IF base.Addr = address(c) THEN base ELSE NewDriverConfig

rebaseTLSOnly(base, c) ==
    LET tlsChanged == base.TLSConfig # c.TLSConfig
    IN  [base EXCEPT !.TLS = IF tlsChanged THEN NoTLS ELSE @, !.fallback = @ /\ ~tlsChanged]

(* The parsed configuration without what a new TLS name or a new endpoint  *)
(* makes stale.                                                            *)
rebase(base, c) ==
    LET tlsChanged == base.TLSConfig # c.TLSConfig
        moved      == base.Net # network(c) \/ base.Addr # address(c)
    IN  [base EXCEPT !.TLS = IF tlsChanged \/ moved THEN NoTLS ELSE @,
                     !.fallback = @ /\ ~tlsChanged]

(* What the driver is given if there is no configError: a charset the      *)
(* parsed configuration already has is not applied again.                  *)
driverConfig(c, maps, bases) ==
    [(IF fromDSN(c) THEN rebase(bases[c.dsn], c) ELSE NewDriverConfig)
        EXCEPT !.Net = network(c), !.Addr = address(c), !.TLSConfig = c.TLSConfig,
               !.charset = IF c.Charset = dsnCharset(c, bases) THEN @ ELSE c.Charset,
               !.Params = SystemVariables(c, maps)]

-----------------------------------------------------------------------------
(* What a Config is to its user: its fields, its map, and the driver       *)
(* configuration it leads to.                                              *)
DsnValue(i) ==
    LET e == configError(cfg[i], dsnHeap, parsed)
    IN  [fields |-> [cfg[i] EXCEPT !.vars = None], map |-> SystemVariables(cfg[i], dsnHeap),
         err |-> e,
         driver |-> IF e = None THEN driverConfig(cfg[i], dsnHeap, parsed) ELSE NewDriverConfig]

DefaultFields ==
    [Net |-> "tcp", Host |-> "127.0.0.1", Port |-> "3306", Addr |-> << >>, TLSConfig |-> "",
     Charset |-> "", vars |-> None, dsn |-> None]

DefaultValue ==
    [fields |-> DefaultFields, map |-> EmptyMap, err |-> None,
     driver |-> [NewDriverConfig EXCEPT !.Addr = <<"127.0.0.1", "3306">>]]

(* The last DSN that was parsed and whether a bad one came after it,       *)
(* whether an Addr was given by WithAddress or a socket DSN, and whether   *)
(* WithCharset came after the DSN.                                         *)
Nothing == [dsn |-> None, bad |-> FALSE, addr |-> FALSE, charset |-> FALSE]

DsnInit ==
    /\ phase = [i \in Configs |-> IF i = Default THEN "sealed" ELSE "unused"]
    /\ cfg = [i \in Configs |-> DefaultFields]
    /\ dsnHeap = [m \in Slots \cup {Copy} |-> EmptyMap]
    /\ parsed = [i \in Slots |-> NewDriverConfig]
    /\ applied = 0
    /\ history = [i \in Configs |-> Nothing]
    /\ sealed = [i \in Configs |-> DefaultValue]
    /\ exposed = FALSE

-----------------------------------------------------------------------------
(* Config.With: clone first, then apply the options, then return.          *)

DsnClone(from, to) ==
    IF cfg[from].vars = None
    THEN cfg' = [cfg EXCEPT ![to] = cfg[from]] /\ UNCHANGED dsnHeap
    ELSE /\ cfg' = [cfg EXCEPT ![to] = [cfg[from] EXCEPT !.vars = to]]
         /\ dsnHeap' = [dsnHeap EXCEPT ![to] = dsnHeap[cfg[from].vars]]

DsnWith(from, to) ==
    /\ phase[from] = "sealed" /\ phase[to] = "unused"
    /\ DsnClone(from, to)
    /\ phase' = [phase EXCEPT ![to] = "building"]
    /\ history' = [history EXCEPT ![to] = history[from]]
    /\ UNCHANGED <<parsed, applied, sealed, exposed>>

Return(i) ==
    /\ phase[i] = "building"
    /\ phase' = [phase EXCEPT ![i] = "sealed"]
    /\ sealed' = [sealed EXCEPT ![i] = DsnValue(i)]
    /\ UNCHANGED <<cfg, dsnHeap, parsed, applied, history, exposed>>

-----------------------------------------------------------------------------
(* The options.                                                            *)

MayApply(i) == phase[i] = "building" /\ applied < MaxOptions /\ applied' = applied + 1

SetFields(i, c) ==
    /\ cfg' = [cfg EXCEPT ![i] = c]
    /\ UNCHANGED <<phase, dsnHeap, parsed, sealed, exposed>>

WithNetwork(i) ==
    /\ MayApply(i)
    /\ \E n \in {"", "tcp", "unix"} : SetFields(i, [cfg[i] EXCEPT !.Net = n])
    /\ UNCHANGED history

WithAddress(i) ==
    /\ MayApply(i)
    /\ \E a \in Addresses :
        /\ SetFields(i, [cfg[i] EXCEPT !.Addr = a])
        /\ history' = [history EXCEPT ![i].addr = (a # << >>)]

WithHost(i) ==
    /\ MayApply(i)
    /\ \E h \in Hosts : SetFields(i, [cfg[i] EXCEPT !.Host = h, !.Addr = << >>])
    /\ history' = [history EXCEPT ![i].addr = FALSE]

WithPort(i) ==
    /\ MayApply(i)
    /\ \E p \in Ports : SetFields(i, [cfg[i] EXCEPT !.Port = p, !.Addr = << >>])
    /\ history' = [history EXCEPT ![i].addr = FALSE]

WithTLSConfig(i) ==
    /\ MayApply(i)
    /\ \E t \in TLSNames : SetFields(i, [cfg[i] EXCEPT !.TLSConfig = t])
    /\ UNCHANGED history

WithCharset(i) ==
    /\ MayApply(i)
    /\ \E s \in Charsets : SetFields(i, [cfg[i] EXCEPT !.Charset = s])
    /\ history' = [history EXCEPT ![i].charset = TRUE]

(* WithSystemVariable, and WithSystemVariables one key at a time.          *)
WithSystemVariable(i) ==
    /\ MayApply(i)
    /\ \E k \in Names :
        IF cfg[i].vars = None
        THEN /\ cfg' = [cfg EXCEPT ![i].vars = i]
             /\ dsnHeap' = [dsnHeap EXCEPT ![i] = MapOf({k})]
        ELSE /\ dsnHeap' = [dsnHeap EXCEPT ![cfg[i].vars][k] = "value"]
             /\ UNCHANGED cfg
    /\ UNCHANGED <<phase, parsed, history, sealed, exposed>>

(* Mutant: the address is not split.                                       *)
FieldsUnsplit(i, dsn) ==
    [Net |-> dsn.Net, Addr |-> dsn.Addr, Host |-> "", Port |-> "", TLSConfig |-> dsn.TLSConfig,
     Charset |-> dsn.charset, vars |-> IF dsn.keys = {} THEN None ELSE i, dsn |-> i]

(* parseDSNConfig: host and port are split off a TCP address.              *)
SplitHostPort(dsn) ==
    IF dsn.Net \in {"tcp", "tcp4", "tcp6"} /\ Len(dsn.Addr) = 2 THEN dsn.Addr ELSE <<"", "">>

FieldsOf(i, dsn) ==
    [Net |-> dsn.Net, Addr |-> dsn.Addr,
     Host |-> SplitHostPort(dsn)[1], Port |-> SplitHostPort(dsn)[2],
     TLSConfig |-> dsn.TLSConfig, Charset |-> dsn.charset,
     vars |-> IF dsn.keys = {} THEN None ELSE i, dsn |-> i]

(* WithDSN: an error keeps the fields and sticks, a DSN replaces both.     *)
WithDSN(i) ==
    /\ MayApply(i)
    /\ \E dsn \in Dsns :
        /\ cfg' = [cfg EXCEPT ![i] = FieldsOf(i, dsn)]
        /\ dsnHeap' = [dsnHeap EXCEPT ![i] = MapOf(dsn.keys)]
        /\ parsed' = [parsed EXCEPT ![i] = parseDSN(dsn)]
        /\ history' = [history EXCEPT ![i] = [Nothing EXCEPT !.dsn = dsn.id,
                                                            !.addr = dsn.Net = "unix"]]
    /\ UNCHANGED <<phase, sealed, exposed>>

WithBadDSN(i) ==
    /\ MayApply(i)
    /\ cfg' = [cfg EXCEPT ![i].dsn = BadDsn]
    /\ history' = [history EXCEPT ![i].bad = TRUE]
    /\ UNCHANGED <<phase, dsnHeap, parsed, sealed, exposed>>

-----------------------------------------------------------------------------
(* RedactedDSN, String and Client.Config: mask a copy.                     *)

Masked(map) == [k \in Names |-> IF map[k] = "value" THEN "******" ELSE map[k]]

(* Mutant: the map is not cloned.                                          *)
redactedInPlace(c) == c

redacted(c) == IF c.vars = None THEN c ELSE [c EXCEPT !.vars = Copy]

RedactedDSN(i) ==
    LET c == redacted(cfg[i])
    IN  /\ phase[i] = "sealed"
        /\ dsnHeap' = IF c.vars = None THEN dsnHeap
                   ELSE [dsnHeap EXCEPT ![c.vars] = Masked(SystemVariables(cfg[i], dsnHeap))]
        /\ exposed' = (\/ exposed
                       \/ /\ configError(c, dsnHeap', parsed) = None
                          /\ \E k \in Names : driverConfig(c, dsnHeap', parsed).Params[k] = "value")
        /\ UNCHANGED <<phase, cfg, parsed, applied, history, sealed>>

Option(i) ==
    \/ WithNetwork(i) \/ WithAddress(i) \/ WithHost(i) \/ WithPort(i) \/ WithTLSConfig(i)
    \/ WithCharset(i) \/ WithSystemVariable(i) \/ WithDSN(i) \/ WithBadDSN(i)

DsnNext ==
    \/ \E i \in Slots : Option(i) \/ Return(i) \/ \E from \in Configs : DsnWith(from, i)
    \/ \E i \in Configs : RedactedDSN(i)

DsnSpec == DsnInit /\ [][DsnNext]_dsnVars

-----------------------------------------------------------------------------
(* Properties.                                                             *)

(* A Config never changes after With returned it, whatever is derived from *)
(* it, applied to its clones, or printed: neither its fields and map, nor  *)
(* the driver configuration it leads to (With, Clone, dsnState); and no    *)
(* redacted form shows the value of a system variable.                     *)
SealedConfigsFixed ==
    /\ \A i \in Configs : phase[i] = "sealed" => DsnValue(i) = sealed[i]
    /\ ~exposed

DsnOf(i) == CHOOSE dsn \in Dsns : dsn.id = history[i].dsn

Builds(i) == phase[i] = "sealed" /\ DsnValue(i).err = None

(* The connection uses the TLS name of the Config and verifies the host it *)
(* dials, never one left from the DSN, and falls back to plaintext only if *)
(* that TLS name means it or the DSN that set the name allowed it.         *)
FreshTLS ==
    \A i \in Configs : Builds(i) =>
        LET d == normalize(DsnValue(i).driver)
        IN  /\ d.TLS = TLSOf(cfg[i].TLSConfig, d.Net, d.Addr)
            /\ d.fallback => \/ cfg[i].TLSConfig = "preferred"
                             \/ /\ history[i].dsn # None
                                /\ DsnOf(i).fallback /\ DsnOf(i).TLSConfig = cfg[i].TLSConfig

HasHostPort(dsn) == "" \notin {SplitHostPort(dsn)[1], SplitHostPort(dsn)[2]}

(* A build fails for a reason: a DSN that could not be parsed fails every  *)
(* build until a later DSN replaces it, whatever fields were set in        *)
(* between, and its error is gone with that DSN (WithDSN); a charset fails *)
(* one only after a WithCharset (a list a DSN came with does not); and     *)
(* with a TCP network an address can always be built, in any order of      *)
(* WithHost, WithPort and WithAddress, unless the fields came from a DSN   *)
(* without host and port, such as one of a socket (address,                *)
(* parseDSNConfig).                                                        *)
ErrorsHaveReasons ==
    \A i \in Configs : phase[i] = "sealed" =>
        /\ DsnValue(i).err = "dsn" <=> history[i].bad
        /\ DsnValue(i).err = "charset" => history[i].charset
        /\ DsnValue(i).err = "address" =>
               cfg[i].Net = "unix" \/ (history[i].dsn # None /\ ~HasHostPort(DsnOf(i)))

(* A build leads to the charset the Config shows, and passes on the        *)
(* settings the library has no field for from the last DSN.                *)
BuildsAsShown ==
    \A i \in Configs : Builds(i) =>
        /\ DsnValue(i).driver.charset = cfg[i].Charset
        /\ DsnValue(i).driver.other = (history[i].dsn # None /\ DsnOf(i).other)

(* What options.go:22 and dsn.go:21-22 say of the unix network: without    *)
(* WithAddress the build fails.                                            *)
UnixNeedsAddress ==
    \A i \in Configs : cfg[i].Net = "unix" /\ ~history[i].addr => ~Builds(i)
=============================================================================
