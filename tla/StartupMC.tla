------------------------------ MODULE StartupMC ------------------------------
(* An instance of Startup for TLC: the default configuration and those     *)
(* that differ from it in one or two fields.                               *)
EXTENDS Startup

Site(path) == <<"https:", "/", "/", "host">> \o path

Variants == [
    apiKeyLen |-> {9, 10}, apiKey |-> {"bad"},
    endpoint |-> {<<>>, <<"/">>, <<"ftp:", "/", "/", "host">>, <<"https:", "/", "/">>,
                  <<"http:", "/", "/", "/", "host">>, <<"https:", "/", "/", "api", "/", "v1">>,
                  Site(<<"/">>), Site(LegacySuffix), Site(LegacySuffix \o <<"/", "/">>),
                  Site(<<"/">> \o LegacySuffix), Site(<<"/", "v1", "/">>)},
    projectId |-> {"ok", "bad"},
    bufferSize |-> {0, 1}, flushInterval |-> {0},
    statusInterval |-> {59, 60}, dynamicRuleInterval |-> {59},
    highWatermarkRatio |-> {Num(-1), Num(0), Num(1), Num(10), Num(11), NaN},
    maxConcurrentFlushes |-> {0, 2},
    timeout |-> {0}, backoffFactor |-> {Num(-10), Num(0), Num(Infinite), NaN},
    redisUrl |-> {"blank", "url"},
    installId |-> {"blank", "ok", "bad"},
    encryptionKey |-> {"empty", "valid", "short", "garbled"}]

OneOff == UNION {{[Default EXCEPT ![f] = v] : v \in Variants[f]} : f \in DOMAIN Variants}
TwoOff == UNION {{[Default EXCEPT ![f] = CHOOSE v \in Variants[f] : TRUE,
                                  !.endpoint = <<>>, !.bufferSize = 0]} : f \in DOMAIN Variants}

(* One process tries them all; its neighbours run with the defaults.       *)
CONSTANT Tester
AllConfigs == [p \in Processes |->
    IF p = Tester THEN {Default} \cup OneOff \cup TwoOff ELSE {Default}]
=============================================================================
