------------------------------- MODULE Startup -------------------------------
(***************************************************************************)
(* GuardAgent::new: validation of the configuration (config.rs), the       *)
(* install identifier kept in a file of the home directory                 *)
(* (install_id.rs), and the construction of the transport with its         *)
(* headers and its encryptor (transport.rs, encryption.rs).                *)
(*                                                                         *)
(* Several agent processes of one host start at the same time, crash and   *)
(* start again; they share nothing but the file.  One action is one file   *)
(* system call, or a stretch of code between two of them.                  *)
(*                                                                         *)
(* An endpoint is the sequence of its tokens: "/" , a scheme with its      *)
(* colon, a host, "api", "v1".  A floating point value is a number in      *)
(* tenths, or not a number.  A text that goes into a header is "ok", or    *)
(* "bad" when it has characters no header can carry.                       *)
(***************************************************************************)
EXTENDS Integers, Sequences, SequencesExt, FiniteSetsExt

CONSTANTS
    Processes,      \* agent processes with one home directory
    Configs,        \* the configurations each of them may be started with
    MaxBoots        \* bound: starts of one process

VARIABLES
    phase,          \* where each process is in GuardAgent::new
    boots,          \* how often it was started
    config,         \* its configuration, normalised once it is valid
    reported,       \* the problems ConfigError lists
    installId,      \* the resolved identifier
    encryptor,      \* was an encryptor built?
    file            \* contents of ~/.guard-agent/install-id

procVars == <<phase, boots, config, reported, installId, encryptor>>
vars == <<procVars, file>>

-----------------------------------------------------------------------------
(* Floating point: comparisons with a NaN are false.                       *)

Num(tenths) == [nan |-> FALSE, val |-> tenths]
NaN == [nan |-> TRUE, val |-> 0]
Infinite == 100000
Float == [nan : BOOLEAN, val : Int]

AtMost(x, tenths) == ~x.nan /\ x.val <= tenths
MoreThan(x, tenths) == ~x.nan /\ x.val > tenths

(* calculate_backoff_delay, in tenths: doubled per attempt and capped;     *)
(* what is not finite is the cap.                                          *)
BackoffDelay(attempt, base, cap) ==
    LET raw == base.val * 2^attempt
    IN  IF base.nan \/ raw >= Infinite \/ raw > cap THEN cap ELSE raw

-----------------------------------------------------------------------------
(* AgentConfig::validate                                                   *)

MinApiKeyLen == 10
MinInterval == 60

(* AgentConfig::new: what the fields hold until the host sets them.        *)
Default == [
    apiKeyLen |-> 30, apiKey |-> "ok",
    endpoint |-> <<"https:", "/", "/", "host">>,
    projectId |-> "none",
    bufferSize |-> 100, flushInterval |-> 30,
    statusInterval |-> 300, dynamicRuleInterval |-> 300,
    highWatermarkRatio |-> Num(8), maxConcurrentFlushes |-> 1,
    timeout |-> 30, backoffFactor |-> Num(10),
    redisUrl |-> "none", installId |-> "none", encryptionKey |-> "none"]

(* Classes of tokens, and of texts: "ftp:" is any other scheme, "host" any *)
(* other word; a key is usable, of a wrong length or not base64 at all.    *)
Token == {"/", "http:", "https:", "ftp:", "host", "api", "v1"}
Text == {"none", "empty", "blank", "ok", "bad", "url", "valid", "short", "garbled"}

AgentConfig == [
    apiKeyLen : Nat, apiKey : Text, endpoint : Seq(Token), projectId : Text,
    bufferSize : Nat, flushInterval : Nat, statusInterval : Nat, dynamicRuleInterval : Nat,
    highWatermarkRatio : Float, maxConcurrentFlushes : Nat,
    timeout : Nat, backoffFactor : Float,
    redisUrl : Text, installId : Text, encryptionKey : Text]

ASSUME ConfigsAssumption ==
    /\ \A p \in Processes : Configs[p] \subseteq AgentConfig
    /\ MaxBoots \in Nat

TrimSlashes(tokens) ==
    LET kept == {n \in 0..Len(tokens) : \A i \in n + 1..Len(tokens) : tokens[i] = "/"}
    IN  SubSeq(tokens, 1, Min(kept))

LegacySuffix == <<"/", "api", "/", "v1">>

StripLegacy(tokens) ==
    IF IsSuffix(LegacySuffix, tokens)
    THEN TrimSlashes(SubSeq(tokens, 1, Len(tokens) - Len(LegacySuffix)))
    ELSE tokens

NormalizeEndpoint(tokens) == StripLegacy(TrimSlashes(tokens))

HasScheme(tokens) ==
    \E s \in {"http:", "https:"} : IsPrefix(<<s, "/", "/">>, tokens)

EndpointProblems(c) ==
    LET tokens == NormalizeEndpoint(c.endpoint)
        noHost == HasScheme(tokens) /\ (Len(tokens) = 3 \/ tokens[4] = "/")
    IN  IF c.endpoint = <<>> \/ ~HasScheme(tokens) \/ noHost THEN {"endpoint"} ELSE {}

(* Mutant of NumericProblems: a ratio of zero passes.                      *)
NumericProblemsLax(c) ==
    {f \in {"bufferSize", "flushInterval", "timeout", "maxConcurrentFlushes"} : c[f] = 0}
    \cup {f \in {"statusInterval", "dynamicRuleInterval"} : c[f] < MinInterval}
    \cup {f \in {"backoffFactor"} : AtMost(c[f], 0)}
    \cup {f \in {"highWatermarkRatio"} : AtMost(c[f], -1) \/ MoreThan(c[f], 10)}

NumericProblems(c) ==
    {f \in {"bufferSize", "flushInterval", "timeout", "maxConcurrentFlushes"} : c[f] = 0}
    \cup {f \in {"statusInterval", "dynamicRuleInterval"} : c[f] < MinInterval}
    \cup {f \in {"backoffFactor"} : AtMost(c[f], 0)}
    \cup {f \in {"highWatermarkRatio"} : AtMost(c[f], 0) \/ MoreThan(c[f], 10)}

OptionalProblems(c) == {f \in {"redisUrl"} : c[f] = "blank"}

KeyProblems(c) == {f \in {"apiKeyLen"} : c[f] < MinApiKeyLen}

(* Mutant of Problems: validation stops at the first group with a problem. *)
ProblemsFirst(c) ==
    LET groups == <<KeyProblems(c), EndpointProblems(c), NumericProblems(c), OptionalProblems(c)>>
    IN  IF groups[1] # {} THEN groups[1] ELSE
        IF groups[2] # {} THEN groups[2] ELSE
        IF groups[3] # {} THEN groups[3] ELSE groups[4]

(* Every problem, by the field it is about.                                *)
Problems(c) ==
    KeyProblems(c) \cup EndpointProblems(c) \cup NumericProblems(c) \cup OptionalProblems(c)

-----------------------------------------------------------------------------
(* Install identifiers and the file that holds one.                        *)

NoId == <<"none">>
Absent == <<"absent">>
Blank == <<"blank">>
Uuid(p) == <<"uuid", p, boots[p]>>
Unread(p) == <<"unread", p, boots[p]>>  \* made up by p when its read failed
Prefix(id) == Append(id, "cut")       \* what an interrupted write leaves
Known(content) == content \notin {Absent, Blank}

Init ==
    /\ phase = [p \in Processes |-> "down"]
    /\ boots = [p \in Processes |-> 0]
    /\ config = [p \in Processes |-> Default]
    /\ reported = [p \in Processes |-> {}]
    /\ installId = [p \in Processes |-> NoId]
    /\ encryptor = [p \in Processes |-> FALSE]
    /\ file \in {Absent, Blank, <<"uuid", "earlier", 0>>}

Goto(p, place) == phase' = [phase EXCEPT ![p] = place]

(* The host constructs an agent.                                           *)
Boot(p) ==
    /\ phase[p] = "down"
    /\ boots[p] < MaxBoots
    /\ boots' = [boots EXCEPT ![p] = @ + 1]
    /\ \E c \in Configs[p] : config' = [config EXCEPT ![p] = c]
    /\ Goto(p, "validate")
    /\ UNCHANGED <<reported, installId, encryptor, file>>

(* Mutant of Validate: the problems are collected and forgotten.           *)
ValidateForgets(p) ==
    /\ phase[p] = "validate"
    /\ config' = [config EXCEPT ![p].endpoint = NormalizeEndpoint(@)]
    /\ reported' = [reported EXCEPT ![p] = Problems(config[p])]
    /\ Goto(p, "resolve")
    /\ UNCHANGED <<boots, installId, encryptor, file>>

Validate(p) ==
    /\ phase[p] = "validate"
    /\ config' = [config EXCEPT ![p].endpoint = NormalizeEndpoint(@)]
    /\ reported' = [reported EXCEPT ![p] = Problems(config[p])]
    /\ Goto(p, IF reported'[p] = {} THEN "resolve" ELSE "failed")
    /\ UNCHANGED <<boots, installId, encryptor, file>>

Resolved(p, id, place) ==
    /\ installId' = [installId EXCEPT ![p] = id]
    /\ Goto(p, place)
    /\ UNCHANGED <<boots, config, reported, encryptor>>

HasOverride(c) == c.installId \notin {"none", "blank"}

ResolveOverride(p) ==
    /\ phase[p] = "resolve"
    /\ HasOverride(config[p])
    /\ Resolved(p, <<"override", config[p].installId>>, "build")
    /\ UNCHANGED file

(* Mutant of ReadFile: any failure to read is taken for a missing file.    *)
ReadFileOrReplace(p) ==
    /\ phase[p] = "resolve"
    /\ ~HasOverride(config[p])
    /\ \/ Known(file) /\ Resolved(p, file, "build")
       \/ Resolved(p, Uuid(p), "persist")
    /\ UNCHANGED file

(* The file is used when it names an identifier; a missing or blank file   *)
(* makes a fresh one that is to be persisted; a read that fails makes one  *)
(* for this process only.                                                  *)
ReadFile(p) ==
    /\ phase[p] = "resolve"
    /\ ~HasOverride(config[p])
    /\ \/ Known(file) /\ Resolved(p, file, "build")
       \/ ~Known(file) /\ Resolved(p, Uuid(p), "persist")
       \/ Resolved(p, Unread(p), "build")
    /\ UNCHANGED file

(* fs::write opens and truncates the file, then writes it.                 *)
Truncate(p) ==
    /\ phase[p] = "persist"
    /\ file' = Blank
    /\ Goto(p, "write")
    /\ UNCHANGED <<boots, config, reported, installId, encryptor>>

Write(p) ==
    /\ phase[p] = "write"
    /\ file' = installId[p]
    /\ Goto(p, "build")
    /\ UNCHANGED <<boots, config, reported, installId, encryptor>>

(* The directory, the file or the write fails: the identifier is kept in   *)
(* memory, the file as far as it was written.                              *)
PersistFails(p) ==
    /\ \/ phase[p] = "persist" /\ UNCHANGED file
       \/ phase[p] = "write" /\ file' \in {file, Prefix(installId[p])}
    /\ Goto(p, "build")
    /\ UNCHANGED <<boots, config, reported, installId, encryptor>>

(* HttpTransport::new: every header value must be one, and a key that is   *)
(* configured must be a key.                                               *)
HeadersFit(p) ==
    /\ config[p].apiKey = "ok"
    /\ installId[p] # <<"override", "bad">>
    /\ config[p].projectId # "bad"

WantsKey(c) == c.encryptionKey \notin {"none", "empty"}

(* PayloadEncryptor::new and verify_key: base64 of exactly 32 bytes, which *)
(* then decrypts what it encrypts.                                         *)
KeyUsable(c) == c.encryptionKey = "valid"

(* Mutant of Build: an unusable key falls back to plaintext.               *)
BuildFallsBack(p) ==
    /\ phase[p] = "build"
    /\ encryptor' = [encryptor EXCEPT ![p] = KeyUsable(config[p])]
    /\ Goto(p, IF HeadersFit(p) THEN "ready" ELSE "failed")
    /\ UNCHANGED <<boots, config, reported, installId, file>>

Build(p) ==
    LET works == HeadersFit(p) /\ (WantsKey(config[p]) => KeyUsable(config[p]))
    IN  /\ phase[p] = "build"
        /\ encryptor' = [encryptor EXCEPT ![p] = works /\ WantsKey(config[p])]
        /\ Goto(p, IF works THEN "ready" ELSE "failed")
        /\ UNCHANGED <<boots, config, reported, installId, file>>

(* GuardAgent::new: validate, resolve the identifier, build the transport; *)
(* the first error ends it.                                                *)
New(p) ==
    \/ Boot(p) \/ Validate(p) \/ ResolveOverride(p) \/ ReadFile(p)
    \/ Truncate(p) \/ Write(p) \/ PersistFails(p) \/ Build(p)

(* The process ends, or the host drops the agent, wherever it is: only the *)
(* file is left.                                                           *)
Exit(p) ==
    /\ phase[p] # "down"
    /\ Goto(p, "down")
    /\ config' = [config EXCEPT ![p] = Default]
    /\ reported' = [reported EXCEPT ![p] = {}]
    /\ installId' = [installId EXCEPT ![p] = NoId]
    /\ encryptor' = [encryptor EXCEPT ![p] = FALSE]
    /\ UNCHANGED <<boots, file>>

Next == \E p \in Processes : New(p) \/ Exit(p)

Spec == Init /\ [][Next]_vars

-----------------------------------------------------------------------------
Phase == {"down", "validate", "resolve", "persist", "write", "build", "ready", "failed"}

(* Types; no process gets past validation with a problem on its list, and  *)
(* none is built without an identifier.                                    *)
TypeOK ==
    /\ phase \in [Processes -> Phase]
    /\ boots \in [Processes -> 0..MaxBoots]
    /\ config \in [Processes -> AgentConfig]
    /\ reported \in [Processes -> SUBSET DOMAIN Default]
    /\ encryptor \in [Processes -> BOOLEAN]
    /\ \A p \in Processes :
          phase[p] \in {"persist", "write", "build", "ready"} =>
                reported[p] = {} /\ Known(installId[p]) /\ installId[p] # NoId

(* The least occupancy that is no less than buffer_size * ratio.           *)
Watermark(c) == (c.bufferSize * c.highWatermarkRatio.val + 9) \div 10

(* What the rest of the agent takes for granted of an accepted             *)
(* configuration: FlushPipeline's SizeAssumption and WorkersAssumption     *)
(* hold (unless the ratio is not a number, when no occupancy reaches it),  *)
(* URLs have a scheme, a host and no path of their own that ends in a      *)
(* slash, no sleep of the retry loops is negative or endless, and a        *)
(* configured key is in use: there is no plaintext fallback.               *)
ReadySound ==
    \A p \in Processes : phase[p] = "ready" =>
        LET c == config[p] IN
        /\ c.bufferSize >= 1 /\ c.maxConcurrentFlushes >= 1
        /\ c.highWatermarkRatio.nan \/ Watermark(c) \in 1..c.bufferSize
        /\ HasScheme(c.endpoint) /\ Len(c.endpoint) > 3
        /\ c.endpoint[4] # "/" /\ Last(c.endpoint) # "/"
        /\ \A n \in 0..3 : BackoffDelay(n, c.backoffFactor, 600) \in 0..600
        /\ encryptor[p] <=> c.encryptionKey \notin {"none", "empty"}

(* ConfigError "collects every problem found": the configuration that was  *)
(* refused, corrected in all the fields the error names, is accepted.      *)
Corrected(c, fields) == [f \in DOMAIN Default |-> IF f \in fields THEN Default[f] ELSE c[f]]

ProblemsComplete ==
    [][\A p \in Processes : phase[p] = "validate" /\ phase'[p] = "failed" =>
          Problems(Corrected(config[p], reported'[p])) = {}]_vars

(* The file names an identifier, and no process that found none is still   *)
(* about to write its own.                                                 *)
Settled == Known(file) /\ \A p \in Processes : phase[p] \notin {"persist", "write"}

(* Once settled, the identity of the installation never changes again,     *)
(* whatever starts, crashes, overrides and read errors follow: a process   *)
(* without an override takes the identifier of the file, or, only if its   *)
(* own read failed, one made up for itself that never reaches the file.    *)
IdentityStable ==
    [][Settled =>
          /\ Settled' /\ file' = file
          /\ \A p \in Processes : phase[p] = "resolve" /\ phase'[p] = "build"
                /\ ~HasOverride(config[p]) => installId'[p] \in {file, Unread(p)}]_vars
=============================================================================
