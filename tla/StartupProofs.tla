---------------------------- MODULE StartupProofs ----------------------------
(***************************************************************************)
(* Proofs of the safety properties of Startup, for any number of processes *)
(* and for every configuration the host can pass.                          *)
(***************************************************************************)
EXTENDS Startup, SequenceTheorems, WellFoundedInduction, TLAPS

USE DEF vars, procVars

-----------------------------------------------------------------------------
(* Endpoints.                                                              *)

(* A nonempty set of natural numbers has a least element, which is Min.    *)
LEMMA MinIsLeast ==
  ASSUME NEW T \in SUBSET Nat, T # {}
  PROVE  Min(T) \in T /\ \A n \in T : Min(T) <= n
<1>1. IsWellFoundedOn(OpToRel(<, Nat), Nat)
  BY NatLessThanWellFounded, Zenon
<1>2. PICK x \in T : \A y \in T : ~(<<y, x>> \in OpToRel(<, Nat))
  BY <1>1, WFMin, Zenon
<1>3. \A y \in T : ~(y < x)
  BY <1>2 DEF OpToRel
<1>4. \E m \in T : \A n \in T : m <= n
  BY <1>3
<1>5. QED
  BY <1>4 DEF Min

(* How much of an endpoint trim_end_matches keeps: what it drops is all    *)
(* slashes, and what it keeps does not end in one.                         *)
LEMMA TrimLength ==
  ASSUME NEW t \in Seq(Token)
  PROVE  \E n \in 0..Len(t) : /\ TrimSlashes(t) = SubSeq(t, 1, n)
                              /\ n > 0 => t[n] # "/"
                              /\ \A i \in n + 1..Len(t) : t[i] = "/"
<1> DEFINE kept == {n \in 0..Len(t) : \A i \in n + 1..Len(t) : t[i] = "/"}
           n == Min(kept)
<1>0. Len(t) \in Nat
  OBVIOUS
<1>1. kept \subseteq Nat /\ Len(t) \in kept
  BY <1>0
<1>2. n \in kept /\ \A m \in kept : n <= m
  <2> HIDE DEF kept
  <2>1. QED
    BY <1>1, MinIsLeast
<1>3. TrimSlashes(t) = SubSeq(t, 1, n)
  BY DEF TrimSlashes
<1> HIDE DEF n
<1>4. n \in 0..Len(t) /\ \A i \in n + 1..Len(t) : t[i] = "/"
  BY <1>2
<1>5. ASSUME n > 0, t[n] = "/" PROVE FALSE
  <2>1. n - 1 \in 0..Len(t) /\ ~(n <= n - 1)
    BY <1>0, <1>4, <1>5
  <2>2. \A i \in (n - 1) + 1..Len(t) : i = n \/ i \in n + 1..Len(t)
    BY <1>0, <1>4
  <2>3. \A i \in (n - 1) + 1..Len(t) : t[i] = "/"
    BY <1>4, <1>5, <2>2
  <2>4. n - 1 \in kept
    BY <2>1, <2>3
  <2>5. QED
    BY <1>2, <2>1, <2>4
<1>6. QED
  BY <1>3, <1>4, <1>5

(* A trimmed endpoint is a text that does not end in a slash.              *)
Trimmed(t) == t \in Seq(Token) /\ (Len(t) > 0 => Last(t) # "/")

(* TrimSlashes trims.                                                      *)
LEMMA TrimTrims ==
  ASSUME NEW t \in Seq(Token)
  PROVE  Trimmed(TrimSlashes(t))
<1>1. PICK n \in 0..Len(t) : TrimSlashes(t) = SubSeq(t, 1, n) /\ (n > 0 => t[n] # "/")
  BY TrimLength
<1>2. /\ SubSeq(t, 1, n) \in Seq(Token) /\ Len(SubSeq(t, 1, n)) = n
      /\ n > 0 => SubSeq(t, 1, n)[n] = t[n]
  OBVIOUS
<1>3. QED
  BY <1>1, <1>2 DEF Trimmed, Last

(* normalize_endpoint leaves a trimmed endpoint, with or without the       *)
(* legacy suffix.                                                          *)
LEMMA NormalizeTrims ==
  ASSUME NEW t \in Seq(Token)
  PROVE  Trimmed(NormalizeEndpoint(t))
<1> DEFINE u == TrimSlashes(t)
<1>1. Trimmed(u)
  BY TrimTrims
<1> HIDE DEF u
<1>2. u \in Seq(Token) /\ Len(u) \in Nat
  BY <1>1 DEF Trimmed
<1>3. CASE IsSuffix(LegacySuffix, u)
  <2>1. Len(LegacySuffix) = 4
    BY DEF LegacySuffix
  <2>2. Len(Reverse(LegacySuffix)) = 4 /\ Len(Reverse(u)) = Len(u)
    <3>1. ASSUME NEW S, NEW s \in Seq(S) PROVE Len(Reverse(s)) = Len(s)
      BY DEF Reverse
    <3>2. LegacySuffix \in Seq(Token)
      BY DEF LegacySuffix, Token
    <3>3. QED
      BY <1>2, <2>1, <3>1, <3>2
  <2>3. Len(u) - 4 \in 0..Len(u)
    BY <1>2, <1>3, <2>2 DEF IsSuffix, IsPrefix
  <2>4. SubSeq(u, 1, Len(u) - 4) \in Seq(Token)
    BY <1>2, <2>3
  <2>5. NormalizeEndpoint(t) = TrimSlashes(SubSeq(u, 1, Len(u) - 4))
    BY <1>3, <2>1 DEF NormalizeEndpoint, StripLegacy, u
  <2>6. QED
    BY <2>4, <2>5, TrimTrims
<1>4. CASE ~IsSuffix(LegacySuffix, u)
  BY <1>1, <1>4 DEF NormalizeEndpoint, StripLegacy, u
<1>5. QED
  BY <1>3, <1>4

(* An endpoint without a problem has a scheme, a host and no slash at the  *)
(* end once it is normalised.                                              *)
LEMMA EndpointFits ==
  ASSUME NEW c, c.endpoint \in Seq(Token), EndpointProblems(c) = {}
  PROVE  LET tokens == NormalizeEndpoint(c.endpoint) IN
         /\ HasScheme(tokens) /\ Len(tokens) > 3
         /\ tokens[4] # "/" /\ Last(tokens) # "/"
<1> DEFINE tokens == NormalizeEndpoint(c.endpoint)
<1>1. Trimmed(tokens)
  BY NormalizeTrims
<1>2. HasScheme(tokens) /\ Len(tokens) # 3 /\ tokens[4] # "/"
  BY DEF EndpointProblems
<1> HIDE DEF tokens
<1>3. Len(tokens) >= 3
  <2>1. PICK s \in {"http:", "https:"} : IsPrefix(<<s, "/", "/">>, tokens)
    BY <1>2 DEF HasScheme
  <2>2. Len(<<s, "/", "/">>) = 3
    OBVIOUS
  <2>3. QED
    BY <2>1, <2>2 DEF IsPrefix
<1>4. Len(tokens) \in Nat
  BY <1>1 DEF Trimmed
<1>5. Len(tokens) > 3 /\ Len(tokens) > 0
  <2>1. Len(tokens) # 3
    BY <1>2, Zenon
  <2>2. \A k \in Nat : k >= 3 /\ k # 3 => k > 3 /\ k > 0
    OBVIOUS
  <2>3. QED
    BY <1>3, <1>4, <2>1, <2>2, Zenon
<1>6. Last(tokens) # "/"
  BY <1>1, <1>5 DEF Trimmed
<1>7. QED
  BY <1>2, <1>5, <1>6 DEF tokens

-----------------------------------------------------------------------------
(* Numbers.                                                                *)

(* A ratio within (0, 1] puts the watermark between 1 and the capacity.    *)
LEMMA WatermarkFits ==
  ASSUME NEW b \in Nat, b # 0, NEW v \in 1..10
  PROVE  (b * v + 9) \div 10 \in 1..b
<1>1. b * v >= b /\ b * v <= 10 * b /\ b * v \in Nat
  <2>1. \A k \in 1..10 : b * k >= b /\ b * k <= 10 * b /\ b * k \in Nat
    OBVIOUS
  <2>2. QED
    BY <2>1
<1>2. QED
  BY <1>1

DelaysFit(base) == \A n \in 0..3 : BackoffDelay(n, base, 600) \in 0..600

(* A factor that is a number above 0, or none at all, gives delays from 0  *)
(* to the cap.                                                             *)
LEMMA PositiveFactor ==
  ASSUME NEW base \in Float, ~AtMost(base, 0)
  PROVE  DelaysFit(base)
<1> SUFFICES ASSUME NEW n \in 0..3 PROVE BackoffDelay(n, base, 600) \in 0..600
  BY DEF DelaysFit
<1>1. 2^0 = 1 /\ 2^1 = 2 /\ 2^2 = 4 /\ 2^3 = 8
  OBVIOUS
<1>2. n = 0 \/ n = 1 \/ n = 2 \/ n = 3
  OBVIOUS
<1>3. 2^n = 1 \/ 2^n = 2 \/ 2^n = 4 \/ 2^n = 8
  BY <1>1, <1>2
<1>4. base.nan \/ (base.val \in Int /\ base.val > 0)
  BY DEF Float, AtMost
<1>5. CASE base.nan
  BY <1>5 DEF BackoffDelay
<1>6. CASE ~base.nan
  <2> DEFINE raw == base.val * 2^n
  <2>1. raw \in Nat
    BY <1>3, <1>4, <1>6
  <2>2. BackoffDelay(n, base, 600) = IF raw >= Infinite \/ raw > 600 THEN 600 ELSE raw
    BY <1>6 DEF BackoffDelay
  <2> HIDE DEF raw
  <2>3. QED
    BY <2>1, <2>2
<1>7. QED
  BY <1>5, <1>6

-----------------------------------------------------------------------------
(* Validation.                                                             *)

(* What the rest of the agent relies on, of a normalised configuration.    *)
Sound(c) ==
    /\ c.bufferSize >= 1 /\ c.maxConcurrentFlushes >= 1
    /\ c.highWatermarkRatio.nan \/ Watermark(c) \in 1..c.bufferSize
    /\ HasScheme(c.endpoint) /\ Len(c.endpoint) > 3
    /\ c.endpoint[4] # "/" /\ Last(c.endpoint) # "/"
    /\ DelaysFit(c.backoffFactor)

Normalised(c) == [c EXCEPT !.endpoint = NormalizeEndpoint(@)]

(* Normalising changes nothing but the endpoint.                           *)
LEMMA NormalisedFields ==
  ASSUME NEW c \in AgentConfig
  PROVE  /\ Normalised(c) \in AgentConfig
         /\ Normalised(c).endpoint = NormalizeEndpoint(c.endpoint)
         /\ Normalised(c).bufferSize = c.bufferSize
         /\ Normalised(c).maxConcurrentFlushes = c.maxConcurrentFlushes
         /\ Normalised(c).highWatermarkRatio = c.highWatermarkRatio
         /\ Normalised(c).backoffFactor = c.backoffFactor
<1>1. NormalizeEndpoint(c.endpoint) \in Seq(Token)
  BY NormalizeTrims DEF Trimmed, AgentConfig
<1>2. QED
  BY <1>1 DEF Normalised, AgentConfig

(* A configuration without problems is sound once it is normalised.        *)
LEMMA ValidIsSound ==
  ASSUME NEW c \in AgentConfig, Problems(c) = {}
  PROVE  Sound(Normalised(c))
<1>1. EndpointProblems(c) = {} /\ NumericProblems(c) = {}
  BY DEF Problems
<1>2. /\ c.endpoint \in Seq(Token) /\ c.bufferSize \in Nat /\ c.maxConcurrentFlushes \in Nat
      /\ c.highWatermarkRatio \in Float /\ c.backoffFactor \in Float
  BY DEF AgentConfig
<1>3. /\ c.bufferSize # 0 /\ c.maxConcurrentFlushes # 0
      /\ ~AtMost(c.backoffFactor, 0)
      /\ ~AtMost(c.highWatermarkRatio, 0) /\ ~MoreThan(c.highWatermarkRatio, 10)
  <2>1. \A f \in {"bufferSize", "flushInterval", "timeout", "maxConcurrentFlushes"} : c[f] # 0
    BY <1>1 DEF NumericProblems
  <2>2. \A f \in {"backoffFactor"} : ~AtMost(c[f], 0)
    BY <1>1 DEF NumericProblems
  <2>3. \A f \in {"highWatermarkRatio"} : ~AtMost(c[f], 0) /\ ~MoreThan(c[f], 10)
    BY <1>1 DEF NumericProblems
  <2>4. QED
    BY <2>1, <2>2, <2>3
<1>4. c.highWatermarkRatio.nan \/ c.highWatermarkRatio.val \in 1..10
  <2>1. c.highWatermarkRatio.val \in Int
    BY <1>2 DEF Float
  <2>2. ASSUME ~c.highWatermarkRatio.nan
        PROVE  ~(c.highWatermarkRatio.val <= 0) /\ ~(c.highWatermarkRatio.val > 10)
    BY <1>3, <2>2, Zenon DEF AtMost, MoreThan
  <2>3. QED
    BY <2>1, <2>2
<1>5. c.highWatermarkRatio.nan \/ Watermark(Normalised(c)) \in 1..c.bufferSize
  BY <1>2, <1>3, <1>4, WatermarkFits, NormalisedFields DEF Watermark
<1>6. DelaysFit(c.backoffFactor)
  BY <1>2, <1>3, PositiveFactor, Zenon
<1>7. LET tokens == NormalizeEndpoint(c.endpoint) IN
         /\ HasScheme(tokens) /\ Len(tokens) > 3
         /\ tokens[4] # "/" /\ Last(tokens) # "/"
  BY <1>1, <1>2, EndpointFits
<1>8. c.bufferSize >= 1 /\ c.maxConcurrentFlushes >= 1
  BY <1>2, <1>3
<1> DEFINE d == Normalised(c)
<1>9. /\ d.endpoint = NormalizeEndpoint(c.endpoint) /\ d.bufferSize = c.bufferSize
      /\ d.maxConcurrentFlushes = c.maxConcurrentFlushes
      /\ d.highWatermarkRatio = c.highWatermarkRatio /\ d.backoffFactor = c.backoffFactor
  BY NormalisedFields
<1> HIDE DEF d
<1>10. Sound(d)
  <2>1. d.highWatermarkRatio.nan \/ Watermark(d) \in 1..d.bufferSize
    BY <1>5, <1>9, Zenon DEF d
  <2>2. d.bufferSize >= 1 /\ d.maxConcurrentFlushes >= 1
    BY <1>8, <1>9, Zenon
  <2>3. HasScheme(d.endpoint) /\ Len(d.endpoint) > 3
        /\ d.endpoint[4] # "/" /\ Last(d.endpoint) # "/"
    BY <1>7, <1>9, Zenon
  <2>4. DelaysFit(d.backoffFactor)
    BY <1>6, <1>9, Zenon
  <2>5. QED
    BY <2>1, <2>2, <2>3, <2>4, Zenon DEF Sound
<1>11. QED
  BY <1>10 DEF d

(* Problems are about fields of the configuration.                         *)
LEMMA ProblemsAreFields ==
  ASSUME NEW c
  PROVE  Problems(c) \subseteq DOMAIN Default
<1>1. NumericProblems(c) \subseteq DOMAIN Default
  BY DEF NumericProblems, Default
<1>2. KeyProblems(c) \cup EndpointProblems(c) \cup OptionalProblems(c) \subseteq DOMAIN Default
  BY DEF KeyProblems, EndpointProblems, OptionalProblems, Default
<1>3. QED
  BY <1>1, <1>2 DEF Problems

(* The endpoint of the defaults has nothing to normalise, and no problem.  *)
LEMMA DefaultEndpoint ==
  ASSUME NEW c, c.endpoint = Default.endpoint
  PROVE  EndpointProblems(c) = {}
<1> DEFINE e == <<"https:", "/", "/", "host">>
<1>0. c.endpoint = e
  BY DEF Default
<1>1. e \in Seq(Token) /\ Len(e) = 4 /\ e[4] = "host" /\ e # <<>>
  BY DEF Token
<1>2. ASSUME NEW s \in Seq(Token), Len(s) = 4
      PROVE  /\ SubSeq(s, 1, 4) = s
             /\ Len(Reverse(s)) = 4 /\ Reverse(s)[1] = s[4] /\ Reverse(s) \in Seq(Token)
  <2>1. \A i \in 1..4 : (4 - i) + 1 \in 1..4 /\ s[(4 - i) + 1] \in Token
    <3>1. \A j \in 1..4 : s[j] \in Token
      BY <1>2, ElementOfSeq, Zenon
    <3>2. \A i \in 1..4 : (4 - i) + 1 \in 1..4
      OBVIOUS
    <3>3. QED
      BY <3>1, <3>2
  <2>2. Reverse(s) = [i \in 1..4 |-> s[(4 - i) + 1]]
    BY <1>2 DEF Reverse
  <2>3. Reverse(s)[1] = s[4]
    BY <2>2
  <2>4. Reverse(s) \in Seq(Token) /\ Len(Reverse(s)) = 4
    BY <2>1, <2>2
  <2>5. QED
    BY <1>2, <2>3, <2>4
<1>3. Len(<<"https:", "/", "/">>) = 3
      /\ SubSeq(<<"https:", "/", "/">>, 1, 3) = SubSeq(e, 1, 3)
  OBVIOUS
<1> HIDE DEF e
<1>4. TrimSlashes(e) = e
  <2>1. PICK n \in 0..Len(e) : /\ TrimSlashes(e) = SubSeq(e, 1, n)
                               /\ \A i \in n + 1..Len(e) : e[i] = "/"
    BY <1>1, TrimLength
  <2>2. n = 4
    <3>1. n \in 0..4 /\ ~(4 \in n + 1..4)
      BY <1>1, <2>1
    <3>2. QED
      BY <3>1
  <2>3. QED
    BY <1>1, <1>2, <2>1, <2>2
<1>5. ~IsSuffix(LegacySuffix, e)
  <2>1. SUFFICES ASSUME IsPrefix(Reverse(LegacySuffix), Reverse(e)) PROVE FALSE
    BY DEF IsSuffix
  <2>2. Len(Reverse(LegacySuffix)) = 4 /\ Reverse(LegacySuffix)[1] = "v1"
        /\ Reverse(LegacySuffix) \in Seq(Token)
    <3>1. LegacySuffix \in Seq(Token) /\ Len(LegacySuffix) = 4 /\ LegacySuffix[4] = "v1"
      BY DEF LegacySuffix, Token
    <3>2. QED
      BY <1>2, <3>1
  <2>3. Len(Reverse(e)) = 4 /\ Reverse(e)[1] = "host" /\ Reverse(e) \in Seq(Token)
    BY <1>1, <1>2
  <2>4. SubSeq(Reverse(LegacySuffix), 1, 4) = SubSeq(Reverse(e), 1, 4)
    BY <2>1, <2>2 DEF IsPrefix
  <2>5. ASSUME NEW s \in Seq(Token), Len(s) = 4 PROVE SubSeq(s, 1, 4)[1] = s[1]
    BY <2>5
  <2>6. QED
    BY <2>2, <2>3, <2>4, <2>5
<1>6. NormalizeEndpoint(e) = e
  BY <1>4, <1>5 DEF NormalizeEndpoint, StripLegacy
<1>7. HasScheme(e)
  BY <1>1, <1>3 DEF HasScheme, IsPrefix
<1>8. Len(e) # 3 /\ e[4] # "/"
  BY <1>1
<1>9. QED
  BY <1>0, <1>1, <1>6, <1>7, <1>8, Zenon DEF EndpointProblems

(* A refused configuration, corrected in the fields that were reported, is *)
(* accepted.                                                               *)
LEMMA CorrectedPasses ==
  ASSUME NEW c \in AgentConfig
  PROVE  Problems(Corrected(c, Problems(c))) = {}
<1> DEFINE F == Problems(c)
           d == Corrected(c, F)
<1>1. \A f \in DOMAIN Default : d[f] = IF f \in F THEN Default[f] ELSE c[f]
  BY DEF Corrected
<1>2. KeyProblems(d) = {}
  <2>1. "apiKeyLen" \in DOMAIN Default /\ ~(Default["apiKeyLen"] < MinApiKeyLen)
    BY DEF Default, MinApiKeyLen
  <2>2. "apiKeyLen" \notin F => ~(c["apiKeyLen"] < MinApiKeyLen)
    BY DEF Problems, KeyProblems
  <2>3. ~(d["apiKeyLen"] < MinApiKeyLen)
    BY <1>1, <2>1, <2>2, Zenon
  <2> HIDE DEF d
  <2>4. QED
    BY <2>3, Zenon DEF KeyProblems
<1>3. OptionalProblems(d) = {}
  <2>1. "redisUrl" \in DOMAIN Default /\ Default["redisUrl"] # "blank"
    BY DEF Default
  <2>2. "redisUrl" \notin F => c["redisUrl"] # "blank"
    BY DEF Problems, OptionalProblems
  <2>3. d["redisUrl"] # "blank"
    BY <1>1, <2>1, <2>2, Zenon
  <2> HIDE DEF d
  <2>4. QED
    BY <2>3, Zenon DEF OptionalProblems
<1>4. NumericProblems(d) = {}
  <2>1. \A f \in {"bufferSize", "flushInterval", "timeout", "maxConcurrentFlushes"} :
           /\ f \in DOMAIN Default /\ Default[f] # 0
           /\ f \notin F => c[f] # 0
    <3>1. \A f \in {"bufferSize", "flushInterval", "timeout", "maxConcurrentFlushes"} :
             f \in DOMAIN Default /\ Default[f] # 0
      BY DEF Default
    <3>2. \A f \in {"bufferSize", "flushInterval", "timeout", "maxConcurrentFlushes"} :
             f \notin F => c[f] # 0
      BY DEF Problems, NumericProblems
    <3>3. QED
      BY <3>1, <3>2, Zenon
  <2>2. \A f \in {"statusInterval", "dynamicRuleInterval"} :
           /\ f \in DOMAIN Default /\ ~(Default[f] < MinInterval)
           /\ f \notin F => ~(c[f] < MinInterval)
    <3>1. \A f \in {"statusInterval", "dynamicRuleInterval"} :
             f \in DOMAIN Default /\ ~(Default[f] < MinInterval)
      BY DEF Default, MinInterval
    <3>2. \A f \in {"statusInterval", "dynamicRuleInterval"} :
             f \notin F => ~(c[f] < MinInterval)
      BY DEF Problems, NumericProblems
    <3>3. QED
      BY <3>1, <3>2, Zenon
  <2>3. /\ "backoffFactor" \in DOMAIN Default /\ ~AtMost(Default["backoffFactor"], 0)
        /\ "backoffFactor" \notin F => ~AtMost(c["backoffFactor"], 0)
    <3>1. "backoffFactor" \in DOMAIN Default /\ ~AtMost(Default["backoffFactor"], 0)
      BY DEF Default, AtMost, Num
    <3>2. "backoffFactor" \notin F => ~AtMost(c["backoffFactor"], 0)
      BY DEF Problems, NumericProblems
    <3>3. QED
      BY <3>1, <3>2, Zenon
  <2>4. /\ "highWatermarkRatio" \in DOMAIN Default
        /\ ~AtMost(Default["highWatermarkRatio"], 0) /\ ~MoreThan(Default["highWatermarkRatio"], 10)
        /\ "highWatermarkRatio" \notin F =>
              ~AtMost(c["highWatermarkRatio"], 0) /\ ~MoreThan(c["highWatermarkRatio"], 10)
    <3>1. /\ "highWatermarkRatio" \in DOMAIN Default
          /\ ~AtMost(Default["highWatermarkRatio"], 0)
          /\ ~MoreThan(Default["highWatermarkRatio"], 10)
      BY DEF Default, AtMost, MoreThan, Num
    <3>2. "highWatermarkRatio" \notin F =>
             ~AtMost(c["highWatermarkRatio"], 0) /\ ~MoreThan(c["highWatermarkRatio"], 10)
      BY DEF Problems, NumericProblems
    <3>3. QED
      BY <3>1, <3>2, Zenon
  <2> HIDE DEF d, F
  <2>5. \A f \in {"bufferSize", "flushInterval", "timeout", "maxConcurrentFlushes"} : d[f] # 0
    BY <1>1, <2>1, Zenon
  <2>6. \A f \in {"statusInterval", "dynamicRuleInterval"} : ~(d[f] < MinInterval)
    BY <1>1, <2>2, Zenon
  <2>7. ~AtMost(d["backoffFactor"], 0)
    BY <1>1, <2>3, Zenon
  <2>8. ~AtMost(d["highWatermarkRatio"], 0) /\ ~MoreThan(d["highWatermarkRatio"], 10)
    BY <1>1, <2>4, Zenon
  <2>9. QED
    BY <2>5, <2>6, <2>7, <2>8, Zenon DEF NumericProblems
<1>5. EndpointProblems(d) = {}
  <2>1. "endpoint" \in DOMAIN Default
    BY DEF Default
  <2>2. CASE "endpoint" \in F
    <3>1. d.endpoint = Default.endpoint
      BY <1>1, <2>1, <2>2
    <3>2. QED
      BY <3>1, DefaultEndpoint
  <2>3. CASE "endpoint" \notin F
    <3>1. d.endpoint = c.endpoint
      BY <1>1, <2>1, <2>3
    <3>2. EndpointProblems(c) = {}
      BY <2>3 DEF Problems, EndpointProblems
    <3>3. EndpointProblems(d) = EndpointProblems(c)
      BY <3>1 DEF EndpointProblems
    <3>4. QED
      BY <3>2, <3>3
  <2>4. QED
    BY <2>2, <2>3
<1>6. QED
  BY <1>2, <1>3, <1>4, <1>5 DEF Problems

-----------------------------------------------------------------------------
(* The inductive invariant.                                                *)

Shapes ==
    /\ phase \in [Processes -> Phase]
    /\ boots \in [Processes -> 0..MaxBoots]
    /\ config \in [Processes -> AgentConfig]
    /\ reported \in [Processes -> SUBSET DOMAIN Default]
    /\ encryptor \in [Processes -> BOOLEAN]
    /\ installId = [p \in Processes |-> installId[p]]

Named(id) == Known(id) /\ id # NoId

Accepted == {"resolve", "persist", "write", "build", "ready"}

(* Past validation: nothing reported, and a sound configuration.           *)
AcceptedShape ==
    \A p \in Processes : phase[p] \in Accepted => reported[p] = {} /\ Sound(config[p])

(* Past resolution: an identifier.  What a process is about to write is    *)
(* the one it made.                                                        *)
IdShape ==
    /\ \A p \in Processes : phase[p] \in {"persist", "write", "build", "ready"} =>
          Named(installId[p])
    /\ \A p \in Processes : phase[p] \in {"persist", "write"} => installId[p] = Uuid(p)
    /\ file # NoId

(* A built agent encrypts exactly when it was told to.                     *)
ReadyShape ==
    \A p \in Processes : phase[p] = "ready" =>
        (encryptor[p] <=> config[p].encryptionKey \notin {"none", "empty"})

StartInv == Shapes /\ AcceptedShape /\ IdShape /\ ReadyShape

(* Identifiers differ from the marks of a file without one.                *)
LEMMA IdsAreNamed ==
  ASSUME NEW p, NEW n, NEW x
  PROVE  /\ Named(<<"uuid", p, n>>) /\ Named(<<"unread", p, n>>) /\ Named(<<"override", x>>)
         /\ Prefix(<<"uuid", p, n>>) # NoId
<1>1. /\ Len(<<"uuid", p, n>>) = 3 /\ Len(<<"unread", p, n>>) = 3
      /\ Len(<<"override", x>>) = 2
      /\ Len(Append(<<"uuid", p, n>>, "cut")) = 4
  OBVIOUS
<1>2. Len(<<"none">>) = 1 /\ Len(<<"absent">>) = 1 /\ Len(<<"blank">>) = 1
  OBVIOUS
<1>3. QED
  BY <1>1, <1>2 DEF Named, Known, NoId, Absent, Blank, Prefix

(* The defaults are a configuration.                                       *)
LEMMA DefaultType == Default \in AgentConfig
<1>1. Num(8) \in Float /\ Num(10) \in Float
  BY DEF Num, Float
<1>2. <<"https:", "/", "/", "host">> \in Seq(Token)
  BY DEF Token
<1>3. QED
  BY <1>1, <1>2 DEF Default, AgentConfig, Text

(* Every process is down at first.                                         *)
LEMMA InitStart == Init => StartInv
<1> SUFFICES ASSUME Init PROVE StartInv
  OBVIOUS
<1>1. phase = [p \in Processes |-> "down"] /\ \A p \in Processes : phase[p] = "down"
  BY DEF Init
<1>2. Shapes
  <2>1. 0 \in 0..MaxBoots
    BY ConfigsAssumption
  <2>2. boots \in [Processes -> 0..MaxBoots] /\ phase \in [Processes -> Phase]
    BY <2>1 DEF Init, Phase
  <2>3. config \in [Processes -> AgentConfig]
    BY DefaultType DEF Init
  <2>4. /\ reported \in [Processes -> SUBSET DOMAIN Default]
        /\ encryptor \in [Processes -> BOOLEAN]
        /\ installId = [p \in Processes |-> installId[p]]
    BY DEF Init
  <2>5. QED
    BY <2>2, <2>3, <2>4 DEF Shapes
<1>3. file # NoId
  <2>1. <<"uuid", "earlier", 0>> # NoId
    BY IdsAreNamed DEF Named
  <2>2. QED
    BY <2>1 DEF Init, Absent, Blank, NoId
<1>4. AcceptedShape /\ IdShape /\ ReadyShape
  BY <1>1, <1>3 DEF AcceptedShape, IdShape, ReadyShape, Accepted
<1>5. QED
  BY <1>2, <1>4 DEF StartInv

(* What moving one process on does to the phases.                          *)
LEMMA PhaseMoves ==
  ASSUME Shapes, NEW p \in Processes, NEW place \in Phase, Goto(p, place)
  PROVE  /\ phase' \in [Processes -> Phase] /\ phase'[p] = place
         /\ \A q \in Processes \ {p} : phase'[q] = phase[q]
BY DEF Shapes, Goto

(* A start.                                                                *)
LEMMA BootKeeps ==
  ASSUME StartInv, NEW p \in Processes, Boot(p)
  PROVE  StartInv'
<1>0. Shapes /\ UNCHANGED <<reported, installId, encryptor, file>>
  BY DEF StartInv, Boot
<1>1. /\ phase' \in [Processes -> Phase] /\ phase'[p] = "validate"
      /\ \A q \in Processes \ {p} : phase'[q] = phase[q]
  BY <1>0, PhaseMoves DEF Boot, Phase
<1>2. /\ boots' \in [Processes -> 0..MaxBoots]
      /\ \A q \in Processes \ {p} : boots'[q] = boots[q]
  BY <1>0, ConfigsAssumption DEF Boot, Shapes
<1>3. /\ config' \in [Processes -> AgentConfig]
      /\ \A q \in Processes \ {p} : config'[q] = config[q]
  <2>1. PICK c \in Configs[p] : config' = [config EXCEPT ![p] = c]
    BY DEF Boot
  <2>2. c \in AgentConfig
    BY <2>1, ConfigsAssumption
  <2>3. QED
    BY <1>0, <2>1, <2>2 DEF Shapes
<1>4. Shapes'
  BY <1>0, <1>1, <1>2, <1>3 DEF Shapes
<1>5. AcceptedShape' /\ ReadyShape'
  BY <1>0, <1>1, <1>3 DEF StartInv, AcceptedShape, ReadyShape, Accepted
<1>6. IdShape'
  BY <1>0, <1>1, <1>2 DEF StartInv, IdShape, Uuid
<1>7. QED
  BY <1>4, <1>5, <1>6 DEF StartInv

(* Validation lets a process on only when its configuration is sound.      *)
LEMMA ValidateKeeps ==
  ASSUME StartInv, NEW p \in Processes, Validate(p)
  PROVE  StartInv'
<1> DEFINE c == config[p]
           place == IF Problems(c) = {} THEN "resolve" ELSE "failed"
<1>0. Shapes /\ c \in AgentConfig /\ UNCHANGED <<boots, installId, encryptor, file>>
  BY DEF StartInv, Shapes, Validate
<1>1. /\ reported' \in [Processes -> SUBSET DOMAIN Default] /\ reported'[p] = Problems(c)
      /\ \A q \in Processes \ {p} : reported'[q] = reported[q]
  <2>1. reported' = [reported EXCEPT ![p] = Problems(c)] /\ Problems(c) \subseteq DOMAIN Default
    BY ProblemsAreFields DEF Validate
  <2>2. QED
    BY <1>0, <2>1 DEF Shapes
<1>2. /\ phase' \in [Processes -> Phase] /\ phase'[p] = place
      /\ \A q \in Processes \ {p} : phase'[q] = phase[q]
  <2>1. Goto(p, place) /\ place \in Phase
    BY <1>1 DEF Validate, Phase
  <2>2. QED
    BY <1>0, <2>1, PhaseMoves
<1>3. /\ config' \in [Processes -> AgentConfig] /\ config'[p] = Normalised(c)
      /\ \A q \in Processes \ {p} : config'[q] = config[q]
  <2>1. config' = [config EXCEPT ![p] = Normalised(c)]
    BY <1>0 DEF Validate, Normalised, Shapes
  <2>2. Normalised(c) \in AgentConfig
    BY <1>0, NormalisedFields
  <2>3. QED
    BY <1>0, <2>1, <2>2 DEF Shapes
<1>4. Shapes'
  BY <1>0, <1>1, <1>2, <1>3 DEF Shapes
<1>5. Problems(c) = {} => Sound(Normalised(c))
  BY <1>0, ValidIsSound
<1> HIDE DEF c
<1>6. AcceptedShape'
  BY <1>1, <1>2, <1>3, <1>5 DEF StartInv, AcceptedShape, Accepted
<1>7. IdShape'
  BY <1>0, <1>2 DEF StartInv, IdShape, Uuid
<1>8. ReadyShape'
  BY <1>0, <1>2, <1>3 DEF StartInv, ReadyShape
<1>9. QED
  BY <1>4, <1>6, <1>7, <1>8 DEF StartInv

(* The identifier: an override, the file's, or one of its own.             *)
LEMMA ResolveKeeps ==
  ASSUME StartInv, NEW p \in Processes, ResolveOverride(p) \/ ReadFile(p)
  PROVE  StartInv'
<1>0. Shapes /\ phase[p] = "resolve" /\ UNCHANGED <<boots, config, reported, encryptor, file>>
  BY DEF StartInv, ResolveOverride, ReadFile, Resolved
<1>1. PICK id : \E place \in {"persist", "build"} :
         Resolved(p, id, place) /\ Named(id) /\ (place = "persist" => id = Uuid(p))
  <2>1. Named(Uuid(p)) /\ Named(Unread(p)) /\ \A x : Named(<<"override", x>>)
    BY IdsAreNamed DEF Uuid, Unread
  <2>2. CASE ResolveOverride(p)
    BY <2>1, <2>2 DEF ResolveOverride
  <2>3. CASE ReadFile(p)
    <3>1. CASE Known(file) /\ Resolved(p, file, "build")
      BY <3>1 DEF StartInv, IdShape, Named
    <3>2. CASE Resolved(p, Uuid(p), "persist") \/ Resolved(p, Unread(p), "build")
      BY <2>1, <3>2
    <3>3. QED
      BY <2>3, <3>1, <3>2 DEF ReadFile
  <2>4. QED
    BY <2>2, <2>3
<1>2. PICK place \in {"persist", "build"} :
         Resolved(p, id, place) /\ (place = "persist" => id = Uuid(p))
  BY <1>1
<1>3. /\ phase' \in [Processes -> Phase] /\ phase'[p] = place
      /\ \A q \in Processes \ {p} : phase'[q] = phase[q]
  BY <1>0, <1>2, PhaseMoves DEF Resolved, Phase
<1>4. /\ installId' = [q \in Processes |-> installId'[q]] /\ installId'[p] = id
      /\ \A q \in Processes \ {p} : installId'[q] = installId[q]
  BY <1>0, <1>2 DEF Resolved, Shapes
<1>5. Shapes'
  BY <1>0, <1>3, <1>4 DEF Shapes
<1>6. AcceptedShape' /\ ReadyShape'
  BY <1>0, <1>3 DEF StartInv, AcceptedShape, ReadyShape, Accepted
<1>7. IdShape'
  BY <1>0, <1>1, <1>2, <1>3, <1>4 DEF StartInv, IdShape, Uuid
<1>8. QED
  BY <1>5, <1>6, <1>7 DEF StartInv

(* Persisting touches nothing but the file.                                *)
LEMMA PersistKeeps ==
  ASSUME StartInv, NEW p \in Processes, Truncate(p) \/ Write(p) \/ PersistFails(p)
  PROVE  StartInv'
<1>0. /\ Shapes /\ phase[p] \in {"persist", "write"}
      /\ UNCHANGED <<boots, config, reported, installId, encryptor>>
  BY DEF StartInv, Truncate, Write, PersistFails
<1>1. PICK place \in {"write", "build"} : Goto(p, place)
  BY DEF Truncate, Write, PersistFails
<1>2. /\ phase' \in [Processes -> Phase] /\ phase'[p] = place
      /\ \A q \in Processes \ {p} : phase'[q] = phase[q]
  BY <1>0, <1>1, PhaseMoves DEF Phase
<1>3. Shapes'
  BY <1>0, <1>2 DEF Shapes
<1>4. AcceptedShape' /\ ReadyShape'
  BY <1>0, <1>2 DEF StartInv, AcceptedShape, ReadyShape, Accepted
<1>5. file' # NoId
  <2>1. installId[p] = Uuid(p) /\ Named(installId[p]) /\ file # NoId
    BY <1>0 DEF StartInv, IdShape
  <2>2. Prefix(installId[p]) # NoId
    BY <2>1, IdsAreNamed DEF Uuid
  <2>3. Blank # NoId
    BY DEF Blank, NoId
  <2>4. QED
    BY <2>1, <2>2, <2>3 DEF Truncate, Write, PersistFails, Named
<1>6. IdShape'
  BY <1>0, <1>2, <1>5 DEF StartInv, IdShape, Uuid
<1>7. QED
  BY <1>3, <1>4, <1>6 DEF StartInv

(* The transport is built with the key, or not at all.                     *)
LEMMA BuildKeeps ==
  ASSUME StartInv, NEW p \in Processes, Build(p)
  PROVE  StartInv'
<1> DEFINE works == HeadersFit(p) /\ (WantsKey(config[p]) => KeyUsable(config[p]))
           place == IF works THEN "ready" ELSE "failed"
<1>0. /\ Shapes /\ phase[p] = "build" /\ UNCHANGED <<boots, config, reported, installId, file>>
      /\ encryptor' = [encryptor EXCEPT ![p] = works /\ WantsKey(config[p])]
      /\ Goto(p, place)
  BY DEF StartInv, Build
<1> HIDE DEF works
<1>1. /\ phase' \in [Processes -> Phase] /\ phase'[p] = place
      /\ \A q \in Processes \ {p} : phase'[q] = phase[q]
  <2>1. place \in Phase
    BY DEF Phase
  <2>2. QED
    BY <1>0, <2>1, PhaseMoves
<1>2. /\ encryptor'[p] = (works /\ WantsKey(config[p]))
      /\ \A q \in Processes \ {p} : encryptor'[q] = encryptor[q]
  BY <1>0 DEF Shapes
<1>3. encryptor' \in [Processes -> BOOLEAN]
  BY <1>0 DEF Shapes
<1>4. Shapes'
  BY <1>0, <1>1, <1>3 DEF Shapes
<1>5. AcceptedShape'
  BY <1>0, <1>1 DEF StartInv, AcceptedShape, Accepted
<1>6. IdShape'
  BY <1>0, <1>1 DEF StartInv, IdShape, Uuid
<1>7. ReadyShape'
  <2>1. phase'[p] = "ready" => works
    BY <1>1
  <2>2. phase'[p] = "ready" => (encryptor'[p] <=> config'[p].encryptionKey \notin {"none", "empty"})
    BY <1>0, <1>2, <2>1, Zenon DEF WantsKey
  <2>3. \A q \in Processes \ {p} : phase'[q] = "ready" =>
           (encryptor'[q] <=> config'[q].encryptionKey \notin {"none", "empty"})
    BY <1>0, <1>1, <1>2 DEF StartInv, ReadyShape
  <2>4. QED
    BY <2>2, <2>3 DEF ReadyShape
<1>8. QED
  BY <1>4, <1>5, <1>6, <1>7 DEF StartInv

(* A process that ends leaves the file.                                    *)
LEMMA ExitKeeps ==
  ASSUME StartInv, NEW p \in Processes, Exit(p)
  PROVE  StartInv'
<1>0. Shapes /\ UNCHANGED <<boots, file>>
  BY DEF StartInv, Exit
<1>1. /\ phase' \in [Processes -> Phase] /\ phase'[p] = "down"
      /\ \A q \in Processes \ {p} : phase'[q] = phase[q]
  BY <1>0, PhaseMoves DEF Exit, Phase
<1>2. /\ config' \in [Processes -> AgentConfig]
      /\ reported' \in [Processes -> SUBSET DOMAIN Default]
      /\ encryptor' \in [Processes -> BOOLEAN]
      /\ installId' = [q \in Processes |-> installId'[q]]
  BY <1>0, DefaultType DEF Exit, Shapes
<1>3. \A q \in Processes \ {p} : /\ config'[q] = config[q] /\ reported'[q] = reported[q]
                                 /\ encryptor'[q] = encryptor[q] /\ installId'[q] = installId[q]
  BY <1>0 DEF Exit, Shapes
<1>4. Shapes'
  BY <1>0, <1>1, <1>2 DEF Shapes
<1>5. AcceptedShape' /\ ReadyShape'
  BY <1>1, <1>3 DEF StartInv, AcceptedShape, ReadyShape, Accepted
<1>6. IdShape'
  BY <1>0, <1>1, <1>3 DEF StartInv, IdShape, Uuid
<1>7. QED
  BY <1>4, <1>5, <1>6 DEF StartInv

(* Every step keeps the invariant.                                         *)
LEMMA StepStart == StartInv /\ [Next]_vars => StartInv'
<1> SUFFICES ASSUME StartInv, [Next]_vars PROVE StartInv'
  OBVIOUS
<1>1. CASE UNCHANGED vars
  BY <1>1 DEF StartInv, Shapes, AcceptedShape, IdShape, ReadyShape, Uuid
<1>2. CASE Next
  BY <1>2, BootKeeps, ValidateKeeps, ResolveKeeps, PersistKeeps, BuildKeeps, ExitKeeps
     DEF Next, New
<1>3. QED
  BY <1>1, <1>2

-----------------------------------------------------------------------------
(* What follows.                                                           *)

(* Types, and the order of GuardAgent::new: no process gets past           *)
(* validation with a problem on its list, and none is built without an     *)
(* identifier.                                                             *)
THEOREM StartTypes == Spec => []TypeOK
<1>1. StartInv => TypeOK
  BY DEF StartInv, Shapes, AcceptedShape, IdShape, Named, Accepted, TypeOK
<1>2. QED
  BY <1>1, InitStart, StepStart, PTL DEF Spec

(* Whatever configuration the host passes: an agent that is built has one  *)
(* the other modules' assumptions cover, and encrypts if it was told to.   *)
THEOREM AcceptedIsSound == Spec => []ReadySound
<1>1. StartInv => ReadySound
  <2> SUFFICES ASSUME StartInv, NEW p \in Processes, phase[p] = "ready"
               PROVE  LET c == config[p] IN
                      /\ c.bufferSize >= 1 /\ c.maxConcurrentFlushes >= 1
                      /\ c.highWatermarkRatio.nan \/ Watermark(c) \in 1..c.bufferSize
                      /\ HasScheme(c.endpoint) /\ Len(c.endpoint) > 3
                      /\ c.endpoint[4] # "/" /\ Last(c.endpoint) # "/"
                      /\ \A n \in 0..3 : BackoffDelay(n, c.backoffFactor, 600) \in 0..600
                      /\ encryptor[p] <=> c.encryptionKey \notin {"none", "empty"}
    BY Zenon DEF ReadySound
  <2>1. Sound(config[p])
    BY Zenon DEF StartInv, AcceptedShape, Accepted
  <2>2. encryptor[p] <=> config[p].encryptionKey \notin {"none", "empty"}
    BY Zenon DEF StartInv, ReadyShape
  <2>3. QED
    BY <2>1, <2>2, Zenon DEF Sound, DelaysFit
<1>2. QED
  BY <1>1, InitStart, StepStart, PTL DEF Spec

(* A refused configuration, corrected in every field the error names, has  *)
(* no problem left: one round of corrections is enough.                    *)
THEOREM AllProblemsReported == Spec => ProblemsComplete
<1>1. ASSUME StartInv, [Next]_vars, NEW p \in Processes,
             phase[p] = "validate", phase'[p] = "failed"
      PROVE  Problems(Corrected(config[p], reported'[p])) = {}
  <2>0. Shapes /\ config[p] \in AgentConfig
    BY <1>1 DEF StartInv, Shapes
  <2>1. Validate(p)
    <3>1. PICK q \in Processes : New(q) \/ Exit(q)
      BY <1>1 DEF Next
    <3>2. q = p
      BY <1>1, <2>0, <3>1 DEF New, Boot, Validate, ResolveOverride, ReadFile, Resolved,
         Truncate, Write, PersistFails, Build, Exit, Goto, Shapes
    <3>3. ~Exit(p)
      BY <1>1, <2>0 DEF Exit, Goto, Shapes
    <3>4. QED
      BY <1>1, <3>1, <3>2, <3>3 DEF New, Boot, ResolveOverride, ReadFile, Truncate, Write,
         PersistFails, Build
  <2>2. reported'[p] = Problems(config[p])
    BY <2>0, <2>1 DEF Validate, Shapes
  <2>3. QED
    BY <2>0, <2>2, CorrectedPasses
<1>2. StartInv /\ [Next]_vars =>
         [\A p \in Processes : phase[p] = "validate" /\ phase'[p] = "failed" =>
             Problems(Corrected(config[p], reported'[p])) = {}]_vars
  BY <1>1
<1> HIDE DEF vars
<1>3. QED
  BY <1>2, InitStart, StepStart, PTL DEF Spec, ProblemsComplete

(* Once the file names an identifier and no process is about to replace    *)
(* it, it stays, through starts, crashes, overrides and read errors; and a *)
(* process that resolves its identifier without an override then takes the *)
(* one of the file or, when it could not read it, one of its own.          *)
THEOREM IdentitySettles == Spec => IdentityStable
<1>1. ASSUME Shapes, [Next]_vars, Settled
      PROVE  /\ Settled' /\ file' = file
             /\ \A p \in Processes : phase[p] = "resolve" /\ phase'[p] = "build"
                   /\ ~HasOverride(config[p]) => installId'[p] \in {file, Unread(p)}
  <2>1. CASE UNCHANGED vars
    BY <1>1, <2>1 DEF Settled
  <2>2. ASSUME NEW q \in Processes, New(q) \/ Exit(q)
        PROVE  /\ Settled' /\ file' = file
               /\ \A p \in Processes : phase[p] = "resolve" /\ phase'[p] = "build"
                     /\ ~HasOverride(config[p]) => installId'[p] \in {file, Unread(p)}
    <3>0. Known(file) /\ phase[q] \notin {"persist", "write"}
      BY <1>1 DEF Settled
    <3>1. file' = file
      BY <2>2, <3>0 DEF New, Boot, Validate, ResolveOverride, ReadFile, Truncate, Write,
         PersistFails, Build, Exit
    <3>2. /\ phase'[q] \notin {"persist", "write"}
          /\ \A p \in Processes \ {q} : phase'[p] = phase[p]
      BY <1>1, <2>2, <3>0 DEF New, Boot, Validate, ResolveOverride, ReadFile, Resolved,
         Truncate, Write, PersistFails, Build, Exit, Goto, Shapes
    <3>3. Settled'
      BY <1>1, <3>1, <3>2 DEF Settled
    <3>4. ASSUME phase[q] = "resolve", phase'[q] = "build", ~HasOverride(config[q])
          PROVE  installId'[q] \in {file, Unread(q)}
      <4>1. ReadFile(q)
        BY <1>1, <2>2, <3>4 DEF New, Boot, Validate, ResolveOverride, Truncate, Write,
           PersistFails, Build, Exit, Goto, Shapes
      <4>2. QED
        BY <1>1, <3>0, <4>1 DEF ReadFile, Resolved, Shapes
    <3>5. QED
      BY <3>1, <3>2, <3>3, <3>4
  <2>3. QED
    BY <1>1, <2>1, <2>2 DEF Next
<1>2. StartInv /\ [Next]_vars =>
         [Settled =>
          /\ Settled' /\ file' = file
          /\ \A p \in Processes : phase[p] = "resolve" /\ phase'[p] = "build"
                /\ ~HasOverride(config[p]) => installId'[p] \in {file, Unread(p)}]_vars
  BY <1>1 DEF StartInv
<1> HIDE DEF vars
<1>3. QED
  BY <1>2, InitStart, StepStart, PTL DEF Spec, IdentityStable
=============================================================================
