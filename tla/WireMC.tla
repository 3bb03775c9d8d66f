------------------------------- MODULE WireMC -------------------------------
(* An instance of Wire for TLC.                                            *)
EXTENDS Wire

Leaf(path, value) == [path |-> path, value |-> value]
Bridged(kind, type, doc, num) ==
    [via |-> "bridge", kind |-> kind, type |-> type, doc |-> doc, num |-> num,
     code |-> None, pattern |-> None]
Event(doc, num) == Bridged("events", "event", doc, num)
Metric(type, doc, num) == Bridged("metrics", type, doc, num)

(* An event with a secret at the top, one below it in an array, one beyond *)
(* the depth limit, and fields the bridge lifts out of the metadata, out   *)
(* of range and of the wrong type; metrics with a secret tag and of an     *)
(* unknown type.  The host itself sends an event with a code, one of its   *)
(* secrets already redacted, and a metric that is no number.               *)
SomeRecords == [
    blocked |-> Event({Leaf(<<"Cookie">>, Str("x")), Leaf(<<"list", "[]", "AUTH">>, Str("y")),
                       Leaf(<<"a", "b", "c", "AUTH">>, Str("z")),
                       Leaf(<<"status_code">>, Whole(70000)),
                       Leaf(<<"pattern_matched">>, Whole(1))}, "nan"),
    errors |-> Metric("error_rate", {Leaf(<<"AUTH">>, Str("x")), Leaf(<<"a">>, Str("y"))}, "some"),
    login |-> [Event({Leaf(<<"a", "Cookie">>, Str("x")), Leaf(<<"AUTH">>, Redacted)}, "none")
                  EXCEPT !.via = "host", !.code = Whole(401), !.pattern = Str("p")],
    threat |-> [Metric("threat_level", {}, "nan") EXCEPT !.via = "host"],
    gauge |-> Metric("gauge", {}, "some")]

KeyNames == {"Cookie", "cookie", "AUTH", " auth ", " ", "a", "b", "c", "list", "[]",
             "status_code", "pattern_matched"}
Lowercase == [k \in KeyNames |->
    IF k \in {"Cookie", "cookie"} THEN "cookie"
    ELSE IF k \in {"AUTH", " auth "} THEN "auth"
    ELSE IF k = " " THEN "" ELSE k]
Headers == {"cookie", " auth ", " "}

RetryHeaders == {None, Whole(-5), Whole(1000)}
Codes == {0, 200, 204, 400, 401, 413, 429, 503}

(* In clear and encrypted, both signed and compressed; and a bare agent    *)
(* that has no store and takes no metrics.                                 *)
Setting(secret, encrypted, compress) ==
    [secret |-> secret, encrypted |-> encrypted, compress |-> compress,
     durable |-> TRUE, enableEvents |-> TRUE, enableMetrics |-> TRUE]
SomeSettings == {
    Setting("secret", FALSE, TRUE), Setting("secret", TRUE, TRUE),
    [Setting("none", FALSE, FALSE) EXCEPT !.durable = FALSE, !.enableMetrics = FALSE]}
=============================================================================
