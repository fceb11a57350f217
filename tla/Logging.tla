------------------------------ MODULE Logging ------------------------------
(* What reaches the caller's logger (internal/amadeus/logging.go). A JSON     *)
(* body is a function from the paths of its leaves to their values; a path is *)
(* the sequence of keys that leads to a leaf, arrays being transparent, as    *)
(* they are to redactValue. A log is a set of records.                        *)
EXTENDS Sequences, SequencesExt, FiniteSetsExt

REDACTED == "[REDACTED]"

(* The keys whose values must never be logged, in lower case as the code has  *)
(* them, and what strings.ToLower makes of the keys the SDK sends.            *)
sensitiveKeys == {"cardnumber", "securitycode", "cryptogramvalue",
                  "client_secret", "access_token", "authorization"}
ToLower(key) ==
    CASE key = "cardNumber" -> "cardnumber"
      [] key = "securityCode" -> "securitycode"
      [] key = "cryptogramValue" -> "cryptogramvalue"
      [] OTHER -> key

(* As if keys were looked up as they are spelled.                             *)
Sensitive_AsSpelled(key) == key \in sensitiveKeys
Sensitive(key) == ToLower(key) \in sensitiveKeys

(* redactValue replaces the whole value of a sensitive key, whatever is under *)
(* it: of each path the part up to its first sensitive key remains.           *)
Cut(path) ==
    LET at == { i \in DOMAIN path : Sensitive(path[i]) }
    IN IF at = {} THEN path ELSE SubSeq(path, 1, Min(at))
redactValue(body) ==
    [ path \in { Cut(p) : p \in DOMAIN body } |->
        IF Sensitive(Last(path)) THEN REDACTED ELSE body[path] ]

(* redactBody: a body that cannot be encoded is omitted, never logged raw.    *)
redactBody(body) == IF body.encodable THEN {redactValue(body.leaves)} ELSE {}

---------------------------------------------------------------------------
(* The records. The logger passes those at or above its own level, and the    *)
(* callers ask it before they build one.                                      *)
Levels == {"debug", "error", "off"}
Enabled(level, wanted) ==
    \/ level = "debug"
    \/ level = "error" /\ wanted = "error"

Record(what, request, response) == [what |-> what, request |-> request, response |-> response]
Logged(level, wanted, record) == IF Enabled(level, wanted) THEN {record} ELSE {}

(* A response body is worth logging when the call failed or was a booking.    *)
shouldLogResponseBody(path, answer) ==
    \/ ~answer.ok
    \/ answer.details
    \/ path = "booking"

Redacted(request) == UNION { redactBody(b) : b \in request.body }

logRequest(level, request) ==
    Logged(level, "debug", Record("request", Redacted(request), {}))
logResponse(level, request, answer) ==
    Logged(level, "debug", Record("response", {},
        IF shouldLogResponseBody(request.path, answer) THEN {answer.leaves} ELSE {}))

logFailure(level, request, answer) ==
    Logged(level, "error", Record("call failed", Redacted(request), {answer.leaves}))

(* A rejected token request: the answer is logged, the request never.         *)
logAuthFailure(level, answer) ==
    Logged(level, "error", Record("authentication failed", {}, {answer.leaves}))
=============================================================================
