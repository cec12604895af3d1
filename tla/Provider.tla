------------------------------- MODULE Provider -------------------------------
(***************************************************************************)
(* What the Ollama adapters make of the replies of the service: an error   *)
(* class the workflow treats as an outage and tries again for as long as   *)
(* the duration budget lasts, or as an unusable answer that counts.        *)
(***************************************************************************)

(* The ways one HTTP exchange can end before its body is looked at. *)
Outages == {"timeout", "connection", "http_429", "http_5xx"}

Refusals == {"http_other", "not_json", "not_object"}

ChatReplies == Outages \cup Refusals \cup {"no_content", "content"}

EmbeddingReplies ==
    Outages \cup Refusals \cup
    {"count", "dimension", "not_numeric", "not_finite", "vectors"}

(* Faulty variant: any status that is an error of the client counts. *)
TransportStrict(reply) ==
    IF reply \in Outages \ {"http_429"} THEN "unavailable"
    ELSE IF reply \in Refusals \cup {"http_429"} THEN "response_error"
    ELSE "body"

(* _OllamaHTTPClient.post *)
Transport(reply) ==
    IF reply \in Outages THEN "unavailable"
    ELSE IF reply \in Refusals THEN "response_error"
    ELSE "body"

(* generate_structured, up to the validation of the content *)
ChatOutcome(reply) ==
    IF Transport(reply) # "body" THEN Transport(reply)
    ELSE IF reply = "content" THEN "content"
    ELSE "response_error"

(* embed_texts: every vector is validated *)
EmbeddingOutcome(reply) ==
    IF Transport(reply) # "body" THEN Transport(reply)
    ELSE IF reply = "vectors" THEN "vectors"
    ELSE "response_error"
=============================================================================
