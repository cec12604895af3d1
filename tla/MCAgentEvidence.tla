--------------------------- MODULE MCAgentEvidence ---------------------------
(* Small instances of AgentEvidence: five chunks in two releases, the      *)
(* second of which has none for the incident, two earlier incidents, and   *)
(* calls that are in order, out of scope, malformed or unknown.            *)
EXTENDS AgentEvidence, TLC

CONSTANT w1

(* A call, its tool, and the arguments that make it; every other use of    *)
(* the tool is the malformed one.                                          *)
MCTable ==
    {<<"incident", "get_incident", "own">>,
     <<"foreign incident", "get_incident", "foreign">>,
     <<"malformed incident", "get_incident", "other">>,
     <<"runbooks", "retrieve_runbooks", "query">>,
     <<"malformed runbooks", "retrieve_runbooks", "other">>,
     <<"similar", "search_similar_incidents", "own">>,
     <<"malformed similar", "search_similar_incidents", "other">>,
     <<"previous", "get_previous_resolutions", "own">>,
     <<"malformed previous", "get_previous_resolutions", "other">>,
     <<"context", "get_incident_resolution_context", "own">>,
     <<"malformed context", "get_incident_resolution_context", "other">>,
     <<"summary", "summarize_evidence", "steps">>,
     <<"malformed summary", "summarize_evidence", "other">>,
     <<"shell", "shell", "other">>}

MCNames     == {r[2] : r \in MCTable}
MCArguments == {"own", "foreign", "query", "steps"}

MCIncidentCalls  == {r[1] : r \in {x \in MCTable : x[2] = "get_incident"}}
MCRetrievalCalls == {r[1] : r \in {x \in MCTable : x[2] = "retrieve_runbooks"}}
MCOtherCalls     == {r[1] : r \in MCTable} \ (MCIncidentCalls \cup MCRetrievalCalls)

MCFitting == {<<r[2], r[3]>> : r \in {x \in MCTable : x[3] # "other"}}

MCCallOf ==
    [x \in MCNames \X (MCArguments \cup {"empty"}) |->
        (CHOOSE r \in MCTable :
            r[2] = x[1] /\ r[3] = IF x \in MCFitting THEN x[2] ELSE "other")[1]]

MCRequest ==
    [c \in {r[1] : r \in MCTable} |->
        LET row == CHOOSE r \in MCTable : r[1] = c IN
        [tool |-> row[2], wellFormed |-> row[3] # "other",
         ownIncident |-> row[3] # "foreign",
         limit |-> 2, category |-> "other", steps |-> {1, 2}]]

(* Canonical keys with every action, and aliases alone and left over. *)
MCPayloads ==
    LET shape(a, n, t, x, y) == [next_action |-> a, tool_name |-> n, tool |-> t,
                                 tool_arguments |-> x, arguments |-> y]
    IN {shape(a, n, Absent, x, Absent) :
            a \in {"tool", "finish", "unknown", Absent},
            n \in MCNames \cup {Empty, Null}, x \in MCArguments \cup {Empty, Null}}
       \cup {shape(a, n, t, Absent, "query") :
            a \in {"call_tool", Null},
            n \in {Absent, Null, "get_incident"},
            t \in {Absent, "retrieve_runbooks", Unhashable}}

MCRow(i, c, d) == [id |-> i, category |-> c, distance |-> d]

MCKnowledge ==
    0 :> {MCRow(1, "http", 2), MCRow(2, "http", 1), MCRow(3, "database", 0), MCRow(4, "http", 1)}
    @@ 1 :> {MCRow(5, "database", 1)}

MCCandidates ==
    [cites : {{}, {2}, {2, 4}, {3}}, duplicates : BOOLEAN, tools : {{}, {"shell"}},
     dangerous : BOOLEAN, confident : {TRUE}, escalated : {FALSE}]

MCHistory ==
    {[id |-> 1, score |-> 2, sameClass |-> TRUE, completed |-> 1, rejected |-> FALSE],
     [id |-> 2, score |-> 0, sameClass |-> TRUE, completed |-> 2, rejected |-> TRUE]}
=============================================================================
