-------------------------------- MODULE Planner --------------------------------
(***************************************************************************)
(* How the content of a planner reply becomes a decision: the aliases that *)
(* are normalised, the literals the server fills in while it requires a    *)
(* tool, and the shape every decision must have.  A payload is a record of *)
(* the five keys that matter; Absent is a missing key and Null a JSON null.*)
(***************************************************************************)
CONSTANTS
    Names,       \* non-empty tool names
    Arguments,   \* non-empty argument objects
    Fitting      \* pairs of a tool name and arguments its input model accepts

Absent == "absent"
Null   == "null"
Empty  == "empty"     \* "" for a name, {} for arguments
Unhashable == "unhashable"   \* a list or an object in the place of a name

ASSUME PlannerAssumption ==
    /\ Fitting \subseteq Names \X Arguments
    /\ {Absent, Null, Empty, Unhashable} \cap (Names \cup Arguments) = {}

NoTool == "no tool"   \* nothing is required

(* _PLANNER_ACTION_ALIASES, after case, hyphens and spaces are folded *)
ToolWords  == {"tool", "tool_call", "call_tool"}
FinalWords == {"final", "final_answer", "finish"}
Words      == ToolWords \cup FinalWords \cup {"unknown"}

ArgumentValues == Arguments \cup {Empty}

Payload ==
    [next_action    : Words \cup {Absent, Null},
     tool_name      : Names \cup {Empty, Unhashable, Absent, Null},
     tool           : Names \cup {Unhashable, Absent},
     tool_arguments : ArgumentValues \cup {Absent, Null},
     arguments      : ArgumentValues \cup {Absent}]

Decisions ==
    [kind : {"final", "schema_error"}]
    \cup [kind : {"tool"}, tool : Names, arguments : ArgumentValues]

SchemaError == [kind |-> "schema_error"]

FinalDecision == [kind |-> "final"]

(* A name under either key makes an unnamed action a tool action. *)
Action(p) ==
    LET named == IF p.tool_name # Absent THEN p.tool_name ELSE p.tool IN
    CASE p.next_action \in ToolWords -> "tool"
      [] p.next_action \in FinalWords -> "final"
      [] p.next_action \in {Absent, Null} /\ named \in Names -> "tool"
      [] OTHER -> p.next_action

(* normalize_planner_payload *)
Normalize(p) ==
    CASE Action(p) = "tool" ->
            [next_action    |-> "tool",
             tool_name      |-> IF p.tool_name = Absent THEN p.tool ELSE p.tool_name,
             tool           |-> IF p.tool_name = Absent THEN Absent ELSE p.tool,
             tool_arguments |-> IF p.tool_arguments = Absent THEN p.arguments
                                ELSE p.tool_arguments,
             arguments      |-> IF p.tool_arguments = Absent THEN Absent
                                ELSE p.arguments]
      [] Action(p) = "final" ->
            [p EXCEPT !.next_action    = "final",
                      !.tool_name      = IF @ = Empty THEN Null ELSE @,
                      !.tool_arguments = IF @ = Empty THEN Null ELSE @]
      [] OTHER -> [p EXCEPT !.next_action = Action(p)]

(* While a tool is required, no action means this one. *)
RequiredAction(q) == IF q.next_action \in {Absent, Null} THEN "tool" ELSE q.next_action

(* _normalize_required_tool_payload *)
FillRequired(p, required) ==
    LET q == Normalize(p) IN
    Normalize(
        [q EXCEPT !.next_action = RequiredAction(q),
                  !.tool_name = IF RequiredAction(q) = "tool" /\ @ \in {Absent, Null, Empty}
                                THEN required ELSE @])

(* Looking a list up in a set is no validation error but a TypeError.      *)
Raises(p, required) ==
    LET q == Normalize(p) IN
    required # NoTool /\ RequiredAction(q) = "tool" /\ q.tool_name = Unhashable

(* extra="forbid": no alias may be left over. *)
NoExtraKeys(p) == p.tool = Absent /\ p.arguments = Absent

(* PlannerDecision *)
ParseFree(p) ==
    LET q == Normalize(p) IN
    CASE /\ NoExtraKeys(q) /\ q.next_action = "tool"
         /\ q.tool_name \in Names
         /\ q.tool_arguments \in ArgumentValues
            -> [kind |-> "tool", tool |-> q.tool_name, arguments |-> q.tool_arguments]
      [] /\ NoExtraKeys(q) /\ q.next_action = "final"
         /\ q.tool_name \in {Absent, Null}
         /\ q.tool_arguments \in {Absent, Null}
            -> FinalDecision
      [] OTHER -> SchemaError

(* Faulty variant: a required tool is asked for, but not insisted on. *)
ParseLoosely(p, required) ==
    LET q == FillRequired(p, required) IN
    IF /\ NoExtraKeys(q) /\ q.next_action = "tool"
       /\ q.tool_name \in Names
       /\ <<q.tool_name, q.tool_arguments>> \in Fitting
    THEN [kind |-> "tool", tool |-> q.tool_name, arguments |-> q.tool_arguments]
    ELSE SchemaError

(* RequiredIncidentDecision, RequiredRetrievalDecision *)
ParseRequired(p, required) ==
    LET q == FillRequired(p, required) IN
    IF /\ NoExtraKeys(q) /\ q.next_action = "tool"
       /\ q.tool_name = required
       /\ <<required, q.tool_arguments>> \in Fitting
    THEN [kind |-> "tool", tool |-> required, arguments |-> q.tool_arguments]
    ELSE SchemaError

Parse(p, required) ==
    IF required = NoTool THEN ParseFree(p) ELSE ParseRequired(p, required)
=============================================================================
