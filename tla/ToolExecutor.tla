---------------------------- MODULE ToolExecutor ----------------------------
(***************************************************************************)
(* From the tool bindings of an agent version to the result of a tool      *)
(* call: build_voice_worker's registry (bootstrap.py), the registry        *)
(* (registry.py), argument validation (validation.py) and                  *)
(* ToolExecutor.execute (executor.py).  The only await of execute is that  *)
(* of an asynchronous handler: the cancellation token changes there.       *)
(***************************************************************************)
EXTENDS Naturals, Sequences, FiniteSets

CONSTANTS
    ToolNames,     \* names bound or called
    Catalog,       \* names the approved catalog has: a subset of ToolNames
    Keys,          \* argument names
    MaxBindings    \* bound: bindings of the agent version

VARIABLES
    bindings,      \* agent_version.tools
    given,         \* a tool_registry is passed to build_voice_worker_from_db
    schema,        \* parameters of the tools: [required, properties, additional]
    registry,      \* the agent's registry: {} for none, {names}
    call,          \* the tool call: [name, form, arguments]
    execCancelled, \* the cancellation token
    invoked,       \* history: was the call cancelled when its handler started?
    result,        \* "none", "success", an error code, or "raised"
    execPc         \* "build", "failed", "call", "running", "done"

execVars == <<bindings, given, schema, registry, call, execCancelled, invoked,
              result, execPc>>

Bindings == [name : ToolNames, enabled : BOOLEAN]
Schemas == [required : SUBSET Keys, properties : SUBSET Keys, additional : BOOLEAN]

\* The arguments: no JSON, JSON but no object, or an object, each value of
\* which has the declared type and enum or not (TRUE, FALSE).
Objects == UNION {[K -> BOOLEAN] : K \in SUBSET Keys}
Calls == [name : ToolNames, form : {"malformed", "not_object"}, arguments : {<< >>}]
           \cup [name : ToolNames, form : {"object"}, arguments : Objects]

Enabled == {i \in 1 .. Len(bindings) : bindings[i].enabled}
BoundNames == {bindings[i].name : i \in Enabled}

-----------------------------------------------------------------------------
\* Fault: disabled bindings are not left out.
build_agent_tool_registry_all(catalog) ==
    {bindings[i].name : i \in 1 .. Len(bindings)} \cap catalog
\* The enabled bindings, all of which are in the catalog.
build_agent_tool_registry(catalog) == BoundNames

\* An enabled binding is unknown (ToolNotFoundError), or two have one name
\* (ToolAlreadyRegisteredError).
Unresolvable(catalog) ==
    ~(BoundNames \subseteq catalog) \/ Cardinality(BoundNames) < Cardinality(Enabled)

\* build_voice_worker_from_db makes a catalog only for enabled bindings; a
\* version without any binding uses the registry that was passed, whole.
Build ==
    /\ execPc = "build"
    /\ IF Enabled = {}
       THEN /\ registry' = IF bindings = << >> /\ given THEN {Catalog} ELSE {}
            /\ execPc' = "call"
       ELSE IF Unresolvable(Catalog)
            THEN registry' = registry /\ execPc' = "failed"
            ELSE registry' = {build_agent_tool_registry(Catalog)} /\ execPc' = "call"
    /\ UNCHANGED <<bindings, given, schema, call, execCancelled, invoked, result>>

-----------------------------------------------------------------------------
\* No required argument is missing; every argument fits its property, or is
\* an additional one and these are permitted.
validate_tool_arguments(s, args) ==
    /\ s.required \subseteq DOMAIN args
    /\ \A k \in DOMAIN args :
         IF k \in s.properties THEN args[k] ELSE s.additional

\* The answer to a call that invokes no handler, or "none": steps 1 to 5 of
\* execute, and the runtime's own answer when it has no executor.
Refusal ==
    LET named == \E names \in registry : call.name \in names
    IN  CASE registry = {} -> "tool_not_found"
          [] registry # {} /\ execCancelled -> "cancelled"
          [] registry # {} /\ ~execCancelled /\ ~named -> "tool_not_found"
          [] registry # {} /\ ~execCancelled /\ named ->
               IF call.form # "object" THEN "invalid_arguments"
               ELSE IF ~validate_tool_arguments(schema, call.arguments)
                    THEN "validation_failed" ELSE "none"

Execute ==
    /\ execPc = "call"
    /\ IF Refusal # "none"
       THEN result' = Refusal /\ execPc' = "done" /\ invoked' = invoked
       ELSE /\ invoked' = {execCancelled}
            /\ execPc' = "running" /\ result' = result
    /\ UNCHANGED <<bindings, given, schema, registry, call, execCancelled>>

\* The handler raises: its message is the error.
HandlerRaises ==
    /\ execPc = "running" /\ execPc' = "done"
    /\ result' = "execution_failed"
    /\ UNCHANGED <<bindings, given, schema, registry, call, execCancelled, invoked>>

\* The output of a call cancelled meanwhile is thrown away.
Outcome == IF execCancelled THEN "cancelled" ELSE "success"

HandlerReturns ==
    /\ execPc = "running" /\ execPc' = "done"
    /\ result' = Outcome
    /\ UNCHANGED <<bindings, given, schema, registry, call, execCancelled, invoked>>

\* ToolResult refuses an output or an error message longer than its fields:
\* the ValidationError leaves execute.
ResultTooLong ==
    /\ execPc = "running" /\ execPc' = "done"
    /\ result' = "raised"
    /\ UNCHANGED <<bindings, given, schema, registry, call, execCancelled, invoked>>

ExecCancel ==
    /\ execPc \in {"call", "running"} /\ ~execCancelled
    /\ execCancelled' = TRUE
    /\ UNCHANGED <<bindings, given, schema, registry, call, invoked, result, execPc>>

Init ==
    /\ bindings \in UNION {[1 .. n -> Bindings] : n \in 0 .. MaxBindings}
    /\ given \in BOOLEAN
    /\ schema \in Schemas
    /\ registry = {}
    /\ call \in Calls
    /\ execCancelled = FALSE /\ invoked = {} /\ result = "none"
    /\ execPc = "build"

Next == Build \/ Execute \/ HandlerRaises \/ HandlerReturns \/ ResultTooLong
          \/ ExecCancel

Spec == Init /\ [][Next]_execVars

-----------------------------------------------------------------------------
\* A handler runs only for a tool the agent version has enabled (or, for a
\* version that binds no tool, one of the registry its worker was given),
\* which the catalog approves, with all required arguments, and for a turn
\* whose token is not set; and a turn whose token is set while it ran does not
\* get its output.  (The ERROR input sets no token: the runtime's own tests
\* around the call, runtime.py:809 and 834, catch it.)
ToolRunsAsBound ==
    /\ invoked # {} =>
         /\ call.name \in Catalog
         /\ bindings = << >> \/ \E i \in Enabled : bindings[i].name = call.name
         /\ \A k \in schema.required : k \in DOMAIN call.arguments
         /\ invoked = {FALSE}
    /\ result = "success" => ~execCancelled
=============================================================================
