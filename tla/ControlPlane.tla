---------------------------- MODULE ControlPlane ----------------------------
(***************************************************************************)
(* The control plane: agents, agent versions, tools, their associations    *)
(* and sessions of one project, changed by concurrent HTTP requests        *)
(* (apps/api: services.py over repositories.py, models.py and db.py).      *)
(*                                                                         *)
(* A request is one database transaction (db.session_scope) at PostgreSQL's*)
(* default isolation, READ COMMITTED.  The handler first reads and decides *)
(* (Begin...: an early error answers at once), then flushes and commits    *)
(* what it decided (Commit...).  Between the two, other requests commit.   *)
(* The locks a flush takes are held to the commit, so flush and commit are *)
(* one step.  The database rejects the flush when a constraint of          *)
(* models.py would be broken; the transaction is rolled back and the       *)
(* request answers 500 ("internal", errors.py).                            *)
(***************************************************************************)
EXTENDS Integers, FiniteSets

CONSTANTS
    Requests,      \* the concurrent requests in flight, at most
    AgentIds, VersionIds, ToolIds, SessionIds,  \* the uuids ever drawn
    Names,         \* tool names
    Values,        \* values of a configuration field
    NoId,          \* None
    MaxRequests    \* bound: requests started

\* None is no uuid, no name and no value.
ASSUME NoIdAssumption ==
    NoId \notin AgentIds \cup VersionIds \cup ToolIds \cup Names \cup Values

\* The configuration columns of an agent version: what its creator sends,
\* and what update_version may replace one by one.
Fields == {"instructions", "llm"}
Configs == [Fields -> Values]

\* compute_config_hash is injective on configurations (SHA-256).
Hash(config) == config

VARIABLES
    agents,     \* agent id   -> "none", "live" or "gone"
    versions,   \* version id -> row
    tools,      \* tool id    -> row
    attached,   \* rows of agent_version_tools: <<version, tool>>
    sessions,   \* session id -> row
    req,        \* request -> what its handler holds
    started     \* requests started so far

vars == <<agents, versions, tools, attached, sessions, req, started>>

-----------------------------------------------------------------------------
(* Rows.                                                                   *)

NoConfig == [f \in Fields |-> NoId]

\* published_at is the stamp publish_version drew; 0: None.
NoVersion == [state |-> "none", agent |-> NoId, n |-> 0,
              config |-> NoConfig, hash |-> NoConfig, published_at |-> 0]
NoTool    == [state |-> "none", name |-> NoId]
NoSession == [agent |-> NoId, version |-> NoId, explicit |-> FALSE,
              hash |-> NoConfig]

LiveVersion(v) == versions[v].state \in {"draft", "published"}
VersionsOf(a)  == {v \in VersionIds : LiveVersion(v) /\ versions[v].agent = a}
LiveTool(t)    == tools[t].state = "live"
LiveSession(s) == sessions[s] # NoSession
SessionsOf(a)  == {s \in SessionIds : LiveSession(s) /\ sessions[s].agent = a}

\* Fault: the highest version number itself.
next_version_n_current(a) ==
    LET ns == {versions[v].n : v \in VersionsOf(a)}
    IN  IF ns = {} THEN 1 ELSE CHOOSE n \in ns : \A k \in ns : k <= n
\* AgentVersionRepository.next_version_n: max(version_n) + 1, or 1.
next_version_n(a) ==
    LET ns == {versions[v].n : v \in VersionsOf(a)}
    IN  IF ns = {} THEN 1 ELSE (CHOOSE n \in ns : \A k \in ns : k <= n) + 1

\* AgentVersionRepository.get_latest_published_for_agent.
LatestPublished(a) ==
    LET pub == {v \in VersionsOf(a) : versions[v].state = "published"}
    IN  IF pub = {} THEN NoId
        ELSE CHOOSE v \in pub : \A w \in pub : versions[w].n <= versions[v].n

\* ToolDefinitionRepository.get_by_name_in_project finds a row.
NameTaken(name) == \E t \in ToolIds : LiveTool(t) /\ tools[t].name = name

-----------------------------------------------------------------------------
(* Requests.                                                               *)

Ops == {"create_agent", "update_agent", "delete_agent", "create_version",
        "update_version", "publish_version", "create_session", "create_tool",
        "update_tool", "delete_tool", "attach_tool", "detach_tool"}

Replies == {"none", "ok", "not_found", "conflict", "internal", "unavailable"}

\* What a handler holds between its reads and its flush: the rows it loaded
\* and the values it decided to write.  alone: no other request was in
\* flight at any time since it began.
Idle == [op |-> "none", reply |-> "none", alone |-> TRUE, agent |-> NoId,
         version |-> NoId, tool |-> NoId, n |-> 0, name |-> NoId,
         sets |-> {}, config |-> NoConfig, hash |-> NoConfig,
         at |-> 0, flag |-> FALSE]

InFlight(r) == req[r].op # "none"

\* A new request takes slot r; it and the requests in flight overlap.
Arrive(r, held) ==
    /\ ~InFlight(r)
    /\ started < MaxRequests
    /\ started' = started + 1
    /\ LET others == {q \in Requests \ {r} : InFlight(q)}
       IN  req' = [q \in Requests |->
                     IF q = r THEN [held EXCEPT !.alone = (others = {})]
                     ELSE IF q \in others THEN [req[q] EXCEPT !.alone = FALSE]
                     ELSE req[q]]

\* The transaction is over and the slot is free; reply is what was answered.
Answer(r, reply) == req' = [req EXCEPT ![r] = [Idle EXCEPT !.reply = reply]]

UnchangedRows == UNCHANGED <<agents, versions, tools, attached, sessions>>

\* The handler raises before it writes anything.
Refused(r, reply) ==
    Arrive(r, [Idle EXCEPT !.reply = reply]) /\ UnchangedRows

\* The handler has read and decided; its flush is still to come.
Holds(r, op, held) == Arrive(r, [held EXCEPT !.op = op]) /\ UnchangedRows

\* The flush is rejected: session_scope rolls back, SQLAlchemyError is 500.
Rejected(r) ==
    Answer(r, "internal") /\ UnchangedRows /\ UNCHANGED started

-----------------------------------------------------------------------------
(* AgentService.                                                           *)

BeginCreateAgent(r) == Holds(r, "create_agent", Idle)

CommitCreateAgent(r) ==
    /\ InFlight(r) /\ req[r].op = "create_agent"
    /\ \E a \in AgentIds :
         /\ agents[a] = "none"
         /\ agents' = [agents EXCEPT ![a] = "live"]
    /\ Answer(r, "ok")
    /\ UNCHANGED <<versions, tools, attached, sessions, started>>

\* update_agent writes name, description, status and tags only; a row that is
\* gone by the flush makes the UPDATE match nothing (StaleDataError).
BeginUpdateAgent(r) ==
    \E a \in AgentIds :
      IF agents[a] # "live" THEN Refused(r, "not_found")
      ELSE Holds(r, "update_agent", [Idle EXCEPT !.agent = a])

CommitUpdateAgent(r) ==
    /\ InFlight(r) /\ req[r].op = "update_agent"
    /\ IF agents[req[r].agent] # "live" THEN Rejected(r)
       ELSE Answer(r, "ok") /\ UnchangedRows /\ UNCHANGED started

BeginDeleteAgent(r) ==
    \E a \in AgentIds :
      IF agents[a] # "live" THEN Refused(r, "not_found")
      ELSE Holds(r, "delete_agent", [Idle EXCEPT !.agent = a])

\* sessions.agent_version_id is ON DELETE RESTRICT.
SessionsRestrict(a) == SessionsOf(a) # {}

\* The versions and their associations go first (cascade "all,
\* delete-orphan", and ON DELETE CASCADE for those the session did not
\* load); a row already gone is only a warning of the ORM.
CommitDeleteAgent(r) ==
    LET a == req[r].agent
    IN  /\ InFlight(r) /\ req[r].op = "delete_agent"
        /\ IF SessionsRestrict(a) THEN Rejected(r)
           ELSE /\ agents' = [agents EXCEPT ![a] = "gone"]
                /\ versions' = [v \in VersionIds |->
                      IF v \in VersionsOf(a)
                      THEN [NoVersion EXCEPT !.state = "gone"] ELSE versions[v]]
                /\ attached' = {p \in attached : p[1] \notin VersionsOf(a)}
                /\ Answer(r, "ok")
                /\ UNCHANGED <<tools, sessions, started>>

BeginCreateVersion(r) ==
    \E a \in AgentIds, config \in Configs :
      IF agents[a] # "live" THEN Refused(r, "not_found")
      ELSE Holds(r, "create_version",
                 [Idle EXCEPT !.agent = a, !.n = next_version_n(a),
                              !.config = config, !.hash = Hash(config)])

\* Fault: agent_versions without the unique constraint on (agent_id, version_n).
VersionInsertAllowed_no_unique(a, n) == agents[a] = "live"
\* The foreign key to agents, and uq_agent_versions_agent_n.
VersionInsertAllowed(a, n) ==
    agents[a] = "live" /\ \A v \in VersionsOf(a) : versions[v].n # n

CommitCreateVersion(r) ==
    LET q == req[r]
    IN  /\ InFlight(r) /\ q.op = "create_version"
        /\ IF ~VersionInsertAllowed(q.agent, q.n) THEN Rejected(r)
           ELSE /\ \E v \in VersionIds :
                     /\ versions[v] = NoVersion
                     /\ versions' = [versions EXCEPT ![v] =
                          [state |-> "draft", agent |-> q.agent, n |-> q.n,
                           config |-> q.config, hash |-> q.hash,
                           published_at |-> 0]]
                /\ Answer(r, "ok")
                /\ UNCHANGED <<agents, tools, attached, sessions, started>>

\* Fault: update_version keeps the hash the row had when it was read.
UpdatedHash_kept(v, config) == versions[v].hash
\* with_config_hash of the row as it was read, with the fields of the body.
UpdatedHash(v, config) == Hash(config)

\* The row must be a draft when it is read.  body[f] = NoId: not sent.
\* The columns that differ from the row as it was read will be written.
BeginUpdateVersion(r) ==
    \E v \in VersionIds, body \in [Fields -> Values \cup {NoId}] :
      LET row == versions[v]
          config == [f \in Fields |->
                       IF body[f] = NoId THEN row.config[f] ELSE body[f]]
          hash == UpdatedHash(v, config)
      IN  CASE ~LiveVersion(v) -> Refused(r, "not_found")
            [] row.state = "published" -> Refused(r, "conflict")
            [] row.state = "draft" ->
                 Holds(r, "update_version",
                   [Idle EXCEPT !.version = v, !.config = config, !.hash = hash,
                      !.sets = {f \in Fields : config[f] # row.config[f]}
                               \cup {c \in {"config_hash"} : hash # row.hash}])

\* Fault: the UPDATE writes every column of the row as it was read.
WrittenVersion_whole_row(q, row) ==
    [row EXCEPT !.state = "draft", !.config = q.config, !.hash = q.hash]
\* The UPDATE writes the columns that were changed.
WrittenVersion(q, row) ==
    [row EXCEPT !.config = [f \in Fields |-> IF f \in q.sets THEN q.config[f]
                                             ELSE row.config[f]],
                !.hash = IF "config_hash" \in q.sets THEN q.hash ELSE row.hash]

CommitUpdateVersion(r) ==
    LET q == req[r]
    IN  /\ InFlight(r) /\ q.op = "update_version"
        /\ IF q.sets # {} /\ ~LiveVersion(q.version) THEN Rejected(r)
           ELSE /\ versions' = IF q.sets = {} THEN versions
                               ELSE [versions EXCEPT
                                       ![q.version] = WrittenVersion(q, @)]
                /\ Answer(r, "ok")
                /\ UNCHANGED <<agents, tools, attached, sessions, started>>

\* datetime.now: no two publications have the same time.
Now == started + 1

\* Fault: publish_version does not answer a published version as it is.
BeginPublishVersion_again(r) ==
    \E v \in VersionIds :
      IF ~LiveVersion(v) THEN Refused(r, "not_found")
      ELSE Holds(r, "publish_version",
                 [Idle EXCEPT !.version = v, !.at = Now])
\* Publishing a published version changes nothing and answers it.
BeginPublishVersion(r) ==
    \E v \in VersionIds :
      CASE ~LiveVersion(v) -> Refused(r, "not_found")
        [] versions[v].state = "published" ->
             Refused(r, "ok")
        [] versions[v].state = "draft" ->
             Holds(r, "publish_version",
                   [Idle EXCEPT !.version = v, !.at = Now])

\* The UPDATE writes status and published_at, whatever the row is by then.
CommitPublishVersion(r) ==
    LET v == req[r].version
    IN  /\ InFlight(r) /\ req[r].op = "publish_version"
        /\ IF ~LiveVersion(v) THEN Rejected(r)
           ELSE /\ versions' = [versions EXCEPT ![v].state = "published",
                                               ![v].published_at = req[r].at]
                /\ Answer(r, "ok")
                /\ UNCHANGED <<agents, tools, attached, sessions, started>>

-----------------------------------------------------------------------------
(* SessionService.                                                         *)

\* The version of a session that names none.
DefaultVersion(a) == LatestPublished(a)

\* The version is the one the body names, draft or published, or else the
\* latest published one; its config_hash is copied into the session.
BeginCreateSession(r) ==
    \E a \in AgentIds, named \in VersionIds \cup {NoId} :
      LET v == IF named = NoId THEN DefaultVersion(a) ELSE named
      IN  CASE agents[a] # "live" -> Refused(r, "not_found")
            [] agents[a] = "live" /\ named # NoId /\ named \notin VersionsOf(a) ->
                 Refused(r, "not_found")
            [] agents[a] = "live" /\ v = NoId ->
                 Refused(r, "conflict")
            [] agents[a] = "live" /\ v \in VersionsOf(a) ->
                 Holds(r, "create_session",
                       [Idle EXCEPT !.agent = a, !.version = v,
                                    !.flag = (named # NoId),
                                    !.hash = versions[v].hash])

\* Fault: sessions without its foreign keys.
SessionInsertAllowed_no_fk(a, v) == TRUE
\* The foreign keys of sessions to agents and agent_versions.
SessionInsertAllowed(a, v) == agents[a] = "live" /\ LiveVersion(v)

CommitCreateSession(r) ==
    LET q == req[r]
    IN  /\ InFlight(r) /\ q.op = "create_session"
        /\ IF ~SessionInsertAllowed(q.agent, q.version) THEN Rejected(r)
           ELSE /\ \E s \in SessionIds :
                     /\ sessions[s] = NoSession
                     /\ sessions' = [sessions EXCEPT ![s] =
                          [agent |-> q.agent, version |-> q.version,
                           explicit |-> q.flag, hash |-> q.hash]]
                /\ Answer(r, "ok")
                /\ UNCHANGED <<agents, versions, tools, attached, started>>

-----------------------------------------------------------------------------
(* ToolService.                                                            *)

BeginCreateTool(r) ==
    \E name \in Names :
      IF NameTaken(name) THEN Refused(r, "conflict")
      ELSE Holds(r, "create_tool", [Idle EXCEPT !.name = name])

\* Fault: tool_definitions without the unique constraint on the name.
ToolNameAllowed_unchecked(t, name) == TRUE
\* uq_tool_defs_project_name; t is the row being written, NoId a new one.
ToolNameAllowed(t, name) ==
    \A u \in ToolIds : LiveTool(u) /\ tools[u].name = name => u = t

CommitCreateTool(r) ==
    LET q == req[r]
    IN  /\ InFlight(r) /\ q.op = "create_tool"
        /\ IF ~ToolNameAllowed(NoId, q.name) THEN Rejected(r)
           ELSE /\ \E t \in ToolIds :
                     /\ tools[t] = NoTool
                     /\ tools' = [tools EXCEPT ![t] =
                                    [state |-> "live", name |-> q.name]]
                /\ Answer(r, "ok")
                /\ UNCHANGED <<agents, versions, attached, sessions, started>>

\* The name is checked only when it differs from the name that was read.
BeginUpdateTool(r) ==
    \E t \in ToolIds, name \in Names :
      CASE ~LiveTool(t) -> Refused(r, "not_found")
        [] LiveTool(t) /\ name # tools[t].name /\ NameTaken(name) ->
             Refused(r, "conflict")
        [] LiveTool(t) /\ ~(name # tools[t].name /\ NameTaken(name)) ->
             Holds(r, "update_tool",
                   [Idle EXCEPT !.tool = t,
                      !.name = IF name # tools[t].name THEN name ELSE NoId])

\* A name that was not changed is not written.
CommitUpdateTool(r) ==
    LET q == req[r]
    IN  /\ InFlight(r) /\ q.op = "update_tool"
        /\ IF ~LiveTool(q.tool) \/ ~ToolNameAllowed(q.tool, q.name)
           THEN Rejected(r)
           ELSE /\ tools' = IF q.name = NoId THEN tools
                            ELSE [tools EXCEPT ![q.tool].name = q.name]
                /\ Answer(r, "ok")
                /\ UNCHANGED <<agents, versions, attached, sessions, started>>

BeginDeleteTool(r) ==
    \E t \in ToolIds :
      IF ~LiveTool(t) THEN Refused(r, "not_found")
      ELSE Holds(r, "delete_tool", [Idle EXCEPT !.tool = t])

\* The associations go with the tool, of published versions too.
CommitDeleteTool(r) ==
    LET t == req[r].tool
    IN  /\ InFlight(r) /\ req[r].op = "delete_tool"
        /\ tools' = [tools EXCEPT ![t] = [NoTool EXCEPT !.state = "gone"]]
        /\ attached' = {p \in attached : p[2] # t}
        /\ Answer(r, "ok")
        /\ UNCHANGED <<agents, versions, sessions, started>>

\* _require_draft_version: the answer that refuses version v, or "none".
require_draft_version(v) ==
    CASE ~LiveVersion(v) -> "not_found"
      [] versions[v].state = "published" -> "conflict"
      [] versions[v].state = "draft" -> "none"

\* The handler reads whether the association exists: it then writes only
\* enabled, and needs the row to be there still.
BeginAttachTool(r) ==
    \E v \in VersionIds, t \in ToolIds :
      CASE require_draft_version(v) # "none" ->
             Refused(r, require_draft_version(v))
        [] require_draft_version(v) = "none" /\ ~LiveTool(t) ->
             Refused(r, "not_found")
        [] require_draft_version(v) = "none" /\ LiveTool(t) ->
             Holds(r, "attach_tool",
                   [Idle EXCEPT !.version = v, !.tool = t,
                                !.flag = (<<v, t>> \in attached)])

\* enabled is TRUE already, so an existing row is not written at all; a new
\* one needs both parents and the primary key.
CommitAttachTool(r) ==
    LET q == req[r]
        pair == <<q.version, q.tool>>
    IN  /\ InFlight(r) /\ q.op = "attach_tool"
        /\ IF /\ ~q.flag
              /\ ~LiveVersion(q.version) \/ ~LiveTool(q.tool) \/ pair \in attached
           THEN Rejected(r)
           ELSE /\ attached' = IF q.flag THEN attached ELSE attached \cup {pair}
                /\ Answer(r, "ok")
                /\ UNCHANGED <<agents, versions, tools, sessions, started>>

BeginDetachTool(r) ==
    \E v \in VersionIds, t \in ToolIds :
      CASE require_draft_version(v) # "none" ->
             Refused(r, require_draft_version(v))
        [] require_draft_version(v) = "none" /\ <<v, t>> \notin attached ->
             Refused(r, "not_found")
        [] require_draft_version(v) = "none" /\ <<v, t>> \in attached ->
             Holds(r, "detach_tool", [Idle EXCEPT !.version = v, !.tool = t])

CommitDetachTool(r) ==
    LET q == req[r]
    IN  /\ InFlight(r) /\ q.op = "detach_tool"
        /\ attached' = attached \ {<<q.version, q.tool>>}
        /\ Answer(r, "ok")
        /\ UNCHANGED <<agents, versions, tools, sessions, started>>

-----------------------------------------------------------------------------
\* The connection fails, or PostgreSQL breaks a deadlock: rollback, and the
\* same 500 as Rejected; the reply is named apart so that the properties can
\* tell a constraint from an outage.
DatabaseFails(r) ==
    /\ InFlight(r)
    /\ Answer(r, "unavailable")
    /\ UnchangedRows /\ UNCHANGED started

Init ==
    /\ agents = [a \in AgentIds |-> "none"]
    /\ versions = [v \in VersionIds |-> NoVersion]
    /\ tools = [t \in ToolIds |-> NoTool]
    /\ attached = {}
    /\ sessions = [s \in SessionIds |-> NoSession]
    /\ req = [r \in Requests |-> Idle]
    /\ started = 0

AgentStep(r) ==
    \/ BeginCreateAgent(r) \/ CommitCreateAgent(r)
    \/ BeginUpdateAgent(r) \/ CommitUpdateAgent(r)
    \/ BeginDeleteAgent(r) \/ CommitDeleteAgent(r)
    \/ BeginCreateVersion(r) \/ CommitCreateVersion(r)
    \/ BeginUpdateVersion(r) \/ CommitUpdateVersion(r)
    \/ BeginPublishVersion(r) \/ CommitPublishVersion(r)

SessionStep(r) == BeginCreateSession(r) \/ CommitCreateSession(r)

ToolStep(r) ==
    \/ BeginCreateTool(r) \/ CommitCreateTool(r)
    \/ BeginUpdateTool(r) \/ CommitUpdateTool(r)
    \/ BeginDeleteTool(r) \/ CommitDeleteTool(r)
    \/ BeginAttachTool(r) \/ CommitAttachTool(r)
    \/ BeginDetachTool(r) \/ CommitDetachTool(r)

Next == \E r \in Requests :
           AgentStep(r) \/ SessionStep(r) \/ ToolStep(r) \/ DatabaseFails(r)

Spec == Init /\ [][Next]_vars

-----------------------------------------------------------------------------
(* Properties.                                                             *)

VersionRows ==
    [state : {"none", "draft", "published", "gone"},
     agent : AgentIds \cup {NoId}, n : Nat,
     config : [Fields -> Values \cup {NoId}],
     hash : [Fields -> Values \cup {NoId}], published_at : Nat]

ToolRows == [state : {"none", "live", "gone"}, name : Names \cup {NoId}]

SessionRows ==
    [agent : AgentIds \cup {NoId}, version : VersionIds \cup {NoId},
     explicit : BOOLEAN, hash : [Fields -> Values \cup {NoId}]]

HandlerStates ==
    [op : Ops \cup {"none"}, reply : Replies, alone : BOOLEAN,
     agent : AgentIds \cup {NoId}, version : VersionIds \cup {NoId},
     tool : ToolIds \cup {NoId}, n : Nat, name : Names \cup {NoId},
     sets : SUBSET (Fields \cup {"config_hash"}),
     config : [Fields -> Values \cup {NoId}],
     hash : [Fields -> Values \cup {NoId}], at : Nat, flag : BOOLEAN]

\* The rows and what the handlers hold have the types of models.py.
TypeOK ==
    /\ agents \in [AgentIds -> {"none", "live", "gone"}]
    /\ versions \in [VersionIds -> VersionRows]
    /\ tools \in [ToolIds -> ToolRows]
    /\ attached \subseteq VersionIds \X ToolIds
    /\ sessions \in [SessionIds -> SessionRows]
    /\ req \in [Requests -> HandlerStates]
    /\ started \in Nat

\* The versions of an agent are numbered 1, 2, 3, ... without gap and without
\* repetition, although two create_version requests may both read the same
\* maximum in next_version_n: the later one is rejected.
VersionNumbersContiguous ==
    \A a \in AgentIds : \A v \in VersionsOf(a) :
      /\ versions[v].n > 0
      /\ \A w \in VersionsOf(a) : versions[w].n = versions[v].n => w = v
      /\ \A k \in 1 .. (versions[v].n - 1) :
           \E w \in VersionsOf(a) : versions[w].n = k

\* No two tools of the project have one name, although create_tool and
\* update_tool look for the name in one statement and write it in another.
ToolNamesUnique ==
    \A t, u \in ToolIds :
      LiveTool(t) /\ LiveTool(u) /\ tools[t].name = tools[u].name => t = u

\* A session has its agent and its version, a version its agent and an
\* association its version and its tool, whatever is deleted between the
\* reads and the flush of create_session, create_version and attach_tool;
\* and the version of a session is one of its agent's.
ReferencesResolve ==
    /\ \A s \in SessionIds : LiveSession(s) =>
         /\ agents[sessions[s].agent] = "live"
         /\ sessions[s].version \in VersionsOf(sessions[s].agent)
    /\ \A v \in VersionIds : LiveVersion(v) => agents[versions[v].agent] = "live"
    /\ \A p \in attached : LiveVersion(p[1]) /\ LiveTool(p[2])

\* A session that named no version runs on a published version for good: no
\* update_version that read the row as a draft takes the publication back.
PinnedIsPublished ==
    \A s \in SessionIds : LiveSession(s) /\ ~sessions[s].explicit =>
      versions[sessions[s].version].state = "published"

Hashed(v) == versions[v].hash = Hash(versions[v].config)

\* The stored config_hash stops being the hash of the stored configuration
\* only when two requests overlapped: update_version computes the hash from
\* the row it read and writes it over a row that may have other fields now.
HashBreaksOnlyOnOverlap ==
    [][\A v \in VersionIds : LiveVersion(v) /\ Hashed(v) /\ ~Hashed(v)' =>
         \E r \in Requests : req[r].op = "update_version" /\ ~req[r].alone]_vars

\* A request that meets no other request is never answered 500 by a
\* constraint of the database: what the handler checked is what the flush
\* needs.  The one exception is delete_agent of an agent with sessions,
\* which no handler checks.
AloneIsNotRejected ==
    [][\A r \in Requests :
         InFlight(r) /\ req[r].alone /\ req'[r].reply = "internal" =>
           req[r].op = "delete_agent"]_vars

\* The step changes the row of the published version v, which stays.
PublishedChanges(v) ==
    versions[v].state = "published" /\ LiveVersion(v)' /\ versions'[v] # versions[v]

\* The row of a published version is changed only by a flush that overlapped
\* another request, of a handler that had read the row as a draft: an
\* update_version, which changes its configuration and hash and nothing
\* else, or a second publish_version, which changes published_at and nothing
\* else.  Neither takes the publication back.
PublishedChangesOnlyOnOverlap ==
    [][\A v \in VersionIds : PublishedChanges(v) =>
         \E r \in Requests :
           /\ req[r].version = v /\ ~req[r].alone /\ req'[r].reply = "ok"
           /\ \/ /\ req[r].op = "update_version"
                 /\ versions'[v] = [versions[v] EXCEPT
                                      !.config = versions'[v].config,
                                      !.hash = versions'[v].hash]
              \/ /\ req[r].op = "publish_version"
                 /\ versions'[v] = [versions[v] EXCEPT
                                      !.published_at = req[r].at]]_vars

\* The configuration of a published version and its hash are never changed
\* while it exists.
PublishedIsImmutable ==
    [][\A v \in VersionIds :
         versions[v].state = "published" /\ LiveVersion(v)' =>
           /\ versions'[v].config = versions[v].config
           /\ versions'[v].hash = versions[v].hash]_vars
=============================================================================
