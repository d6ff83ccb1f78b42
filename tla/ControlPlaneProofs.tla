------------------------- MODULE ControlPlaneProofs -------------------------
(***************************************************************************)
(* Proofs about ControlPlane, for any number of concurrent requests, rows, *)
(* names and values.                                                       *)
(*                                                                         *)
(* A handler decides on the rows it read and writes later.  The inductive  *)
(* invariant therefore says, besides the properties of the rows, what is   *)
(* still true of the decision when its flush comes (Held), and that a      *)
(* request that met no other finds the rows as it read them (Accepted).    *)
(***************************************************************************)
EXTENDS ControlPlane, WellFoundedInduction, TLAPS

AgentOps   == {"update_agent", "delete_agent", "create_version", "create_session"}
VersionOps == {"update_version", "publish_version", "create_session",
               "attach_tool", "detach_tool"}
ToolOps    == {"update_tool", "delete_tool", "attach_tool", "detach_tool"}

\* The numbers 1 .. n - 1 are those of versions of a.
NumberedBelow(a, n) ==
    \A k \in 1 .. n - 1 : \E w \in VersionsOf(a) : versions[w].n = k

\* What a handler that has read and decided can count on at its flush, with
\* other requests in between: uuids are not drawn twice, a version stays with
\* its agent and a published one published, and the numbers below the one of
\* a new version are taken while the agent lives.
Held(q, bound) ==
    /\ q.op # "none" => q.reply = "none"
    /\ q.op \in AgentOps => q.agent \in AgentIds /\ agents[q.agent] # "none"
    /\ q.op \in VersionOps =>
         q.version \in VersionIds /\ versions[q.version].state # "none"
    /\ q.op \in ToolOps => q.tool \in ToolIds
    /\ q.op = "create_tool" => q.name \in Names
    /\ q.op = "create_session" /\ LiveVersion(q.version) =>
         /\ versions[q.version].agent = q.agent
         /\ ~q.flag => versions[q.version].state = "published"
    /\ q.op = "create_version" =>
         /\ q.n > 0 /\ q.n <= bound
         /\ agents[q.agent] = "live" => NumberedBelow(q.agent, q.n)

\* The rows are as the handler read them: its flush breaks no constraint and
\* what it does not write is what it computed the hash from.
Accepted(q) ==
    /\ q.op = "update_agent" => agents[q.agent] = "live"
    /\ q.op = "create_version" => VersionInsertAllowed(q.agent, q.n)
    /\ q.op = "update_version" =>
         /\ versions[q.version].state = "draft"
         /\ q.hash = Hash(q.config)
         /\ \A f \in Fields \ q.sets : q.config[f] = versions[q.version].config[f]
         /\ "config_hash" \notin q.sets => q.hash = versions[q.version].hash
    /\ q.op = "publish_version" => versions[q.version].state = "draft"
    /\ q.op = "create_session" => SessionInsertAllowed(q.agent, q.version)
    /\ q.op = "create_tool" => ToolNameAllowed(NoId, q.name)
    /\ q.op = "update_tool" => LiveTool(q.tool) /\ ToolNameAllowed(q.tool, q.name)
    /\ q.op = "attach_tool" /\ ~q.flag =>
         /\ LiveVersion(q.version) /\ LiveTool(q.tool)
         /\ <<q.version, q.tool>> \notin attached

\* An existing tool has a name.
ToolsNamed == \A t \in ToolIds : LiveTool(t) => tools[t].name \in Names

\* What exists is of an agent that was drawn.
AgentsKnown ==
    /\ \A v \in VersionIds : LiveVersion(v) => versions[v].agent \in AgentIds
    /\ \A s \in SessionIds : LiveSession(s) => sessions[s].agent \in AgentIds

\* No version number exceeds the requests that could have made it.
NumbersBounded == \A v \in VersionIds : LiveVersion(v) => versions[v].n <= started

RowInv ==
    /\ VersionNumbersContiguous /\ ToolNamesUnique
    /\ ReferencesResolve /\ PinnedIsPublished
    /\ ToolsNamed /\ AgentsKnown /\ NumbersBounded

AllHeld == \A r \in Requests : Held(req[r], started)

\* A request that has met no other is the only one in flight.
AloneInv ==
    \A r \in Requests : InFlight(r) /\ req[r].alone =>
      Accepted(req[r]) /\ \A q \in Requests : InFlight(q) => q = r

IInv == TypeOK /\ RowInv /\ AllHeld /\ AloneInv

-----------------------------------------------------------------------------
(* The greatest version number.                                            *)

\* A nonempty set of natural numbers with a bound has a greatest element.
LEMMA BoundedHasMax ==
  ASSUME NEW S \in SUBSET Nat, S # {}, NEW b \in Nat, \A n \in S : n <= b
  PROVE  \E m \in S : \A n \in S : n <= m
<1> DEFINE T == {k \in Nat : \A n \in S : n <= k}
<1>1. T \subseteq Nat /\ T # {}
  OBVIOUS
<1>2. PICK m \in T : \A k \in T : ~ (<<k, m>> \in OpToRel(<, Nat))
  BY <1>1, WFMin, NatLessThanWellFounded
<1>3. \A k \in T : ~ (k < m)
  BY <1>2 DEF OpToRel
<1>4. m \in S
  <2>1. SUFFICES ASSUME m \notin S  PROVE FALSE
    OBVIOUS
  <2>2. \A n \in S : n < m
    BY <2>1
  <2>3. m \in Nat /\ m # 0
    <3>1. PICK n \in S : TRUE
      OBVIOUS
    <3>. QED  BY <3>1, <2>2
  <2>4. m - 1 \in Nat /\ \A n \in S : n <= m - 1
    BY <2>2, <2>3
  <2>5. m - 1 \in T /\ m - 1 < m
    BY <2>3, <2>4
  <2>. QED  BY <2>5, <1>3
<1>. QED  BY <1>4

\* next_version_n is one more than every number of the agent's versions, and
\* not more than one above the requests started.
LEMMA NextVersion ==
  ASSUME TypeOK, RowInv, NEW a \in AgentIds
  PROVE  /\ next_version_n(a) \in Nat
         /\ next_version_n(a) > 0 /\ next_version_n(a) <= started + 1
         /\ \A v \in VersionsOf(a) : versions[v].n < next_version_n(a)
         /\ NumberedBelow(a, next_version_n(a))
<1> DEFINE ns == {versions[v].n : v \in VersionsOf(a)}
<1>1. \A v \in VersionsOf(a) :
        v \in VersionIds /\ versions[v].n \in Nat /\ versions[v].n <= started
  BY DEF TypeOK, RowInv, NumbersBounded, VersionsOf, VersionRows
<1>2. started \in Nat
  BY DEF TypeOK
<1>3. CASE ns = {}
  <2>1. VersionsOf(a) = {}
    BY <1>3
  <2>2. next_version_n(a) = 1
    BY <1>3 DEF next_version_n
  <2>. QED  BY <2>1, <2>2, <1>2 DEF NumberedBelow
<1>4. CASE ns # {}
  <2> DEFINE m == CHOOSE n \in ns : \A k \in ns : k <= n
  <2>1. ns \in SUBSET Nat /\ \A n \in ns : n <= started
    BY <1>1
  <2>2. \E n \in ns : \A k \in ns : k <= n
    BY <2>1, <1>2, <1>4, BoundedHasMax
  <2>3. m \in ns /\ \A k \in ns : k <= m
    BY <2>2
  <2>4. next_version_n(a) = m + 1
    BY <1>4 DEF next_version_n
  <2>5. PICK v \in VersionsOf(a) : versions[v].n = m
    BY <2>3
  <2>6. \A k \in 1 .. m - 1 : \E w \in VersionsOf(a) : versions[w].n = k
    BY <2>5 DEF RowInv, VersionNumbersContiguous
  <2>7. m \in Nat /\ m <= started /\ m > 0
    BY <2>5, <2>1, <2>3 DEF RowInv, VersionNumbersContiguous
  <2>9. \A w \in VersionsOf(a) : versions[w].n <= m
    BY <2>3
  <2> HIDE DEF m
  <2>8. \A k \in 1 .. (m + 1) - 1 : \E w \in VersionsOf(a) : versions[w].n = k
    <3> TAKE k \in 1 .. (m + 1) - 1
    <3>1. CASE k = m
      BY <3>1, <2>5
    <3>2. CASE k # m
      BY <3>2, <2>6, <2>7
    <3>. QED  BY <3>1, <3>2
  <2>. QED  BY <2>4, <2>7, <2>8, <2>9, <1>1, <1>2 DEF NumberedBelow
<1>. QED  BY <1>3, <1>4

\* The latest published version is a published version of the agent.
LEMMA LatestIsPublished ==
  ASSUME TypeOK, RowInv, NEW a \in AgentIds, LatestPublished(a) # NoId
  PROVE  /\ LatestPublished(a) \in VersionsOf(a)
         /\ versions[LatestPublished(a)].state = "published"
<1> DEFINE pub == {v \in VersionsOf(a) : versions[v].state = "published"}
           ns == {versions[v].n : v \in pub}
<1>1. pub # {}
  BY DEF LatestPublished
<1>2. \A v \in pub : versions[v].n \in Nat /\ versions[v].n <= started
  BY DEF TypeOK, RowInv, NumbersBounded, VersionsOf, VersionRows
<1>3. started \in Nat /\ ns \in SUBSET Nat /\ ns # {} /\ \A n \in ns : n <= started
  BY <1>1, <1>2 DEF TypeOK
<1>4. PICK n \in ns : \A k \in ns : k <= n
  BY <1>3, BoundedHasMax
<1>5. \E v \in pub : \A w \in pub : versions[w].n <= versions[v].n
  BY <1>4
<1>6. LatestPublished(a) = CHOOSE v \in pub : \A w \in pub : versions[w].n <= versions[v].n
  BY <1>1 DEF LatestPublished
<1>. QED  BY <1>5, <1>6

-----------------------------------------------------------------------------
(* Requests begin.                                                         *)

\* What a request decides is well typed, can be counted on and accepted.
Decided(r) ==
    \E q \in HandlerStates :
      /\ Arrive(r, q) /\ UnchangedRows
      /\ Held(q, started + 1)
      /\ Accepted(q)

\* A slot without a request is well typed.
LEMMA IdleType == Idle \in HandlerStates /\ NoConfig \in [Fields -> Values \cup {NoId}]
BY DEF Idle, HandlerStates, NoConfig, Replies

\* A request that is refused holds nothing.
LEMMA RefusedDecides ==
  ASSUME NEW r \in Requests, NEW reply \in Replies, Refused(r, reply)
  PROVE  Decided(r)
<1> DEFINE q == [Idle EXCEPT !.reply = reply]
<1>1. q \in HandlerStates
  BY IdleType DEF HandlerStates
<1>2. q.op = "none"
  BY DEF Idle
<1>3. Held(q, started + 1)
  BY <1>2 DEF Held, AgentOps, VersionOps, ToolOps
<1>4. Accepted(q)
  BY <1>2 DEF Accepted
<1>. QED  BY <1>1, <1>3, <1>4 DEF Refused, Decided

\* Replies that are used.
LEMMA ReplyTypes ==
  "ok" \in Replies /\ "not_found" \in Replies /\ "conflict" \in Replies
BY DEF Replies

\* A request that holds q decides, when q is as it should be.
LEMMA HoldsDecides ==
  ASSUME NEW r \in Requests, NEW op \in Ops, NEW q \in HandlerStates,
         Holds(r, op, q),
         Held([q EXCEPT !.op = op], started + 1),
         Accepted([q EXCEPT !.op = op])
  PROVE  Decided(r)
<1>1. [q EXCEPT !.op = op] \in HandlerStates
  BY DEF HandlerStates
<1>. QED  BY <1>1 DEF Holds, Decided

\* create_agent decides well: it reads nothing.
LEMMA CreateAgentBegins ==
  ASSUME NEW r \in Requests, BeginCreateAgent(r)
  PROVE  Decided(r)
<1> DEFINE q == [Idle EXCEPT !.op = "create_agent"]
<1>1. q.op = "create_agent" /\ q.reply = "none"
  BY DEF Idle
<1>2. Held(q, started + 1) /\ Accepted(q)
  BY <1>1 DEF Held, Accepted, AgentOps, VersionOps, ToolOps
<1>3. "create_agent" \in Ops
  BY DEF Ops
<1>. QED  BY <1>2, <1>3, IdleType, HoldsDecides DEF BeginCreateAgent

\* update_agent decides well: the agent existed when it was read.
LEMMA UpdateAgentBegins ==
  ASSUME TypeOK, NEW r \in Requests, BeginUpdateAgent(r)
  PROVE  Decided(r)
<1>1. PICK a \in AgentIds :
        IF agents[a] # "live" THEN Refused(r, "not_found")
        ELSE Holds(r, "update_agent", [Idle EXCEPT !.agent = a])
  BY DEF BeginUpdateAgent
<1>2. CASE agents[a] # "live"
  BY <1>1, <1>2, RefusedDecides, ReplyTypes
<1>3. CASE agents[a] = "live"
  <2> DEFINE h == [Idle EXCEPT !.agent = a]
             q == [h EXCEPT !.op = "update_agent"]
  <2>1. h \in HandlerStates
    BY IdleType DEF HandlerStates
  <2>2. q.op = "update_agent" /\ q.reply = "none" /\ q.agent = a
    BY DEF Idle
  <2>3. Held(q, started + 1) /\ Accepted(q)
    BY <2>2, <1>3 DEF Held, Accepted, AgentOps, VersionOps, ToolOps
  <2>. QED  BY <1>1, <1>3, <2>1, <2>3, HoldsDecides DEF Ops
<1>. QED  BY <1>2, <1>3

\* delete_agent decides well: the agent existed when it was read.
LEMMA DeleteAgentBegins ==
  ASSUME TypeOK, NEW r \in Requests, BeginDeleteAgent(r)
  PROVE  Decided(r)
<1>1. PICK a \in AgentIds :
        IF agents[a] # "live" THEN Refused(r, "not_found")
        ELSE Holds(r, "delete_agent", [Idle EXCEPT !.agent = a])
  BY DEF BeginDeleteAgent
<1>2. CASE agents[a] # "live"
  BY <1>1, <1>2, RefusedDecides, ReplyTypes
<1>3. CASE agents[a] = "live"
  <2> DEFINE h == [Idle EXCEPT !.agent = a]
             q == [h EXCEPT !.op = "delete_agent"]
  <2>1. h \in HandlerStates
    BY IdleType DEF HandlerStates
  <2>2. q.op = "delete_agent" /\ q.reply = "none" /\ q.agent = a
    BY DEF Idle
  <2>3. Held(q, started + 1) /\ Accepted(q)
    BY <2>2, <1>3 DEF Held, Accepted, AgentOps, VersionOps, ToolOps
  <2>. QED  BY <1>1, <1>3, <2>1, <2>3, HoldsDecides DEF Ops
<1>. QED  BY <1>2, <1>3

\* create_version decides well: the number is new and the numbers below it are taken.
LEMMA CreateVersionBegins ==
  ASSUME TypeOK, RowInv, NEW r \in Requests, BeginCreateVersion(r)
  PROVE  Decided(r)
<1>1. PICK a \in AgentIds, config \in Configs :
        IF agents[a] # "live" THEN Refused(r, "not_found")
        ELSE Holds(r, "create_version",
                   [Idle EXCEPT !.agent = a, !.n = next_version_n(a),
                                !.config = config, !.hash = Hash(config)])
  BY DEF BeginCreateVersion
<1>2. CASE agents[a] # "live"
  BY <1>1, <1>2, RefusedDecides, ReplyTypes
<1>3. CASE agents[a] = "live"
  <2> DEFINE n == next_version_n(a)
             h == [Idle EXCEPT !.agent = a, !.n = n,
                               !.config = config, !.hash = Hash(config)]
             q == [h EXCEPT !.op = "create_version"]
  <2>0. /\ n \in Nat /\ n > 0 /\ n <= started + 1
        /\ \A v \in VersionsOf(a) : versions[v].n < n
        /\ NumberedBelow(a, n)
    BY NextVersion
  <2> HIDE DEF n
  <2>1. h \in HandlerStates
    <3>1. config \in [Fields -> Values \cup {NoId}] /\ Hash(config) = config
      BY DEF Configs, Hash
    <3>. QED  BY <3>1, <2>0, IdleType DEF HandlerStates
  <2>2. q.op = "create_version" /\ q.reply = "none" /\ q.agent = a /\ q.n = n
    BY DEF Idle
  <2> HIDE DEF q
  <2>3. Held(q, started + 1)
    BY <2>0, <2>2, <1>3 DEF Held, AgentOps, VersionOps, ToolOps
  <2>4. \A v \in VersionsOf(a) : versions[v].n \in Nat
    BY DEF TypeOK, VersionsOf, VersionRows
  <2>5. VersionInsertAllowed(a, n)
    BY <2>0, <2>4, <1>3 DEF VersionInsertAllowed
  <2>6. Accepted(q)
    BY <2>2, <2>5 DEF Accepted
  <2>. QED  BY <1>1, <1>3, <2>1, <2>3, <2>6, HoldsDecides DEF Ops, n, q
<1>. QED  BY <1>2, <1>3

\* update_version decides well: a draft was read, and the hash is that of the new configuration.
LEMMA UpdateVersionBegins ==
  ASSUME TypeOK, NEW r \in Requests, BeginUpdateVersion(r)
  PROVE  Decided(r)
<1> DEFINE Config(v, body) == [f \in Fields |-> IF body[f] = NoId THEN versions[v].config[f]
                                                ELSE body[f]]
           Sets(v, config, hash) == {f \in Fields : config[f] # versions[v].config[f]}
                    \cup {c \in {"config_hash"} : hash # versions[v].hash}
<1>1. PICK v \in VersionIds, body \in [Fields -> Values \cup {NoId}] :
        LET row == versions[v]
            config == Config(v, body)
            hash == UpdatedHash(v, config)
        IN  CASE ~LiveVersion(v) -> Refused(r, "not_found")
              [] row.state = "published" -> Refused(r, "conflict")
              [] row.state = "draft" ->
                   Holds(r, "update_version",
                     [Idle EXCEPT !.version = v, !.config = config, !.hash = hash,
                        !.sets = Sets(v, config, hash)])
  BY DEF BeginUpdateVersion
<1> DEFINE config == Config(v, body)
           hash == UpdatedHash(v, config)
<1>2. CASE ~LiveVersion(v)
  <2>1. versions[v].state # "published" /\ versions[v].state # "draft"
    BY <1>2 DEF LiveVersion
  <2>. QED  BY <1>1, <1>2, <2>1, RefusedDecides, ReplyTypes
<1>3. CASE versions[v].state = "published"
  BY <1>1, <1>3, RefusedDecides, ReplyTypes DEF LiveVersion
<1>4. CASE versions[v].state = "draft"
  <2> DEFINE sets == Sets(v, config, hash)
             h == [Idle EXCEPT !.version = v, !.config = config, !.hash = hash,
                               !.sets = sets]
             q == [h EXCEPT !.op = "update_version"]
  <2>0. Holds(r, "update_version", h)
    BY <1>1, <1>4 DEF LiveVersion
  <2>1. /\ config \in [Fields -> Values \cup {NoId}] /\ hash = config
        /\ sets \in SUBSET (Fields \cup {"config_hash"})
    <3>1. versions[v].config \in [Fields -> Values \cup {NoId}]
      BY DEF TypeOK, VersionRows
    <3>. QED  BY <3>1 DEF UpdatedHash, Hash
  <2>2. /\ \A f \in Fields \ sets : config[f] = versions[v].config[f]
        /\ "config_hash" \notin sets => hash = versions[v].hash
    OBVIOUS
  <2> HIDE DEF config, hash, sets
  <2>3. h \in HandlerStates
    BY <2>1, IdleType DEF HandlerStates
  <2>4. /\ q.op = "update_version" /\ q.reply = "none" /\ q.version = v
        /\ q.config = config /\ q.hash = hash /\ q.sets = sets
    BY DEF Idle
  <2> HIDE DEF q
  <2>5. Held(q, started + 1)
    BY <2>4, <1>4 DEF Held, AgentOps, VersionOps, ToolOps
  <2>6. Accepted(q)
    BY <2>1, <2>2, <2>4, <1>4 DEF Accepted, Hash, LiveVersion
  <2>. QED  BY <2>0, <2>3, <2>5, <2>6, HoldsDecides DEF Ops, q
<1>5. versions[v].state \in {"draft", "published"} \/ ~LiveVersion(v)
  BY DEF LiveVersion
<1>. QED  BY <1>2, <1>3, <1>4, <1>5

\* publish_version decides well: a draft was read.
LEMMA PublishVersionBegins ==
  ASSUME TypeOK, NEW r \in Requests, BeginPublishVersion(r)
  PROVE  Decided(r)
<1>1. PICK v \in VersionIds :
        CASE ~LiveVersion(v) -> Refused(r, "not_found")
          [] versions[v].state = "published" -> Refused(r, "ok")
          [] versions[v].state = "draft" ->
               Holds(r, "publish_version",
                     [Idle EXCEPT !.version = v, !.at = Now])
  BY DEF BeginPublishVersion
<1>2. CASE ~LiveVersion(v)
  <2>1. versions[v].state # "published" /\ versions[v].state # "draft"
    BY <1>2 DEF LiveVersion
  <2>. QED  BY <1>1, <1>2, <2>1, RefusedDecides, ReplyTypes
<1>3. CASE versions[v].state = "published"
  BY <1>1, <1>3, RefusedDecides, ReplyTypes DEF LiveVersion
<1>4. CASE versions[v].state = "draft"
  <2> DEFINE h == [Idle EXCEPT !.version = v, !.at = Now]
             q == [h EXCEPT !.op = "publish_version"]
  <2>0. Holds(r, "publish_version", h)
    BY <1>1, <1>4 DEF LiveVersion
  <2>1. h \in HandlerStates
    <3>1. Now \in Nat
      BY DEF Now, TypeOK
    <3>. QED  BY <3>1, IdleType DEF HandlerStates
  <2>2. q.op = "publish_version" /\ q.reply = "none" /\ q.version = v
    BY DEF Idle
  <2> HIDE DEF q
  <2>3. Held(q, started + 1)
    BY <2>2, <1>4 DEF Held, AgentOps, VersionOps, ToolOps
  <2>4. Accepted(q)
    BY <2>2, <1>4 DEF Accepted
  <2>. QED  BY <2>0, <2>1, <2>3, <2>4, HoldsDecides DEF Ops, q
<1>5. versions[v].state \in {"draft", "published"} \/ ~LiveVersion(v)
  BY DEF LiveVersion
<1>. QED  BY <1>2, <1>3, <1>4, <1>5

\* create_session decides well: the version is the agent's, and published if none was named.
LEMMA CreateSessionBegins ==
  ASSUME TypeOK, RowInv, NEW r \in Requests, BeginCreateSession(r)
  PROVE  Decided(r)
<1>1. PICK a \in AgentIds, named \in VersionIds \cup {NoId} :
        LET v == IF named = NoId THEN DefaultVersion(a) ELSE named
        IN  CASE agents[a] # "live" -> Refused(r, "not_found")
            [] agents[a] = "live" /\ named # NoId /\ named \notin VersionsOf(a) ->
                 Refused(r, "not_found")
            [] agents[a] = "live" /\ v = NoId -> Refused(r, "conflict")
            [] agents[a] = "live" /\ v \in VersionsOf(a) ->
                 Holds(r, "create_session",
                       [Idle EXCEPT !.agent = a, !.version = v,
                                    !.flag = (named # NoId),
                                    !.hash = versions[v].hash])
  BY DEF BeginCreateSession
<1> DEFINE v == IF named = NoId THEN DefaultVersion(a) ELSE named
<1>0. \A x \in VersionsOf(a) : x \in VersionIds /\ x # NoId
  BY NoIdAssumption DEF VersionsOf
<1>2. CASE agents[a] # "live"
  BY <1>1, <1>2, RefusedDecides, ReplyTypes
<1>3. CASE agents[a] = "live" /\ named # NoId /\ named \notin VersionsOf(a)
  BY <1>1, <1>3, RefusedDecides, ReplyTypes
<1>4. CASE agents[a] = "live" /\ v = NoId
  BY <1>1, <1>4, <1>0, RefusedDecides, ReplyTypes
<1>5. CASE agents[a] = "live" /\ v \in VersionsOf(a)
  <2> DEFINE h == [Idle EXCEPT !.agent = a, !.version = v,
                               !.flag = (named # NoId), !.hash = versions[v].hash]
             q == [h EXCEPT !.op = "create_session"]
  <2>0. Holds(r, "create_session", h)
    BY <1>1, <1>5, <1>0
  <2>1. named = NoId => versions[v].state = "published"
    BY <1>5, <1>0, LatestIsPublished DEF DefaultVersion
  <2>2. /\ v \in VersionIds /\ versions[v].agent = a /\ LiveVersion(v)
        /\ versions[v].hash \in [Fields -> Values \cup {NoId}]
    BY <1>5 DEF VersionsOf, TypeOK, VersionRows
  <2> HIDE DEF v
  <2>3. h \in HandlerStates
    BY <2>2, IdleType DEF HandlerStates
  <2>4. /\ q.op = "create_session" /\ q.reply = "none" /\ q.agent = a
        /\ q.version = v /\ q.flag = (named # NoId)
    BY DEF Idle
  <2> HIDE DEF q
  <2>5. Held(q, started + 1)
    BY <2>1, <2>2, <2>4, <1>5 DEF Held, AgentOps, VersionOps, ToolOps, LiveVersion
  <2>6. Accepted(q)
    BY <2>2, <2>4, <1>5 DEF Accepted, SessionInsertAllowed
  <2>. QED  BY <2>0, <2>3, <2>5, <2>6, HoldsDecides DEF Ops, q
<1>6. agents[a] = "live" /\ ~(named # NoId /\ named \notin VersionsOf(a)) /\ v # NoId
        => v \in VersionsOf(a)
  BY LatestIsPublished DEF DefaultVersion
<1>. QED  BY <1>2, <1>3, <1>4, <1>5, <1>6

\* create_tool decides well: the name was free.
LEMMA CreateToolBegins ==
  ASSUME TypeOK, NEW r \in Requests, BeginCreateTool(r)
  PROVE  Decided(r)
<1>1. PICK name \in Names :
        IF NameTaken(name) THEN Refused(r, "conflict")
        ELSE Holds(r, "create_tool", [Idle EXCEPT !.name = name])
  BY DEF BeginCreateTool
<1>2. CASE NameTaken(name)
  BY <1>1, <1>2, RefusedDecides, ReplyTypes
<1>3. CASE ~NameTaken(name)
  <2> DEFINE h == [Idle EXCEPT !.name = name]
             q == [h EXCEPT !.op = "create_tool"]
  <2>1. h \in HandlerStates
    BY IdleType DEF HandlerStates
  <2>2. q.op = "create_tool" /\ q.reply = "none" /\ q.name = name
    BY DEF Idle
  <2>3. Held(q, started + 1)
    BY <2>2 DEF Held, AgentOps, VersionOps, ToolOps
  <2>4. Accepted(q)
    BY <2>2, <1>3 DEF Accepted, ToolNameAllowed, NameTaken
  <2>. QED  BY <1>1, <1>3, <2>1, <2>3, <2>4, HoldsDecides DEF Ops
<1>. QED  BY <1>2, <1>3

\* update_tool decides well: the name was free or is not written.
LEMMA UpdateToolBegins ==
  ASSUME TypeOK, RowInv, NEW r \in Requests, BeginUpdateTool(r)
  PROVE  Decided(r)
<1>1. PICK t \in ToolIds, name \in Names :
      CASE ~LiveTool(t) -> Refused(r, "not_found")
        [] LiveTool(t) /\ name # tools[t].name /\ NameTaken(name) ->
             Refused(r, "conflict")
        [] LiveTool(t) /\ ~(name # tools[t].name /\ NameTaken(name)) ->
             Holds(r, "update_tool",
                   [Idle EXCEPT !.tool = t,
                      !.name = IF name # tools[t].name THEN name ELSE NoId])
  BY DEF BeginUpdateTool
<1>2. CASE ~LiveTool(t)
  BY <1>1, <1>2, RefusedDecides, ReplyTypes
<1>3. CASE LiveTool(t) /\ name # tools[t].name /\ NameTaken(name)
  BY <1>1, <1>3, RefusedDecides, ReplyTypes
<1>4. CASE LiveTool(t) /\ ~(name # tools[t].name /\ NameTaken(name))
  <2> DEFINE written == IF name # tools[t].name THEN name ELSE NoId
             h == [Idle EXCEPT !.tool = t, !.name = written]
             q == [h EXCEPT !.op = "update_tool"]
  <2>0. Holds(r, "update_tool", h)
    BY <1>1, <1>4
  <2>1. written \in Names \cup {NoId}
    OBVIOUS
  <2>2. ToolNameAllowed(t, written)
    BY <1>4, NoIdAssumption DEF ToolNameAllowed, NameTaken, RowInv, ToolsNamed
  <2> HIDE DEF written
  <2>3. h \in HandlerStates
    BY <2>1, IdleType DEF HandlerStates
  <2>4. q.op = "update_tool" /\ q.reply = "none" /\ q.tool = t /\ q.name = written
    BY DEF Idle
  <2> HIDE DEF q
  <2>5. Held(q, started + 1)
    BY <2>4 DEF Held, AgentOps, VersionOps, ToolOps
  <2>6. Accepted(q)
    BY <2>2, <2>4, <1>4 DEF Accepted
  <2>. QED  BY <2>0, <2>3, <2>5, <2>6, HoldsDecides DEF Ops, q
<1>. QED  BY <1>2, <1>3, <1>4

\* delete_tool decides well: the tool existed when it was read.
LEMMA DeleteToolBegins ==
  ASSUME TypeOK, NEW r \in Requests, BeginDeleteTool(r)
  PROVE  Decided(r)
<1>1. PICK t \in ToolIds :
        IF ~LiveTool(t) THEN Refused(r, "not_found")
        ELSE Holds(r, "delete_tool", [Idle EXCEPT !.tool = t])
  BY DEF BeginDeleteTool
<1>2. CASE ~LiveTool(t)
  BY <1>1, <1>2, RefusedDecides, ReplyTypes
<1>3. CASE LiveTool(t)
  <2> DEFINE h == [Idle EXCEPT !.tool = t]
             q == [h EXCEPT !.op = "delete_tool"]
  <2>1. h \in HandlerStates
    BY IdleType DEF HandlerStates
  <2>2. q.op = "delete_tool" /\ q.reply = "none" /\ q.tool = t
    BY DEF Idle
  <2>3. Held(q, started + 1) /\ Accepted(q)
    BY <2>2 DEF Held, Accepted, AgentOps, VersionOps, ToolOps
  <2>. QED  BY <1>1, <1>3, <2>1, <2>3, HoldsDecides DEF Ops
<1>. QED  BY <1>2, <1>3

\* _require_draft_version answers one of three ways.
LEMMA RequireDraft ==
  ASSUME NEW v \in VersionIds
  PROVE  /\ require_draft_version(v) \in Replies
         /\ require_draft_version(v) = "none" => LiveVersion(v)
<1>1. CASE ~LiveVersion(v)
  BY <1>1 DEF require_draft_version, LiveVersion, Replies
<1>2. CASE versions[v].state = "published"
  BY <1>2 DEF require_draft_version, LiveVersion, Replies
<1>3. CASE versions[v].state = "draft"
  BY <1>3 DEF require_draft_version, LiveVersion, Replies
<1>. QED  BY <1>1, <1>2, <1>3 DEF LiveVersion

\* attach_tool decides well: a draft and a tool were read.
LEMMA AttachToolBegins ==
  ASSUME TypeOK, NEW r \in Requests, BeginAttachTool(r)
  PROVE  Decided(r)
<1>1. PICK v \in VersionIds, t \in ToolIds :
      CASE require_draft_version(v) # "none" ->
             Refused(r, require_draft_version(v))
        [] require_draft_version(v) = "none" /\ ~LiveTool(t) ->
             Refused(r, "not_found")
        [] require_draft_version(v) = "none" /\ LiveTool(t) ->
             Holds(r, "attach_tool",
                   [Idle EXCEPT !.version = v, !.tool = t,
                                !.flag = (<<v, t>> \in attached)])
  BY DEF BeginAttachTool
<1>2. CASE require_draft_version(v) # "none"
  BY <1>1, <1>2, RefusedDecides, RequireDraft
<1>3. CASE require_draft_version(v) = "none" /\ ~LiveTool(t)
  BY <1>1, <1>3, RefusedDecides, ReplyTypes
<1>4. CASE require_draft_version(v) = "none" /\ LiveTool(t)
  <2> DEFINE exists == <<v, t>> \in attached
             h == [Idle EXCEPT !.version = v, !.tool = t, !.flag = exists]
             q == [h EXCEPT !.op = "attach_tool"]
  <2>0. Holds(r, "attach_tool", h) /\ exists \in BOOLEAN
    BY <1>1, <1>4
  <2> HIDE DEF exists
  <2>1. LiveVersion(v)
    BY <1>4, RequireDraft
  <2>2. h \in HandlerStates
    BY <2>0, IdleType DEF HandlerStates
  <2>3. /\ q.op = "attach_tool" /\ q.reply = "none" /\ q.version = v
        /\ q.tool = t /\ q.flag = exists
    BY DEF Idle
  <2> HIDE DEF q
  <2>4. Held(q, started + 1)
    BY <2>1, <2>3 DEF Held, AgentOps, VersionOps, ToolOps, LiveVersion
  <2>5. Accepted(q)
    BY <2>1, <2>3, <1>4 DEF Accepted, exists
  <2>. QED  BY <2>0, <2>2, <2>4, <2>5, HoldsDecides DEF Ops, q
<1>. QED  BY <1>2, <1>3, <1>4

\* detach_tool decides well: a draft was read.
LEMMA DetachToolBegins ==
  ASSUME TypeOK, NEW r \in Requests, BeginDetachTool(r)
  PROVE  Decided(r)
<1>1. PICK v \in VersionIds, t \in ToolIds :
      CASE require_draft_version(v) # "none" ->
             Refused(r, require_draft_version(v))
        [] require_draft_version(v) = "none" /\ <<v, t>> \notin attached ->
             Refused(r, "not_found")
        [] require_draft_version(v) = "none" /\ <<v, t>> \in attached ->
             Holds(r, "detach_tool", [Idle EXCEPT !.version = v, !.tool = t])
  BY DEF BeginDetachTool
<1>2. CASE require_draft_version(v) # "none"
  BY <1>1, <1>2, RefusedDecides, RequireDraft
<1>3. CASE require_draft_version(v) = "none" /\ <<v, t>> \notin attached
  BY <1>1, <1>3, RefusedDecides, ReplyTypes
<1>4. CASE require_draft_version(v) = "none" /\ <<v, t>> \in attached
  <2> DEFINE h == [Idle EXCEPT !.version = v, !.tool = t]
             q == [h EXCEPT !.op = "detach_tool"]
  <2>0. Holds(r, "detach_tool", h)
    BY <1>1, <1>4
  <2>1. LiveVersion(v)
    BY <1>4, RequireDraft
  <2>2. h \in HandlerStates
    BY IdleType DEF HandlerStates
  <2>3. q.op = "detach_tool" /\ q.reply = "none" /\ q.version = v /\ q.tool = t
    BY DEF Idle
  <2> HIDE DEF q
  <2>4. Held(q, started + 1) /\ Accepted(q)
    BY <2>1, <2>3 DEF Held, Accepted, AgentOps, VersionOps, ToolOps, LiveVersion
  <2>. QED  BY <2>0, <2>2, <2>4, HoldsDecides DEF Ops, q
<1>. QED  BY <1>2, <1>3, <1>4

\* What a step keeps of the rows: uuids are not drawn twice, an existing
\* version keeps its agent and its number, and goes only with its agent.
Kept ==
    /\ \A a \in AgentIds : agents[a] # "none" =>
         /\ agents'[a] # "none"
         /\ agents'[a] = "live" =>
              /\ agents[a] = "live"
              /\ \A v \in VersionsOf(a) :
                   v \in VersionsOf(a)' /\ versions'[v].n = versions[v].n
    /\ \A v \in VersionIds : versions[v].state # "none" =>
         /\ versions'[v].state # "none"
         /\ LiveVersion(v)' =>
              /\ LiveVersion(v) /\ versions'[v].agent = versions[v].agent
              /\ versions[v].state = "published" => versions'[v].state = "published"

\* The fields of a handler's state that Held is about.
SameHeld(p, q) ==
    /\ p.op = q.op /\ p.reply = q.reply /\ p.agent = q.agent
    /\ p.version = q.version /\ p.tool = q.tool /\ p.n = q.n
    /\ p.name = q.name /\ p.flag = q.flag

\* A step that keeps the rows keeps what a handler counts on.
LEMMA HeldStays ==
  ASSUME NEW r \in Requests, NEW q \in HandlerStates, NEW b \in Nat, Kept,
         started' \in Nat, b <= started', Held(q, b), SameHeld(req'[r], q)
  PROVE  Held(req[r], started)'
<1> DEFINE p == req'[r]
<1>1. SameHeld(p, q)
  OBVIOUS
<1>2. /\ p.op # "none" => p.reply = "none"
      /\ p.op \in ToolOps => p.tool \in ToolIds
      /\ p.op = "create_tool" => p.name \in Names
  BY <1>1 DEF SameHeld, Held
<1>3. p.op \in AgentOps => p.agent \in AgentIds /\ agents'[p.agent] # "none"
  BY <1>1 DEF SameHeld, Held, Kept
<1>4. p.op \in VersionOps => p.version \in VersionIds /\ versions'[p.version].state # "none"
  BY <1>1 DEF SameHeld, Held, Kept
<1>5. ASSUME p.op = "create_session", LiveVersion(req[r].version)'
      PROVE  /\ versions'[p.version].agent = p.agent
             /\ ~p.flag => versions'[p.version].state = "published"
  <2>1. q.version = p.version /\ q.version \in VersionIds /\ versions[q.version].state # "none"
    BY <1>1, <1>5 DEF SameHeld, Held, VersionOps
  <2>2. /\ LiveVersion(q.version) /\ versions'[q.version].agent = versions[q.version].agent
        /\ versions[q.version].state = "published" => versions'[q.version].state = "published"
    BY <2>1, <1>5 DEF Kept, LiveVersion
  <2>. QED  BY <2>1, <2>2, <1>1, <1>5 DEF SameHeld, Held
<1>6. ASSUME p.op = "create_version"
      PROVE  /\ p.n > 0 /\ p.n <= started'
             /\ agents'[p.agent] = "live" => NumberedBelow(req[r].agent, req[r].n)'
  <2>1. /\ q.agent = p.agent /\ q.n = p.n /\ q.n \in Nat /\ q.n > 0 /\ q.n <= b
        /\ q.agent \in AgentIds /\ agents[q.agent] # "none"
        /\ agents[q.agent] = "live" => NumberedBelow(q.agent, q.n)
    BY <1>1, <1>6 DEF SameHeld, Held, AgentOps, HandlerStates
  <2>2. p.n > 0 /\ p.n <= started'
    BY <2>1
  <2>3. ASSUME agents'[q.agent] = "live"
        PROVE  NumberedBelow(q.agent, q.n)'
    <3>1. /\ NumberedBelow(q.agent, q.n)
          /\ \A v \in VersionsOf(q.agent) :
               v \in VersionsOf(q.agent)' /\ versions'[v].n = versions[v].n
      BY <2>1, <2>3 DEF Kept
    <3>. QED  BY <3>1 DEF NumberedBelow
  <2>. QED  BY <2>1, <2>2, <2>3 DEF NumberedBelow, VersionsOf, LiveVersion
<1>. QED  BY <1>2, <1>3, <1>4, <1>5, <1>6 DEF Held

\* A request that begins keeps the invariant, and no request is answered 500
\* by it.
LEMMA DecidedKeeps ==
  ASSUME IInv, NEW r \in Requests, Decided(r)
  PROVE  /\ IInv'
         /\ \A q \in Requests : InFlight(q) => req'[q].reply = "none"
<1>1. PICK h \in HandlerStates :
        Arrive(r, h) /\ UnchangedRows /\ Held(h, started + 1) /\ Accepted(h)
  BY DEF Decided
<1> DEFINE others == {q \in Requests \ {r} : InFlight(q)}
<1>2. /\ ~InFlight(r) /\ started' = started + 1
      /\ req' = [q \in Requests |->
                   IF q = r THEN [h EXCEPT !.alone = (others = {})]
                   ELSE IF q \in others THEN [req[q] EXCEPT !.alone = FALSE]
                   ELSE req[q]]
  BY <1>1 DEF Arrive
<1>3. UNCHANGED <<agents, versions, tools, attached, sessions>>
  BY <1>1 DEF UnchangedRows
<1>4. TypeOK /\ RowInv /\ AllHeld /\ AloneInv
  BY DEF IInv
<1>5. req'[r] = [h EXCEPT !.alone = (others = {})]
  BY <1>2
<1>6. \A q \in Requests \ {r} :
        /\ q \in others => req'[q] = [req[q] EXCEPT !.alone = FALSE]
        /\ q \notin others => req'[q] = req[q]
  BY <1>2
<1>7. \A q \in Requests : req[q] \in HandlerStates
  BY <1>4 DEF TypeOK
<1>8. TypeOK'
  <2>1. [h EXCEPT !.alone = (others = {})] \in HandlerStates
    BY DEF HandlerStates
  <2>2. \A q \in Requests : [req[q] EXCEPT !.alone = FALSE] \in HandlerStates
    BY <1>7 DEF HandlerStates
  <2>3. req' \in [Requests -> HandlerStates]
    BY <2>1, <2>2, <1>2, <1>7
  <2>. QED  BY <2>3, <1>2, <1>3, <1>4 DEF TypeOK
<1>9. RowInv'
  <2>1. NumbersBounded'
    BY <1>2, <1>3, <1>4 DEF RowInv, NumbersBounded, LiveVersion, TypeOK, VersionRows
  <2>2. (VersionNumbersContiguous /\ ToolNamesUnique /\ ReferencesResolve
           /\ PinnedIsPublished /\ ToolsNamed /\ AgentsKnown)'
    BY <1>3, <1>4 DEF RowInv, VersionNumbersContiguous, ToolNamesUnique,
       ReferencesResolve, PinnedIsPublished, ToolsNamed, AgentsKnown, VersionsOf,
       LiveVersion, LiveTool, LiveSession
  <2>. QED  BY <2>1, <2>2 DEF RowInv
<1>10. Kept
  BY <1>3, <1>4 DEF Kept, VersionsOf, LiveVersion
<1>11. \A q \in HandlerStates : Held(q, started) => Held(q, started + 1)
  BY <1>4 DEF Held, HandlerStates, TypeOK
<1>12. \A q \in HandlerStates, a \in BOOLEAN : SameHeld([q EXCEPT !.alone = a], q)
  BY DEF SameHeld, HandlerStates
<1>13. AllHeld'
  <2>0. started + 1 \in Nat /\ started' = started + 1
    BY <1>2, <1>4 DEF TypeOK
  <2> SUFFICES ASSUME NEW q \in Requests PROVE Held(req[q], started)'
    BY DEF AllHeld
  <2>1. CASE q = r
    <3>1. SameHeld(req'[r], h)
      BY <1>5, <1>12
    <3>. QED  BY <3>1, <2>0, <2>1, <1>1, <1>10, HeldStays
  <2>2. CASE q # r
    <3>1. Held(req[q], started + 1)
      BY <1>4, <1>7, <1>11 DEF AllHeld
    <3>2. SameHeld(req'[q], req[q])
      <4>1. req'[q] = req[q] \/ req'[q] = [req[q] EXCEPT !.alone = FALSE]
        BY <2>2, <1>6
      <4>2. SameHeld(req[q], req[q])
        BY DEF SameHeld
      <4>. QED  BY <4>1, <4>2, <1>7, <1>12
    <3>. QED  BY <3>1, <3>2, <2>0, <1>7, <1>10, HeldStays
  <2>. QED  BY <2>1, <2>2
<1>14. AloneInv'
  <2> SUFFICES ASSUME NEW q \in Requests, InFlight(q)', req'[q].alone
               PROVE  Accepted(req[q])' /\ \A p \in Requests : InFlight(p)' => p = q
    BY DEF AloneInv
  <2>1. CASE q = r
    <3>1. others = {}
      BY <2>1, <1>5 DEF HandlerStates
    <3>2. \A p \in Requests \ {r} : ~InFlight(p)'
      BY <3>1, <1>6 DEF InFlight
    <3>3. Accepted([h EXCEPT !.alone = (others = {})])
      BY <1>1 DEF Accepted, HandlerStates
    <3>4. Accepted(req[r])'
      BY <3>3, <1>3, <1>5 DEF Accepted, LiveVersion, LiveTool, VersionInsertAllowed,
         SessionInsertAllowed, ToolNameAllowed, VersionsOf
    <3>. QED  BY <3>2, <3>4, <2>1
  <2>2. CASE q # r
    <3>1. q \in others
      BY <2>2, <1>6 DEF InFlight
    <3>2. req'[q] = [req[q] EXCEPT !.alone = FALSE]
      BY <3>1, <2>2, <1>6
    <3>3. req'[q].alone = FALSE
      BY <3>2, <1>7 DEF HandlerStates
    <3>. QED  BY <3>3
  <2>. QED  BY <2>1, <2>2
<1>15. \A q \in Requests : InFlight(q) => req'[q].reply = "none"
  <2> SUFFICES ASSUME NEW q \in Requests, InFlight(q) PROVE req'[q].reply = "none"
    OBVIOUS
  <2>1. q \in others /\ q # r
    BY <1>2
  <2>2. req[q].reply = "none"
    BY <1>4 DEF AllHeld, Held, InFlight
  <2>3. req'[q] = [req[q] EXCEPT !.alone = FALSE]
    BY <2>1, <1>6
  <2>. QED  BY <2>2, <2>3, <1>7 DEF HandlerStates
<1>. QED  BY <1>8, <1>9, <1>13, <1>14, <1>15 DEF IInv

-----------------------------------------------------------------------------
(* Requests end.                                                           *)

RowTypes ==
    /\ agents \in [AgentIds -> {"none", "live", "gone"}]
    /\ versions \in [VersionIds -> VersionRows]
    /\ tools \in [ToolIds -> ToolRows]
    /\ attached \subseteq VersionIds \X ToolIds
    /\ sessions \in [SessionIds -> SessionRows]

\* Some version's hash is no longer that of its configuration.
HashBreaks == \E v \in VersionIds : LiveVersion(v) /\ Hashed(v) /\ ~Hashed(v)'

\* What the end of a request does, whatever it writes.
Ended(r) ==
    /\ InFlight(r) /\ started' = started
    /\ \E reply \in Replies :
         /\ Answer(r, reply)
         /\ req[r].alone /\ reply = "internal" => req[r].op = "delete_agent"
    /\ RowTypes' /\ RowInv' /\ Kept
    /\ HashBreaks => req[r].op = "update_version" /\ ~req[r].alone

\* The versions and what refers to them are untouched.
LEMMA VersionsSame ==
  ASSUME TypeOK, RowInv, UNCHANGED <<agents, versions, sessions, started>>
  PROVE  /\ VersionNumbersContiguous' /\ PinnedIsPublished' /\ NumbersBounded'
         /\ AgentsKnown' /\ Kept /\ ~HashBreaks
<1>1. \A a : VersionsOf(a)' = VersionsOf(a)
  BY DEF VersionsOf, LiveVersion
<1>2. VersionNumbersContiguous' /\ PinnedIsPublished' /\ NumbersBounded' /\ AgentsKnown'
  BY <1>1 DEF RowInv, VersionNumbersContiguous, PinnedIsPublished, NumbersBounded,
     AgentsKnown, LiveVersion, LiveSession
<1>3. Kept
  BY <1>1 DEF Kept, LiveVersion
<1>4. ~HashBreaks
  BY DEF HashBreaks, Hashed
<1>. QED  BY <1>2, <1>3, <1>4

\* The tools are untouched.
LEMMA ToolsSame ==
  ASSUME RowInv, UNCHANGED tools
  PROVE  ToolNamesUnique' /\ ToolsNamed'
BY DEF RowInv, ToolNamesUnique, ToolsNamed, LiveTool

\* The rows are untouched.
LEMMA RowsSame ==
  ASSUME TypeOK, RowInv, UnchangedRows, UNCHANGED started
  PROVE  RowTypes' /\ RowInv' /\ Kept /\ ~HashBreaks
<1>1. UNCHANGED <<agents, versions, tools, attached, sessions>>
  BY DEF UnchangedRows
<1>2. RowTypes'
  BY <1>1 DEF TypeOK, RowTypes
<1>3. ReferencesResolve'
  BY <1>1 DEF RowInv, ReferencesResolve, VersionsOf, LiveVersion, LiveTool, LiveSession
<1>. QED  BY <1>1, <1>2, <1>3, VersionsSame, ToolsSame DEF RowInv

\* Replies that are used when a request fails.
LEMMA MoreReplies == "internal" \in Replies /\ "unavailable" \in Replies
BY DEF Replies

\* A rejected flush changes no row.
LEMMA RejectedEnds ==
  ASSUME TypeOK, RowInv, NEW r \in Requests, InFlight(r), Rejected(r),
         req[r].alone => req[r].op = "delete_agent"
  PROVE  Ended(r)
BY RowsSame, MoreReplies DEF Rejected, Ended

\* A request that met no other is accepted.
LEMMA AloneAccepted ==
  ASSUME IInv, NEW r \in Requests, InFlight(r), req[r].alone
  PROVE  Accepted(req[r])
BY DEF IInv, AloneInv

\* The answer "ok" is never 500.
LEMMA OkEnds ==
  ASSUME NEW r \in Requests, InFlight(r), Answer(r, "ok"), UNCHANGED started,
         RowTypes', RowInv', Kept,
         HashBreaks => req[r].op = "update_version" /\ ~req[r].alone
  PROVE  Ended(r)
BY ReplyTypes DEF Ended

\* A lost connection changes no row.
LEMMA DatabaseFailsEnds ==
  ASSUME IInv, NEW r \in Requests, DatabaseFails(r)
  PROVE  Ended(r)
BY RowsSame, MoreReplies DEF DatabaseFails, Ended, IInv

\* create_agent ends well: a new agent has no versions.
LEMMA CreateAgentEnds ==
  ASSUME IInv, NEW r \in Requests, CommitCreateAgent(r)
  PROVE  Ended(r)
<1>1. PICK a \in AgentIds : agents[a] = "none" /\ agents' = [agents EXCEPT ![a] = "live"]
  BY DEF CommitCreateAgent
<1>2. /\ InFlight(r) /\ Answer(r, "ok")
      /\ UNCHANGED <<versions, tools, attached, sessions, started>>
  BY DEF CommitCreateAgent
<1>3. TypeOK /\ RowInv
  BY DEF IInv
<1>4. RowTypes'
  BY <1>1, <1>2, <1>3 DEF TypeOK, RowTypes
<1>5. \A x : VersionsOf(x)' = VersionsOf(x)
  BY <1>2 DEF VersionsOf, LiveVersion
<1>6. \A x \in AgentIds : agents[x] # "none" => agents'[x] = agents[x]
  BY <1>1, <1>3 DEF TypeOK
<1>7. VersionNumbersContiguous' /\ PinnedIsPublished' /\ NumbersBounded' /\ AgentsKnown'
  BY <1>2, <1>3, <1>5 DEF RowInv, VersionNumbersContiguous, PinnedIsPublished,
     NumbersBounded, AgentsKnown, LiveVersion, LiveSession
<1>8. ReferencesResolve'
  <2>1. \A x \in AgentIds : agents[x] = "live" => agents'[x] = "live"
    BY <1>6
  <2>. QED  BY <2>1, <1>2, <1>3, <1>5 DEF RowInv, ReferencesResolve, AgentsKnown,
            LiveVersion, LiveTool, LiveSession
<1>9. Kept
  BY <1>2, <1>5, <1>6 DEF Kept, LiveVersion
<1>10. ~HashBreaks
  BY <1>2 DEF HashBreaks, Hashed
<1>. QED  BY <1>2, <1>3, <1>4, <1>7, <1>8, <1>9, <1>10, ToolsSame, OkEnds DEF RowInv

\* update_agent ends well: no row that is modelled changes.
LEMMA UpdateAgentEnds ==
  ASSUME IInv, NEW r \in Requests, CommitUpdateAgent(r)
  PROVE  Ended(r)
<1>1. InFlight(r) /\ req[r].op = "update_agent" /\ TypeOK /\ RowInv
  BY DEF CommitUpdateAgent, IInv
<1>2. CASE agents[req[r].agent] # "live"
  <2>1. Rejected(r)
    BY <1>2 DEF CommitUpdateAgent
  <2>2. ~req[r].alone
    BY <1>1, <1>2, AloneAccepted DEF Accepted
  <2>. QED  BY <1>1, <2>1, <2>2, RejectedEnds
<1>3. CASE agents[req[r].agent] = "live"
  BY <1>1, <1>3, RowsSame, OkEnds DEF CommitUpdateAgent
<1>. QED  BY <1>2, <1>3

\* Versions change in their state, configuration and hash only, and none is
\* taken back.
LEMMA VersionsRewritten ==
  ASSUME TypeOK, RowInv, UNCHANGED <<agents, tools, attached, sessions, started>>,
         versions' \in [VersionIds -> VersionRows],
         \A w \in VersionIds :
           /\ versions'[w].agent = versions[w].agent /\ versions'[w].n = versions[w].n
           /\ LiveVersion(w)' = LiveVersion(w)
           /\ versions[w].state = "published" => versions'[w].state = "published"
           /\ versions[w].state # "none" => versions'[w].state # "none"
  PROVE  RowTypes' /\ RowInv' /\ Kept
<1>1. RowTypes'
  BY DEF TypeOK, RowTypes
<1>2. \A a : VersionsOf(a)' = VersionsOf(a)
  BY DEF VersionsOf
<1>3. \A a : VersionsOf(a) \subseteq VersionIds
  BY DEF VersionsOf
<1>4. VersionNumbersContiguous'
  BY <1>2, <1>3 DEF RowInv, VersionNumbersContiguous
<1>5. NumbersBounded'
  BY DEF RowInv, NumbersBounded
<1>6. ReferencesResolve'
  <2>1. \A p \in attached : p[1] \in VersionIds
    BY DEF TypeOK
  <2>. QED  BY <2>1, <1>2 DEF RowInv, ReferencesResolve, LiveSession, LiveTool
<1>7. PinnedIsPublished'
  BY <1>3 DEF RowInv, PinnedIsPublished, ReferencesResolve, LiveSession
<1>8. Kept
  BY <1>2, <1>3 DEF Kept
<1>9. AgentsKnown'
  BY DEF RowInv, AgentsKnown, LiveSession
<1>. QED  BY <1>1, <1>4, <1>5, <1>6, <1>7, <1>8, <1>9, ToolsSame DEF RowInv

\* publish_version ends well: only a state changes.
LEMMA PublishVersionEnds ==
  ASSUME IInv, NEW r \in Requests, CommitPublishVersion(r)
  PROVE  Ended(r)
<1> DEFINE v == req[r].version
<1>1. InFlight(r) /\ req[r].op = "publish_version" /\ TypeOK /\ RowInv
  BY DEF CommitPublishVersion, IInv
<1>2. CASE ~LiveVersion(v)
  <2>1. Rejected(r)
    BY <1>2 DEF CommitPublishVersion
  <2>2. ~req[r].alone
    BY <1>1, <1>2, AloneAccepted DEF Accepted, LiveVersion
  <2>. QED  BY <1>1, <2>1, <2>2, RejectedEnds
<1>3. CASE LiveVersion(v)
  <2>1. /\ versions' = [versions EXCEPT ![v].state = "published",
                                       ![v].published_at = req[r].at]
        /\ Answer(r, "ok") /\ UNCHANGED <<agents, tools, attached, sessions, started>>
    BY <1>3 DEF CommitPublishVersion
  <2>2. v \in VersionIds
    BY <1>1 DEF IInv, AllHeld, Held, VersionOps
  <2> HIDE DEF v
  <2>3. /\ versions'[v] = [versions[v] EXCEPT !.state = "published",
                                               !.published_at = req[r].at]
        /\ \A w \in VersionIds : w # v => versions'[w] = versions[w]
        /\ \A w \in VersionIds : versions[w] \in VersionRows
        /\ versions' \in [VersionIds -> VersionRows]
    <3>1. req[r].at \in Nat /\ versions \in [VersionIds -> VersionRows]
      BY <1>1 DEF TypeOK, HandlerStates
    <3>2. PICK new : new = [versions[v] EXCEPT !.state = "published",
                                               !.published_at = req[r].at]
      OBVIOUS
    <3>3. versions' = [versions EXCEPT ![v] = new]
      BY <2>1, <2>2, <3>1, <3>2
    <3>4. new \in VersionRows
      BY <2>2, <3>1, <3>2 DEF VersionRows
    <3>. QED  BY <2>2, <3>1, <3>2, <3>3, <3>4
  <2>4. \A w \in VersionIds :
          /\ versions'[w].agent = versions[w].agent /\ versions'[w].n = versions[w].n
          /\ versions'[w].config = versions[w].config
          /\ versions'[w].hash = versions[w].hash
          /\ LiveVersion(w)' = LiveVersion(w)
          /\ versions[w].state = "published" => versions'[w].state = "published"
          /\ versions[w].state # "none" => versions'[w].state # "none"
    <3>1. /\ versions'[v].state = "published" /\ versions'[v].n = versions[v].n
          /\ versions'[v].agent = versions[v].agent
          /\ versions'[v].config = versions[v].config
          /\ versions'[v].hash = versions[v].hash
      BY <2>2, <2>3 DEF VersionRows
    <3> TAKE w \in VersionIds
    <3>2. CASE w = v
      BY <3>1, <3>2, <1>3 DEF LiveVersion
    <3>3. CASE w # v
      BY <2>3, <3>3 DEF LiveVersion
    <3>. QED  BY <3>2, <3>3
  <2>5. RowTypes' /\ RowInv' /\ Kept
    BY <2>1, <2>3, <2>4, <1>1, VersionsRewritten
  <2>6. ~HashBreaks
    BY <2>4 DEF HashBreaks, Hashed, Hash
  <2>. QED  BY <2>1, <2>5, <2>6, <1>1, OkEnds
<1>. QED  BY <1>2, <1>3

\* update_version ends well: state, agent and number of the row stay.
LEMMA UpdateVersionEnds ==
  ASSUME IInv, NEW r \in Requests, CommitUpdateVersion(r)
  PROVE  Ended(r)
<1> DEFINE q == req[r]
           v == q.version
<1>1. InFlight(r) /\ q.op = "update_version" /\ TypeOK /\ RowInv /\ q \in HandlerStates
  BY DEF CommitUpdateVersion, IInv, TypeOK
<1>2. v \in VersionIds
  BY <1>1 DEF IInv, AllHeld, Held, VersionOps
<1>3. CASE q.sets # {} /\ ~LiveVersion(v)
  <2>1. Rejected(r)
    BY <1>3 DEF CommitUpdateVersion
  <2>2. ~req[r].alone
    BY <1>1, <1>3, AloneAccepted DEF Accepted, LiveVersion
  <2>. QED  BY <1>1, <2>1, <2>2, RejectedEnds
<1>4. CASE q.sets = {}
  <2>1. versions' = versions /\ Answer(r, "ok")
        /\ UNCHANGED <<agents, tools, attached, sessions, started>>
    BY <1>4 DEF CommitUpdateVersion
  <2>. QED  BY <2>1, <1>1, RowsSame, OkEnds DEF UnchangedRows
<1>5. CASE q.sets # {} /\ LiveVersion(v)
  <2>1. /\ versions' = [versions EXCEPT ![v] = WrittenVersion(q, versions[v])]
        /\ Answer(r, "ok") /\ UNCHANGED <<agents, tools, attached, sessions, started>>
    BY <1>5, <1>2, <1>1 DEF CommitUpdateVersion, TypeOK
  <2>2. PICK new : new = WrittenVersion(q, versions[v])
    OBVIOUS
  <2>3. /\ new \in VersionRows /\ new.state = versions[v].state
        /\ new.agent = versions[v].agent /\ new.n = versions[v].n
        /\ new.config = [f \in Fields |-> IF f \in q.sets THEN q.config[f]
                                           ELSE versions[v].config[f]]
        /\ new.hash = IF "config_hash" \in q.sets THEN q.hash ELSE versions[v].hash
    <3>1. versions[v] \in VersionRows
      BY <1>1, <1>2 DEF TypeOK
    <3>. QED  BY <2>2, <3>1, <1>1 DEF WrittenVersion, VersionRows, HandlerStates
  <2>4. versions'[v] = new /\ versions' \in [VersionIds -> VersionRows]
        /\ \A w \in VersionIds : w # v => versions'[w] = versions[w]
    BY <2>1, <2>2, <2>3, <1>1, <1>2 DEF TypeOK
  <2>5. \A w \in VersionIds :
          /\ versions'[w].agent = versions[w].agent /\ versions'[w].n = versions[w].n
          /\ LiveVersion(w)' = LiveVersion(w)
          /\ versions[w].state = "published" => versions'[w].state = "published"
          /\ versions[w].state # "none" => versions'[w].state # "none"
    BY <2>3, <2>4 DEF LiveVersion
  <2>6. RowTypes' /\ RowInv' /\ Kept
    BY <2>1, <2>4, <2>5, <1>1, VersionsRewritten
  <2>7. ASSUME q.alone  PROVE ~HashBreaks
    <3>1. /\ q.hash = q.config
          /\ \A f \in Fields \ q.sets : q.config[f] = versions[v].config[f]
          /\ "config_hash" \notin q.sets => q.hash = versions[v].hash
      BY <2>7, <1>1, AloneAccepted DEF Accepted, Hash
    <3>2. q.config \in [Fields -> Values \cup {NoId}]
      BY <1>1 DEF HandlerStates
    <3>3. new.config = q.config
      BY <3>1, <3>2, <2>3
    <3>4. new.hash = q.hash
      BY <3>1, <2>3
    <3>. QED  BY <3>1, <3>3, <3>4, <2>4 DEF HashBreaks, Hashed, Hash
  <2>. QED  BY <2>1, <2>6, <2>7, <1>1, OkEnds
<1>. QED  BY <1>3, <1>4, <1>5

\* create_version ends well: the new number continues the others.
LEMMA CreateVersionEnds ==
  ASSUME IInv, NEW r \in Requests, CommitCreateVersion(r)
  PROVE  Ended(r)
<1> DEFINE q == req[r]
<1>0. PICK a : a = q.agent
  OBVIOUS
<1>1. InFlight(r) /\ q.op = "create_version" /\ TypeOK /\ RowInv /\ q \in HandlerStates
  BY DEF CommitCreateVersion, IInv, TypeOK
<1>2. CASE ~VersionInsertAllowed(a, q.n)
  <2>1. Rejected(r)
    BY <1>0, <1>2 DEF CommitCreateVersion
  <2>2. ~req[r].alone
    BY <1>0, <1>1, <1>2, AloneAccepted DEF Accepted
  <2>. QED  BY <1>1, <2>1, <2>2, RejectedEnds
<1>3. CASE VersionInsertAllowed(a, q.n)
  <2> DEFINE new == [state |-> "draft", agent |-> a, n |-> q.n,
                     config |-> q.config, hash |-> q.hash,
                     published_at |-> 0]
  <2>1. /\ \E v \in VersionIds :
             versions[v] = NoVersion /\ versions' = [versions EXCEPT ![v] = new]
        /\ Answer(r, "ok") /\ UNCHANGED <<agents, tools, attached, sessions, started>>
    BY <1>0, <1>3 DEF CommitCreateVersion
  <2>2. PICK v \in VersionIds :
          versions[v] = NoVersion /\ versions' = [versions EXCEPT ![v] = new]
    BY <2>1
  <2>3. /\ a \in AgentIds /\ agents[a] = "live" /\ NumberedBelow(a, q.n)
        /\ q.n \in Nat /\ q.n > 0 /\ q.n <= started
        /\ \A w \in VersionsOf(a) : versions[w].n # q.n
    BY <1>0, <1>1, <1>3 DEF IInv, AllHeld, Held, AgentOps, VersionInsertAllowed, HandlerStates
  <2>4. new \in VersionRows
    BY <1>1, <2>3 DEF VersionRows, HandlerStates
  <2>5. /\ versions' \in [VersionIds -> VersionRows]
        /\ versions'[v].state = "draft" /\ versions'[v].agent = a /\ versions'[v].n = q.n
        /\ \A w \in VersionIds : w # v => versions'[w] = versions[w]
    BY <2>2, <2>4, <1>1 DEF TypeOK
  <2>6. versions[v].state = "none" /\ ~LiveVersion(v) /\ LiveVersion(v)'
    BY <2>2, <2>5 DEF NoVersion, LiveVersion
  <2> HIDE DEF q
  <2>7. \A w \in VersionIds : w # v => LiveVersion(w)' = LiveVersion(w)
    BY <2>5 DEF LiveVersion
  <2>8. /\ VersionsOf(a)' = VersionsOf(a) \cup {v} /\ v \notin VersionsOf(a)
        /\ \A x : x # a => VersionsOf(x)' = VersionsOf(x)
        /\ \A x : VersionsOf(x) \subseteq VersionIds \ {v}
    BY <2>5, <2>6, <2>7 DEF VersionsOf
  <2>9. RowTypes'
    BY <2>1, <2>5, <1>1 DEF TypeOK, RowTypes
  <2>10. VersionNumbersContiguous'
    <3> SUFFICES ASSUME NEW x \in AgentIds, NEW u \in VersionsOf(x)'
                 PROVE  /\ versions'[u].n > 0
                        /\ \A w \in VersionsOf(x)' : versions'[w].n = versions'[u].n => w = u
                        /\ \A k \in 1 .. (versions'[u].n - 1) :
                             \E w \in VersionsOf(x)' : versions'[w].n = k
      BY DEF VersionNumbersContiguous
    <3>1. CASE x # a
      <4>1. \A w \in VersionsOf(x) : versions'[w] = versions[w]
        BY <2>5, <2>8
      <4>. QED  BY <3>1, <4>1, <2>8, <1>1 DEF RowInv, VersionNumbersContiguous
    <3>2. CASE x = a /\ u = v
      <4>1. \A w \in VersionsOf(a) : versions'[w] = versions[w]
        BY <2>5, <2>8
      <4>. QED  BY <3>2, <4>1, <2>3, <2>5, <2>8 DEF NumberedBelow
    <3>3. CASE x = a /\ u # v
      <4>1. \A w \in VersionsOf(a) : versions'[w] = versions[w]
        BY <2>5, <2>8
      <4>2. u \in VersionsOf(a)
        BY <3>3, <2>8
      <4>3. /\ versions[u].n > 0
            /\ \A w \in VersionsOf(a) : versions[w].n = versions[u].n => w = u
            /\ \A k \in 1 .. (versions[u].n - 1) :
                 \E w \in VersionsOf(a) : versions[w].n = k
        BY <4>2, <2>3, <1>1 DEF RowInv, VersionNumbersContiguous
      <4>. QED  BY <3>3, <4>1, <4>2, <4>3, <2>3, <2>5, <2>8
    <3>. QED  BY <3>1, <3>2, <3>3
  <2>11. NumbersBounded'
    BY <2>1, <2>3, <2>5, <2>7, <1>1 DEF RowInv, NumbersBounded
  <2>12. ReferencesResolve'
    <3>1. \A s \in SessionIds : LiveSession(s) =>
            /\ agents'[sessions[s].agent] = "live"
            /\ sessions[s].version \in VersionsOf(sessions[s].agent)'
      BY <2>1, <2>8, <1>1 DEF RowInv, ReferencesResolve
    <3>2. \A w \in VersionIds : LiveVersion(w)' => agents'[versions'[w].agent] = "live"
      BY <2>1, <2>3, <2>5, <2>7, <1>1 DEF RowInv, ReferencesResolve
    <3>3. \A p \in attached : LiveVersion(p[1])' /\ LiveTool(p[2])'
      <4>1. \A p \in attached : p[1] \in VersionIds /\ LiveVersion(p[1]) /\ LiveTool(p[2])
        BY <1>1 DEF RowInv, ReferencesResolve, TypeOK
      <4>. QED  BY <4>1, <2>1, <2>6, <2>7 DEF LiveTool
    <3>. QED  BY <3>1, <3>2, <3>3, <2>1 DEF ReferencesResolve, LiveSession
  <2>13. PinnedIsPublished'
    <3>1. \A s \in SessionIds : LiveSession(s) => sessions[s].version \in VersionIds \ {v}
      BY <2>8, <1>1 DEF RowInv, ReferencesResolve
    <3>. QED  BY <3>1, <2>1, <2>5, <1>1 DEF RowInv, PinnedIsPublished, LiveSession
  <2>14. Kept
    <3>1. \A x \in AgentIds : \A w \in VersionsOf(x) :
            w \in VersionsOf(x)' /\ versions'[w].n = versions[w].n
      BY <2>5, <2>8
    <3>2. \A w \in VersionIds : versions[w].state # "none" => versions'[w] = versions[w]
      BY <2>5, <2>6
    <3>. QED  BY <3>1, <3>2, <2>1 DEF Kept, LiveVersion
  <2>15. ~HashBreaks
    BY <2>5, <2>6 DEF HashBreaks, Hashed
  <2>16. AgentsKnown'
    BY <2>1, <2>3, <2>5, <2>7, <1>1 DEF RowInv, AgentsKnown, LiveSession
  <2>. QED  BY <2>16, <2>1, <2>9, <2>10, <2>11, <2>12, <2>13, <2>14, <2>15, <1>1, ToolsSame,
            OkEnds DEF RowInv
<1>. QED  BY <1>2, <1>3

\* delete_agent ends well: its versions and their associations go, and no session refers to them.
LEMMA DeleteAgentEnds ==
  ASSUME IInv, NEW r \in Requests, CommitDeleteAgent(r)
  PROVE  Ended(r)
<1>0. PICK a : a = req[r].agent
  OBVIOUS
<1>1. InFlight(r) /\ req[r].op = "delete_agent" /\ TypeOK /\ RowInv
  BY DEF CommitDeleteAgent, IInv
<1>2. CASE SessionsRestrict(a)
  BY <1>0, <1>1, <1>2, RejectedEnds DEF CommitDeleteAgent
<1>3. CASE ~SessionsRestrict(a)
  <2> DEFINE gone == [NoVersion EXCEPT !.state = "gone"]
  <2>1. /\ agents' = [agents EXCEPT ![a] = "gone"]
        /\ versions' = [v \in VersionIds |->
                          IF v \in VersionsOf(a) THEN gone ELSE versions[v]]
        /\ attached' = {p \in attached : p[1] \notin VersionsOf(a)}
        /\ Answer(r, "ok") /\ UNCHANGED <<tools, sessions, started>>
    BY <1>0, <1>3 DEF CommitDeleteAgent
  <2>2. a \in AgentIds
    BY <1>0, <1>1 DEF IInv, AllHeld, Held, AgentOps
  <2>3. \A s \in SessionIds : LiveSession(s) => sessions[s].agent # a
    BY <1>3 DEF SessionsRestrict, SessionsOf
  <2>4. gone \in VersionRows /\ gone.state = "gone" /\ gone.config = gone.hash
    BY IdleType DEF VersionRows, NoVersion
  <2> HIDE DEF gone
  <2>5. /\ \A x \in AgentIds \ {a} : agents'[x] = agents[x]
        /\ agents'[a] = "gone"
        /\ \A v \in VersionsOf(a) : versions'[v] = gone
        /\ \A v \in VersionIds \ VersionsOf(a) : versions'[v] = versions[v]
    BY <2>1, <2>2, <1>1 DEF TypeOK, VersionsOf
  <2>6. /\ \A v \in VersionsOf(a) : ~LiveVersion(v)'
        /\ \A v \in VersionIds \ VersionsOf(a) : LiveVersion(v)' = LiveVersion(v)
    BY <2>4, <2>5 DEF LiveVersion
  <2>7. VersionsOf(a)' = {} /\ \A x : x # a => VersionsOf(x)' = VersionsOf(x)
    BY <2>5, <2>6 DEF VersionsOf
  <2>8. \A x : x # a => \A v \in VersionsOf(x) : v \in VersionIds \ VersionsOf(a)
    BY DEF VersionsOf
  <2>9. RowTypes'
    BY <2>1, <2>4, <1>1 DEF TypeOK, RowTypes
  <2>10. VersionNumbersContiguous'
    BY <2>5, <2>7, <2>8, <1>1 DEF RowInv, VersionNumbersContiguous
  <2>11. NumbersBounded'
    BY <2>1, <2>5, <2>6, <1>1 DEF RowInv, NumbersBounded
  <2>12. ReferencesResolve'
    <3>1. \A s \in SessionIds : LiveSession(s) =>
            /\ agents[sessions[s].agent] = "live" /\ sessions[s].agent # a
            /\ sessions[s].version \in VersionsOf(sessions[s].agent)
            /\ sessions[s].agent \in AgentIds
      BY <2>3, <1>1 DEF RowInv, ReferencesResolve, AgentsKnown
    <3>2. \A s \in SessionIds : LiveSession(s) =>
            /\ agents'[sessions[s].agent] = "live"
            /\ sessions[s].version \in VersionsOf(sessions[s].agent)'
      BY <3>1, <2>1, <2>5, <2>7
    <3>3. \A v \in VersionIds : LiveVersion(v)' => agents'[versions'[v].agent] = "live"
      <4>1. \A v \in VersionIds : LiveVersion(v)' =>
              /\ v \notin VersionsOf(a) /\ LiveVersion(v) /\ versions'[v] = versions[v]
        BY <2>5, <2>6
      <4>2. \A v \in VersionIds : LiveVersion(v) /\ v \notin VersionsOf(a) =>
              versions[v].agent \in AgentIds \ {a} /\ agents[versions[v].agent] = "live"
        BY <1>1 DEF RowInv, ReferencesResolve, AgentsKnown, VersionsOf
      <4>. QED  BY <4>1, <4>2, <2>5
    <3>4. \A p \in attached' : LiveVersion(p[1])' /\ LiveTool(p[2])'
      <4>1. \A p \in attached : p[1] \in VersionIds /\ LiveVersion(p[1]) /\ LiveTool(p[2])
        BY <1>1 DEF RowInv, ReferencesResolve, TypeOK
      <4>. QED  BY <4>1, <2>1, <2>6 DEF LiveTool
    <3>. QED  BY <3>2, <3>3, <3>4, <2>1 DEF ReferencesResolve, LiveSession
  <2>13. PinnedIsPublished'
    <3>1. \A s \in SessionIds : LiveSession(s) =>
            versions'[sessions[s].version] = versions[sessions[s].version]
      BY <2>3, <2>5, <2>8, <1>1 DEF RowInv, ReferencesResolve
    <3>. QED  BY <3>1, <2>1, <1>1 DEF RowInv, PinnedIsPublished, LiveSession
  <2>14. Kept
    <3>1. \A x \in AgentIds : agents[x] # "none" =>
             /\ agents'[x] # "none"
             /\ agents'[x] = "live" =>
                  /\ agents[x] = "live"
                  /\ \A v \in VersionsOf(x) :
                       v \in VersionsOf(x)' /\ versions'[v].n = versions[v].n
      <4> TAKE x \in AgentIds
      <4>1. CASE x = a
        BY <4>1, <2>5
      <4>2. CASE x # a
        BY <4>2, <2>5, <2>7, <2>8
      <4>. QED  BY <4>1, <4>2
    <3>2. \A v \in VersionIds : versions[v].state # "none" =>
            /\ versions'[v].state # "none"
            /\ LiveVersion(v)' => versions'[v] = versions[v] /\ LiveVersion(v)
      BY <2>4, <2>5, <2>6
    <3>. QED  BY <3>1, <3>2 DEF Kept
  <2>15. ~HashBreaks
    <3>1. \A v \in VersionIds : Hashed(v) => Hashed(v)'
      BY <2>4, <2>5 DEF Hashed, Hash
    <3>. QED  BY <3>1 DEF HashBreaks
  <2>16. AgentsKnown'
    BY <2>1, <2>5, <2>6, <1>1 DEF RowInv, AgentsKnown, LiveSession
  <2>. QED  BY <2>16, <2>1, <2>9, <2>10, <2>11, <2>12, <2>13, <2>14, <2>15, <1>1, ToolsSame,
            OkEnds DEF RowInv
<1>. QED  BY <1>2, <1>3

\* create_session ends well: what the session refers to exists.
LEMMA CreateSessionEnds ==
  ASSUME IInv, NEW r \in Requests, CommitCreateSession(r)
  PROVE  Ended(r)
<1>0. PICK q : q = req[r]
  OBVIOUS
<1>1. InFlight(r) /\ q.op = "create_session" /\ TypeOK /\ RowInv /\ q \in HandlerStates
  BY <1>0 DEF CommitCreateSession, IInv, TypeOK
<1>2. CASE ~SessionInsertAllowed(q.agent, q.version)
  <2>1. Rejected(r)
    BY <1>0, <1>2 DEF CommitCreateSession
  <2>2. ~req[r].alone
    BY <1>0, <1>1, <1>2, AloneAccepted DEF Accepted
  <2>. QED  BY <1>1, <2>1, <2>2, RejectedEnds
<1>3. CASE SessionInsertAllowed(q.agent, q.version)
  <2> DEFINE new == [agent |-> q.agent, version |-> q.version,
                     explicit |-> q.flag, hash |-> q.hash]
  <2>1. /\ \E s \in SessionIds :
             sessions[s] = NoSession /\ sessions' = [sessions EXCEPT ![s] = new]
        /\ Answer(r, "ok") /\ UNCHANGED <<agents, versions, tools, attached, started>>
    BY <1>0, <1>3 DEF CommitCreateSession
  <2>2. PICK s \in SessionIds :
          sessions[s] = NoSession /\ sessions' = [sessions EXCEPT ![s] = new]
    BY <2>1
  <2>3. /\ agents[q.agent] = "live" /\ LiveVersion(q.version)
        /\ q.agent \in AgentIds /\ q.version \in VersionIds
        /\ versions[q.version].agent = q.agent
        /\ ~q.flag => versions[q.version].state = "published"
    BY <1>0, <1>1, <1>3 DEF IInv, AllHeld, Held, AgentOps, VersionOps, SessionInsertAllowed
  <2>4. new \in SessionRows
    BY <1>1 DEF SessionRows, HandlerStates
  <2>5. /\ sessions' \in [SessionIds -> SessionRows]
        /\ sessions'[s].agent = q.agent /\ sessions'[s].version = q.version
        /\ sessions'[s].explicit = q.flag
        /\ \A u \in SessionIds : u # s => sessions'[u] = sessions[u]
    BY <2>2, <2>4, <1>1 DEF TypeOK
  <2>6. \A u \in SessionIds : u # s => LiveSession(u)' = LiveSession(u)
    BY <2>5 DEF LiveSession
  <2>7. RowTypes'
    BY <2>1, <2>5, <1>1 DEF TypeOK, RowTypes
  <2>8. \A a : VersionsOf(a)' = VersionsOf(a)
    BY <2>1 DEF VersionsOf, LiveVersion
  <2>9. VersionNumbersContiguous' /\ NumbersBounded' /\ AgentsKnown'
    BY <2>1, <2>3, <2>5, <2>6, <2>8, <1>1 DEF RowInv, VersionNumbersContiguous,
       NumbersBounded, AgentsKnown, LiveVersion
  <2>10. ReferencesResolve'
    <3>1. q.version \in VersionsOf(q.agent)
      BY <2>3 DEF VersionsOf
    <3>2. \A u \in SessionIds : LiveSession(u)' =>
            /\ agents[sessions'[u].agent] = "live"
            /\ sessions'[u].version \in VersionsOf(sessions'[u].agent)
      BY <3>1, <2>3, <2>5, <2>6, <1>1 DEF RowInv, ReferencesResolve
    <3>. QED  BY <3>2, <2>1, <2>8, <1>1 DEF RowInv, ReferencesResolve, LiveVersion, LiveTool
  <2>11. PinnedIsPublished'
    BY <2>1, <2>3, <2>5, <2>6, <1>1 DEF RowInv, PinnedIsPublished
  <2>12. Kept
    BY <2>1, <2>8 DEF Kept, LiveVersion
  <2>13. ~HashBreaks
    BY <2>1 DEF HashBreaks, Hashed
  <2>. QED  BY <2>1, <2>7, <2>9, <2>10, <2>11, <2>12, <2>13, <1>1, ToolsSame, OkEnds
            DEF RowInv
<1>. QED  BY <1>2, <1>3

\* create_tool ends well: no other tool has the name.
LEMMA CreateToolEnds ==
  ASSUME IInv, NEW r \in Requests, CommitCreateTool(r)
  PROVE  Ended(r)
<1>0. PICK q : q = req[r]
  OBVIOUS
<1>1. InFlight(r) /\ q.op = "create_tool" /\ TypeOK /\ RowInv /\ q.name \in Names
  BY <1>0 DEF CommitCreateTool, IInv, AllHeld, Held
<1>2. CASE ~ToolNameAllowed(NoId, q.name)
  <2>1. Rejected(r)
    BY <1>0, <1>2 DEF CommitCreateTool
  <2>2. ~req[r].alone
    BY <1>0, <1>1, <1>2, AloneAccepted DEF Accepted
  <2>. QED  BY <1>1, <2>1, <2>2, RejectedEnds
<1>3. CASE ToolNameAllowed(NoId, q.name)
  <2> DEFINE new == [state |-> "live", name |-> q.name]
  <2>1. /\ \E t \in ToolIds : tools[t] = NoTool /\ tools' = [tools EXCEPT ![t] = new]
        /\ Answer(r, "ok") /\ UNCHANGED <<agents, versions, attached, sessions, started>>
    BY <1>0, <1>3 DEF CommitCreateTool
  <2>2. PICK t \in ToolIds : tools[t] = NoTool /\ tools' = [tools EXCEPT ![t] = new]
    BY <2>1
  <2>3. /\ tools' \in [ToolIds -> ToolRows]
        /\ tools'[t].state = "live" /\ tools'[t].name = q.name
        /\ \A u \in ToolIds : u # t => tools'[u] = tools[u]
    BY <2>2, <1>1 DEF TypeOK, ToolRows
  <2>4. \A u \in ToolIds : LiveTool(u) => tools[u].name # q.name
    BY <1>3, NoIdAssumption DEF ToolNameAllowed
  <2>5. ToolNamesUnique' /\ ToolsNamed'
    BY <2>3, <2>4, <1>1 DEF RowInv, ToolNamesUnique, ToolsNamed, LiveTool
  <2>6. RowTypes'
    BY <2>1, <2>3, <1>1 DEF TypeOK, RowTypes
  <2>7. ReferencesResolve'
    <3>1. \A u \in ToolIds : LiveTool(u) => LiveTool(u)'
      BY <2>3 DEF LiveTool
    <3>2. \A p \in attached : p[2] \in ToolIds
      BY <1>1 DEF TypeOK
    <3>. QED  BY <3>1, <3>2, <2>1, <1>1 DEF RowInv, ReferencesResolve, VersionsOf,
              LiveVersion, LiveSession
  <2>. QED  BY <2>1, <2>5, <2>6, <2>7, <1>1, VersionsSame, OkEnds DEF RowInv
<1>. QED  BY <1>2, <1>3

\* update_tool ends well: no other tool has the name.
LEMMA UpdateToolEnds ==
  ASSUME IInv, NEW r \in Requests, CommitUpdateTool(r)
  PROVE  Ended(r)
<1>0. PICK q : q = req[r]
  OBVIOUS
<1>1. /\ InFlight(r) /\ q.op = "update_tool" /\ TypeOK /\ RowInv
      /\ q.tool \in ToolIds /\ q.name \in Names \cup {NoId}
  BY <1>0 DEF CommitUpdateTool, IInv, AllHeld, Held, ToolOps, TypeOK, HandlerStates
<1>2. CASE ~LiveTool(q.tool) \/ ~ToolNameAllowed(q.tool, q.name)
  <2>1. Rejected(r)
    BY <1>0, <1>2 DEF CommitUpdateTool
  <2>2. ~req[r].alone
    BY <1>0, <1>1, <1>2, AloneAccepted DEF Accepted
  <2>. QED  BY <1>1, <2>1, <2>2, RejectedEnds
<1>3. CASE LiveTool(q.tool) /\ ToolNameAllowed(q.tool, q.name) /\ q.name = NoId
  <2>1. tools' = tools /\ Answer(r, "ok")
        /\ UNCHANGED <<agents, versions, attached, sessions, started>>
    BY <1>0, <1>3 DEF CommitUpdateTool
  <2>. QED  BY <2>1, <1>1, RowsSame, OkEnds DEF UnchangedRows
<1>4. CASE LiveTool(q.tool) /\ ToolNameAllowed(q.tool, q.name) /\ q.name # NoId
  <2>1. /\ tools' = [tools EXCEPT ![q.tool].name = q.name] /\ Answer(r, "ok")
        /\ UNCHANGED <<agents, versions, attached, sessions, started>>
    BY <1>0, <1>4 DEF CommitUpdateTool
  <2>2. PICK t \in ToolIds : t = q.tool
    BY <1>1
  <2>3. /\ tools' \in [ToolIds -> ToolRows]
        /\ tools'[t].state = tools[t].state /\ tools'[t].name = q.name
        /\ \A u \in ToolIds : u # t => tools'[u] = tools[u]
    BY <2>1, <2>2, <1>1 DEF TypeOK, ToolRows
  <2>4. \A u \in ToolIds : LiveTool(u) /\ u # t => tools[u].name # q.name
    BY <2>2, <1>4 DEF ToolNameAllowed
  <2>5. \A u \in ToolIds : LiveTool(u)' = LiveTool(u)
    BY <2>3 DEF LiveTool
  <2>6. ToolNamesUnique' /\ ToolsNamed'
    BY <2>3, <2>4, <2>5, <1>1, <1>4 DEF RowInv, ToolNamesUnique, ToolsNamed
  <2>7. RowTypes'
    BY <2>1, <2>3, <1>1 DEF TypeOK, RowTypes
  <2>8. ReferencesResolve'
    <3>1. \A p \in attached : p[2] \in ToolIds
      BY <1>1 DEF TypeOK
    <3>. QED  BY <3>1, <2>1, <2>5, <1>1 DEF RowInv, ReferencesResolve, VersionsOf,
              LiveVersion, LiveSession
  <2>. QED  BY <2>1, <2>6, <2>7, <2>8, <1>1, VersionsSame, OkEnds DEF RowInv
<1>. QED  BY <1>2, <1>3, <1>4

\* delete_tool ends well: its associations go with it.
LEMMA DeleteToolEnds ==
  ASSUME IInv, NEW r \in Requests, CommitDeleteTool(r)
  PROVE  Ended(r)
<1>0. PICK t : t = req[r].tool
  OBVIOUS
<1>1. /\ InFlight(r) /\ TypeOK /\ RowInv /\ t \in ToolIds
      /\ tools' = [tools EXCEPT ![t] = [NoTool EXCEPT !.state = "gone"]]
      /\ attached' = {p \in attached : p[2] # t}
      /\ Answer(r, "ok") /\ UNCHANGED <<agents, versions, sessions, started>>
  BY <1>0 DEF CommitDeleteTool, IInv, AllHeld, Held, ToolOps
<1>2. /\ tools' \in [ToolIds -> ToolRows] /\ tools'[t].state = "gone"
      /\ \A u \in ToolIds : u # t => tools'[u] = tools[u]
  BY <1>1 DEF TypeOK, ToolRows, NoTool
<1>3. RowTypes'
  BY <1>1, <1>2 DEF TypeOK, RowTypes
<1>4. ToolNamesUnique' /\ ToolsNamed'
  BY <1>1, <1>2 DEF RowInv, ToolNamesUnique, ToolsNamed, LiveTool
<1>5. ReferencesResolve'
  <2>1. \A p \in attached' : p \in attached /\ p[2] \in ToolIds /\ p[2] # t
    BY <1>1 DEF TypeOK
  <2>2. \A p \in attached' : LiveTool(p[2])'
    BY <2>1, <1>1, <1>2 DEF RowInv, ReferencesResolve, LiveTool
  <2>. QED  BY <2>1, <2>2, <1>1 DEF RowInv, ReferencesResolve, VersionsOf, LiveVersion,
            LiveSession
<1>. QED  BY <1>1, <1>3, <1>4, <1>5, VersionsSame, OkEnds DEF RowInv

\* attach_tool ends well: both ends of the association exist.
LEMMA AttachToolEnds ==
  ASSUME IInv, NEW r \in Requests, CommitAttachTool(r)
  PROVE  Ended(r)
<1>0. PICK q : q = req[r]
  OBVIOUS
<1> DEFINE pair == <<q.version, q.tool>>
           refused == /\ ~q.flag
                      /\ ~LiveVersion(q.version) \/ ~LiveTool(q.tool) \/ pair \in attached
<1>1. /\ InFlight(r) /\ q.op = "attach_tool" /\ TypeOK /\ RowInv
      /\ q.version \in VersionIds /\ q.tool \in ToolIds
  BY <1>0 DEF CommitAttachTool, IInv, AllHeld, Held, ToolOps, VersionOps
<1>2. CASE refused
  <2>1. Rejected(r)
    BY <1>0, <1>2 DEF CommitAttachTool
  <2>2. ~req[r].alone
    BY <1>0, <1>1, <1>2, AloneAccepted DEF Accepted
  <2>. QED  BY <1>1, <2>1, <2>2, RejectedEnds
<1>3. CASE ~refused
  <2>1. /\ attached' = IF q.flag THEN attached ELSE attached \cup {pair}
        /\ Answer(r, "ok") /\ UNCHANGED <<agents, versions, tools, sessions, started>>
    BY <1>0, <1>3 DEF CommitAttachTool
  <2>2. RowTypes'
    BY <2>1, <1>1 DEF TypeOK, RowTypes
  <2>3. \A p \in attached' : LiveVersion(p[1]) /\ LiveTool(p[2])
    BY <2>1, <1>1, <1>3 DEF RowInv, ReferencesResolve
  <2>4. ReferencesResolve'
    BY <2>1, <2>3, <1>1 DEF RowInv, ReferencesResolve, VersionsOf, LiveVersion, LiveTool,
       LiveSession
  <2>. QED  BY <2>1, <2>2, <2>4, <1>1, VersionsSame, ToolsSame, OkEnds DEF RowInv
<1>. QED  BY <1>2, <1>3

\* detach_tool ends well: an association goes.
LEMMA DetachToolEnds ==
  ASSUME IInv, NEW r \in Requests, CommitDetachTool(r)
  PROVE  Ended(r)
<1>1. /\ InFlight(r) /\ TypeOK /\ RowInv
      /\ attached' \subseteq attached
      /\ Answer(r, "ok") /\ UNCHANGED <<agents, versions, tools, sessions, started>>
  BY DEF CommitDetachTool, IInv
<1>2. RowTypes'
  BY <1>1 DEF TypeOK, RowTypes
<1>3. ReferencesResolve'
  BY <1>1 DEF RowInv, ReferencesResolve, VersionsOf, LiveVersion, LiveTool, LiveSession
<1>. QED  BY <1>1, <1>2, <1>3, VersionsSame, ToolsSame, OkEnds DEF RowInv

\* A request that ends keeps the invariant; it is answered 500 only if it met
\* another or deletes an agent, and every other one stays as it is.
LEMMA EndedKeeps ==
  ASSUME IInv, NEW r \in Requests, Ended(r)
  PROVE  /\ IInv'
         /\ \A q \in Requests : InFlight(q) /\ req[q].alone /\ req'[q].reply = "internal" =>
              req[q].op = "delete_agent"
<1>1. PICK reply \in Replies :
        /\ req' = [req EXCEPT ![r] = [Idle EXCEPT !.reply = reply]]
        /\ req[r].alone /\ reply = "internal" => req[r].op = "delete_agent"
  BY DEF Ended, Answer
<1> DEFINE idle == [Idle EXCEPT !.reply = reply]
<1>2. idle \in HandlerStates /\ idle.op = "none" /\ idle.reply = reply
  BY IdleType DEF HandlerStates, Idle
<1>3. TypeOK /\ RowInv /\ AllHeld /\ AloneInv
  BY DEF IInv
<1>4. /\ InFlight(r) /\ started' = started /\ RowTypes' /\ RowInv' /\ Kept
  BY DEF Ended
<1> HIDE DEF idle
<1>5. /\ req' \in [Requests -> HandlerStates] /\ req'[r] = idle
      /\ \A q \in Requests : q # r => req'[q] = req[q]
  BY <1>1, <1>2, <1>3 DEF TypeOK, idle
<1>6. TypeOK'
  BY <1>3, <1>4, <1>5 DEF TypeOK, RowTypes
<1>7. AllHeld'
  <2> SUFFICES ASSUME NEW q \in Requests PROVE Held(req[q], started)'
    BY DEF AllHeld
  <2>1. CASE q = r
    BY <2>1, <1>2, <1>5 DEF Held, AgentOps, VersionOps, ToolOps
  <2>2. CASE q # r
    <3>1. SameHeld(req'[q], req[q]) /\ req[q] \in HandlerStates /\ started \in Nat
      BY <2>2, <1>3, <1>5 DEF SameHeld, TypeOK
    <3>2. Held(req[q], started) /\ started' \in Nat /\ started <= started'
      BY <3>1, <1>3, <1>4 DEF AllHeld
    <3>. QED  BY <3>1, <3>2, <1>4, HeldStays
  <2>. QED  BY <2>1, <2>2
<1>8. AloneInv'
  <2>1. \A q \in Requests : InFlight(q)' => q # r /\ InFlight(q) /\ req'[q] = req[q]
    BY <1>2, <1>5 DEF InFlight
  <2>2. \A q \in Requests : InFlight(q)' => ~req'[q].alone
    BY <2>1, <1>3, <1>4 DEF AloneInv
  <2>. QED  BY <2>2 DEF AloneInv
<1>9. \A q \in Requests : InFlight(q) /\ req[q].alone /\ req'[q].reply = "internal" =>
        req[q].op = "delete_agent"
  <2>1. \A q \in Requests : InFlight(q) => req[q].reply = "none"
    BY <1>3 DEF AllHeld, Held, InFlight
  <2>. QED  BY <2>1, <1>1, <1>2, <1>5
<1>. QED  BY <1>3, <1>4, <1>6, <1>7, <1>8, <1>9 DEF IInv

-----------------------------------------------------------------------------
(* The specification.                                                      *)

\* An empty project satisfies the invariant.
LEMMA InitHolds == Init => IInv
<1> SUFFICES ASSUME Init PROVE IInv
  OBVIOUS
<1>1. \A r \in Requests : req[r] = Idle /\ ~InFlight(r) /\ req[r].op = "none"
  BY DEF Init, InFlight, Idle
<1>2. \A v \in VersionIds : ~LiveVersion(v)
  BY DEF Init, LiveVersion, NoVersion
<1>3. \A t \in ToolIds : ~LiveTool(t)
  BY DEF Init, LiveTool, NoTool
<1>4. \A s \in SessionIds : ~LiveSession(s)
  BY DEF Init, LiveSession
<1>5. TypeOK
  <2>1. NoVersion \in VersionRows /\ NoTool \in ToolRows /\ NoSession \in SessionRows
    BY IdleType DEF NoVersion, NoTool, NoSession, VersionRows, ToolRows, SessionRows
  <2>. QED  BY <2>1, IdleType DEF Init, TypeOK
<1>6. RowInv
  BY <1>2, <1>3, <1>4 DEF Init, RowInv, VersionNumbersContiguous, ToolNamesUnique,
     ReferencesResolve, PinnedIsPublished, ToolsNamed, AgentsKnown, NumbersBounded,
     VersionsOf
<1>7. AllHeld
  BY <1>1 DEF AllHeld, Held, AgentOps, VersionOps, ToolOps
<1>8. AloneInv
  BY <1>1 DEF AloneInv
<1>. QED  BY <1>5, <1>6, <1>7, <1>8 DEF IInv

\* A step begins a request or ends one.
LEMMA StepShape ==
  ASSUME IInv, NEW r \in Requests,
         AgentStep(r) \/ SessionStep(r) \/ ToolStep(r) \/ DatabaseFails(r)
  PROVE  Decided(r) \/ Ended(r)
<1>1. TypeOK /\ RowInv
  BY DEF IInv
<1>2. CASE AgentStep(r)
  BY <1>1, <1>2, CreateAgentBegins, UpdateAgentBegins, DeleteAgentBegins,
     CreateVersionBegins, UpdateVersionBegins, PublishVersionBegins, CreateAgentEnds,
     UpdateAgentEnds, DeleteAgentEnds, CreateVersionEnds, UpdateVersionEnds,
     PublishVersionEnds DEF AgentStep
<1>3. CASE SessionStep(r)
  BY <1>1, <1>3, CreateSessionBegins, CreateSessionEnds DEF SessionStep
<1>4. CASE ToolStep(r)
  BY <1>1, <1>4, CreateToolBegins, UpdateToolBegins, DeleteToolBegins, AttachToolBegins,
     DetachToolBegins, CreateToolEnds, UpdateToolEnds, DeleteToolEnds, AttachToolEnds,
     DetachToolEnds DEF ToolStep
<1>5. CASE DatabaseFails(r)
  BY <1>5, DatabaseFailsEnds
<1>. QED  BY <1>2, <1>3, <1>4, <1>5

\* Every step keeps the invariant.
LEMMA NextKeeps == IInv /\ [Next]_vars => IInv'
<1> SUFFICES ASSUME IInv, [Next]_vars PROVE IInv'
  OBVIOUS
<1>1. CASE Next
  <2>1. PICK r \in Requests :
          AgentStep(r) \/ SessionStep(r) \/ ToolStep(r) \/ DatabaseFails(r)
    BY <1>1 DEF Next
  <2>. QED  BY <2>1, StepShape, DecidedKeeps, EndedKeeps
<1>2. CASE UNCHANGED vars
  <2>1. UNCHANGED <<agents, versions, tools, attached, sessions, req, started>>
    BY <1>2 DEF vars
  <2>2. TypeOK'
    BY <2>1 DEF IInv, TypeOK
  <2>3. RowInv' /\ Kept
    BY <2>1, RowsSame DEF IInv, UnchangedRows
  <2>4. AllHeld'
    <3> SUFFICES ASSUME NEW q \in Requests PROVE Held(req[q], started)'
      BY DEF AllHeld
    <3>1. SameHeld(req'[q], req[q]) /\ req[q] \in HandlerStates /\ started \in Nat
      BY <2>1 DEF SameHeld, IInv, TypeOK
    <3>. QED  BY <3>1, <2>1, <2>3, HeldStays DEF IInv, AllHeld
  <2>5. AloneInv'
    BY <2>1 DEF IInv, AloneInv, Accepted, InFlight, LiveVersion, LiveTool, VersionsOf,
       VersionInsertAllowed, SessionInsertAllowed, ToolNameAllowed
  <2>. QED  BY <2>2, <2>3, <2>4, <2>5 DEF IInv
<1>. QED  BY <1>1, <1>2

\* The inductive invariant holds in every state of every project.
THEOREM Invariant == Spec => []IInv
BY InitHolds, NextKeeps, PTL DEF Spec

\* The rows and what the handlers hold are well typed.
THEOREM TypeCorrect == Spec => []TypeOK
<1>1. IInv => TypeOK
  BY DEF IInv
<1>. QED  BY <1>1, Invariant, PTL

\* The versions of an agent are numbered 1, 2, 3, ... without gap or
\* repetition, for any number of concurrent create_version requests.
THEOREM NumberedWithoutGap == Spec => []VersionNumbersContiguous
<1>1. IInv => VersionNumbersContiguous
  BY DEF IInv, RowInv
<1>. QED  BY <1>1, Invariant, PTL

\* No two tools have one name, whatever create_tool and update_tool read.
THEOREM NamesStayUnique == Spec => []ToolNamesUnique
<1>1. IInv => ToolNamesUnique
  BY DEF IInv, RowInv
<1>. QED  BY <1>1, Invariant, PTL

\* No session, version or association outlives what it refers to, and a
\* session's version is one of its agent's.
THEOREM NothingDangles == Spec => []ReferencesResolve
<1>1. IInv => ReferencesResolve
  BY DEF IInv, RowInv
<1>. QED  BY <1>1, Invariant, PTL

\* A session that named no version stays on a published one.
THEOREM PinnedForGood == Spec => []PinnedIsPublished
<1>1. IInv => PinnedIsPublished
  BY DEF IInv, RowInv
<1>. QED  BY <1>1, Invariant, PTL

\* config_hash is the hash of the stored configuration as long as no
\* update_version overlaps another request.
THEOREM HashIsOfConfig == Spec => HashBreaksOnlyOnOverlap
<1>1. IInv /\ [Next]_vars =>
        [\A v \in VersionIds : LiveVersion(v) /\ Hashed(v) /\ ~Hashed(v)' =>
           \E r \in Requests : req[r].op = "update_version" /\ ~req[r].alone]_vars
  <2> SUFFICES ASSUME IInv, Next
               PROVE  HashBreaks => \E r \in Requests :
                        req[r].op = "update_version" /\ ~req[r].alone
    BY DEF HashBreaks
  <2>1. PICK r \in Requests :
          AgentStep(r) \/ SessionStep(r) \/ ToolStep(r) \/ DatabaseFails(r)
    BY DEF Next
  <2>2. CASE Decided(r)
    BY <2>2 DEF Decided, UnchangedRows, HashBreaks, Hashed
  <2>3. CASE Ended(r)
    BY <2>3 DEF Ended
  <2>. QED  BY <2>1, <2>2, <2>3, StepShape
<1>. QED  BY <1>1, Invariant, PTL DEF Spec, HashBreaksOnlyOnOverlap

\* A request that met no other is not answered 500 by a constraint, unless
\* it deletes an agent.
THEOREM AloneIsServed == Spec => AloneIsNotRejected
<1>1. IInv /\ [Next]_vars =>
        [\A r \in Requests :
           InFlight(r) /\ req[r].alone /\ req'[r].reply = "internal" =>
             req[r].op = "delete_agent"]_vars
  <2> SUFFICES ASSUME IInv, Next, NEW q \in Requests,
                      InFlight(q), req[q].alone, req'[q].reply = "internal"
               PROVE  req[q].op = "delete_agent"
    OBVIOUS
  <2>1. PICK r \in Requests :
          AgentStep(r) \/ SessionStep(r) \/ ToolStep(r) \/ DatabaseFails(r)
    BY DEF Next
  <2>2. CASE Decided(r)
    BY <2>2, DecidedKeeps
  <2>3. CASE Ended(r)
    BY <2>3, EndedKeeps
  <2>. QED  BY <2>1, <2>2, <2>3, StepShape
<1>. QED  BY <1>1, Invariant, PTL DEF Spec, AloneIsNotRejected

\* Only the flush of an update_version or of a publish_version changes a
\* published row that stays.
LEMMA PublishedWriters ==
  ASSUME IInv, NEW v \in VersionIds, PublishedChanges(v), NEW r \in Requests,
         AgentStep(r) \/ SessionStep(r) \/ ToolStep(r) \/ DatabaseFails(r)
  PROVE  CommitUpdateVersion(r) \/ CommitPublishVersion(r)
<1>1. versions' # versions
  BY DEF PublishedChanges
<1>2. versions \in [VersionIds -> VersionRows]
  BY DEF IInv, TypeOK
<1>3. ~UNCHANGED <<agents, versions, tools, attached, sessions>>
  BY <1>1
<1>4. ~Decided(r)
  BY <1>1 DEF Decided, UnchangedRows
<1>5. ~CommitDeleteAgent(r)
  <2>1. SUFFICES ASSUME CommitDeleteAgent(r) PROVE FALSE
    OBVIOUS
  <2>2. versions'[v] = [NoVersion EXCEPT !.state = "gone"]
    BY <2>1, <1>1 DEF CommitDeleteAgent, Rejected, UnchangedRows, PublishedChanges
  <2>. QED  BY <2>2 DEF PublishedChanges, LiveVersion, NoVersion
<1>6. ~CommitCreateVersion(r)
  <2>1. SUFFICES ASSUME CommitCreateVersion(r) PROVE FALSE
    OBVIOUS
  <2>2. versions[v] = NoVersion
    BY <2>1, <1>1, <1>2 DEF CommitCreateVersion, Rejected, UnchangedRows, PublishedChanges
  <2>. QED  BY <2>2 DEF PublishedChanges, NoVersion
<1>7. CASE AgentStep(r)
  <2>1. ~CommitCreateAgent(r) /\ ~CommitUpdateAgent(r)
    BY <1>1 DEF CommitCreateAgent, CommitUpdateAgent, Rejected, UnchangedRows
  <2>. QED  BY <1>4, <1>5, <1>6, <1>7, <2>1, CreateAgentBegins, UpdateAgentBegins,
              DeleteAgentBegins, CreateVersionBegins, UpdateVersionBegins,
              PublishVersionBegins DEF AgentStep, IInv
<1>8. CASE SessionStep(r)
  <2>1. ~CommitCreateSession(r)
    BY <1>1 DEF CommitCreateSession, Rejected, UnchangedRows
  <2>. QED  BY <1>4, <1>8, <2>1, CreateSessionBegins DEF SessionStep, IInv
<1>9. CASE ToolStep(r)
  <2>1. ~CommitCreateTool(r) /\ ~CommitUpdateTool(r) /\ ~CommitDeleteTool(r)
    BY <1>1 DEF CommitCreateTool, CommitUpdateTool, CommitDeleteTool, Rejected, UnchangedRows
  <2>2. ~CommitAttachTool(r) /\ ~CommitDetachTool(r)
    BY <1>1 DEF CommitAttachTool, CommitDetachTool, Rejected, UnchangedRows
  <2>. QED  BY <1>4, <1>9, <2>1, <2>2, CreateToolBegins, UpdateToolBegins, DeleteToolBegins,
              AttachToolBegins, DetachToolBegins DEF ToolStep, IInv
<1>10. ~DatabaseFails(r)
  BY <1>1 DEF DatabaseFails, UnchangedRows, Rejected
<1>. QED  BY <1>7, <1>8, <1>9, <1>10

\* A published row that stays is changed only by the flush of an
\* update_version (configuration and hash) or of a publish_version
\* (published_at) that overlapped another request: a project that handles one
\* request at a time keeps every published version as it is.
THEOREM PublishedStaysWithoutOverlap == Spec => PublishedChangesOnlyOnOverlap
<1> DEFINE By(r, v) ==
             /\ req[r].version = v /\ ~req[r].alone /\ req'[r].reply = "ok"
             /\ \/ /\ req[r].op = "update_version"
                   /\ versions'[v] = [versions[v] EXCEPT
                                        !.config = versions'[v].config,
                                        !.hash = versions'[v].hash]
                \/ /\ req[r].op = "publish_version"
                   /\ versions'[v] = [versions[v] EXCEPT
                                        !.published_at = req[r].at]
<1>1. IInv /\ [Next]_vars =>
        [\A v \in VersionIds : PublishedChanges(v) => \E r \in Requests : By(r, v)]_vars
  <2> SUFFICES ASSUME IInv, Next, NEW v \in VersionIds, PublishedChanges(v)
               PROVE  \E r \in Requests : By(r, v)
    OBVIOUS
  <2>1. PICK r \in Requests :
          AgentStep(r) \/ SessionStep(r) \/ ToolStep(r) \/ DatabaseFails(r)
    BY DEF Next
  <2>2. CommitUpdateVersion(r) \/ CommitPublishVersion(r)
    BY <2>1, PublishedWriters
  <2>3. versions' # versions /\ versions \in [VersionIds -> VersionRows]
        /\ versions[v] \in VersionRows /\ versions[v].state = "published"
        /\ versions'[v] # versions[v] /\ req \in [Requests -> HandlerStates]
    BY DEF PublishedChanges, IInv, TypeOK
  <2>4. CASE CommitUpdateVersion(r)
    <3>1. /\ InFlight(r) /\ req[r].op = "update_version"
          /\ versions' = [versions EXCEPT ![req[r].version] = WrittenVersion(req[r], @)]
          /\ req' = [req EXCEPT ![r] = [Idle EXCEPT !.reply = "ok"]]
      BY <2>3, <2>4 DEF CommitUpdateVersion, Rejected, UnchangedRows, Answer
    <3>2. req[r].version = v
      BY <2>3, <3>1
    <3>3. ~req[r].alone
      BY <2>3, <3>1, <3>2, AloneAccepted DEF Accepted
    <3>4. req'[r].reply = "ok"
      BY <2>3, <3>1 DEF Idle
    <3>5. versions'[v] = WrittenVersion(req[r], versions[v])
      BY <2>3, <3>1, <3>2
    <3>6. versions'[v] = [versions[v] EXCEPT !.config = versions'[v].config,
                                            !.hash = versions'[v].hash]
      BY <2>3, <3>5 DEF WrittenVersion, VersionRows
    <3>. QED  BY <3>1, <3>2, <3>3, <3>4, <3>6
  <2>5. CASE CommitPublishVersion(r)
    <3>1. /\ InFlight(r) /\ req[r].op = "publish_version"
          /\ versions' = [versions EXCEPT ![req[r].version].state = "published",
                                         ![req[r].version].published_at = req[r].at]
          /\ req' = [req EXCEPT ![r] = [Idle EXCEPT !.reply = "ok"]]
      BY <2>3, <2>5 DEF CommitPublishVersion, Rejected, UnchangedRows, Answer
    <3>2. req[r].version = v
      BY <2>3, <3>1
    <3>3. ~req[r].alone
      BY <2>3, <3>1, <3>2, AloneAccepted DEF Accepted
    <3>4. req'[r].reply = "ok"
      BY <2>3, <3>1 DEF Idle
    <3>5. versions'[v] = [versions[v] EXCEPT !.state = "published",
                                            !.published_at = req[r].at]
      BY <2>3, <3>1, <3>2
    <3>6. versions'[v] = [versions[v] EXCEPT !.published_at = req[r].at]
      BY <2>3, <3>5 DEF VersionRows
    <3>. QED  BY <3>1, <3>2, <3>3, <3>4, <3>6
  <2>. QED  BY <2>2, <2>4, <2>5
<1>. QED  BY <1>1, Invariant, PTL DEF Spec, PublishedChangesOnlyOnOverlap
=============================================================================
