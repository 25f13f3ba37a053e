------------------------------ MODULE FrontDoors ------------------------------
(***************************************************************************)
(* The four ways to ask: the HTTP routes (api/app.py), the command line    *)
(* (cli/main.py), the MCP server (mcp/server.py) and the agent's tools     *)
(* (agent/tools.py).  Each decides on whose behalf the same service is     *)
(* searched; the directory adapters turn that into tags and the retrieval  *)
(* adapters into passages, the local ones before the domain filters, the   *)
(* managed ones within the scope already.                                  *)
(*                                                                         *)
(* A caller is the principals and the tenant an identity adapter           *)
(* verified; a request, what the peer wrote: principals, a tenant, a limit, *)
(* whether the query has a searchable term, and a filter.  A passage also  *)
(* has a rank, whether the terms hit it, whether it is of the source that  *)
(* is filtered for, and its document's row in the freshness ledger.        *)
(***************************************************************************)
EXTENDS Grounded, FiniteSetsExt

CONSTANTS
    MostPassages,   \* 50, the largest top_k the HTTP schema and the tools take
    DefaultTopK     \* 5, what the MCP server takes for 0 or nothing

ASSUME DoorsAssumption ==
    /\ MostPassages \in Nat \ {0} /\ DefaultTopK \in 1 .. MostPassages

Doors == {"http", "cli", "mcp", "agent"}
Refused == [refused |-> TRUE, principals |-> {}, tenant |-> Shared]

(***************************************************************************)
(* Slips: one mistake each.                                                *)
(***************************************************************************)
UnknownHintIgnored(caller, hint) ==
    IF caller.principals \cap hint = {} THEN caller.principals ELSE caller.principals \cap hint
-----------------------------------------------------------------------------
(***************************************************************************)
(* Whom a door asks for.                                                   *)
(***************************************************************************)
\* Principal.entitlement_principals: a hint narrows and never widens.
Narrowed(caller, hint) ==
    IF hint = {} THEN caller.principals ELSE caller.principals \cap hint

For(ps, t) == [refused |-> FALSE, principals |-> ps, tenant |-> t]
HttpScope(caller, request) == For(Narrowed(caller, request.principals), caller.tenant)
CliScope(request) == For(request.principals, request.tenant)
McpScope == For({}, Shared)
\* _verified_principal
AgentScope(managed, caller) ==
    IF caller.principals = {} \/ (managed /\ caller.tenant = Shared)
    THEN Refused ELSE For(caller.principals, caller.tenant)

Scope(door, managed, caller, request) ==
    CASE door = "http" -> HttpScope(caller, request)
      [] door = "cli" -> CliScope(request)
      [] door = "mcp" -> McpScope
      [] door = "agent" -> AgentScope(managed, caller)

\* The schema refuses, the tools clamp, the MCP server and the CLI pass on.
TakesTopK(door, asked) == door = "http" => asked \in 1 .. MostPassages
TopK(door, asked) ==
    CASE door = "agent" -> Greatest(1, Least(asked, MostPassages))
      [] door = "mcp" /\ asked = 0 -> DefaultTopK
      [] OTHER -> asked

(***************************************************************************)
(* The adapters.                                                           *)
(***************************************************************************)
\* The laptop's directory has no tenants; the managed one has nothing for a
\* caller without one, and only enabled bindings.
LocalTags(bindings, principals) == {b.tag : b \in {x \in bindings : x.principal \in principals}}
ManagedTags(bindings, principals, tenant) ==
    LocalTags({x \in bindings : x.tenant = tenant /\ x.enabled /\ tenant # Shared}, principals)
Resolve(managed, bindings, principals, tenant) ==
    IF managed THEN ManagedTags(bindings, principals, tenant)
    ELSE LocalTags(bindings, principals)

\* LIMIT of a ranked result; either adapter takes at least one row.
Top(passages, k) ==
    {p \in passages : Cardinality({q \in passages : q.rank < p.rank}) < Greatest(k, 1)}

\* _build_match: a query without a term scans everything, in either adapter.
Matching(index, request) == {p \in index : request.terms => p.hit}

\* AlloyDBRetrievalAdapter.retrieve: the WHERE clause; a filter it does not
\* know raises.
InManagedScope(p, tenant, allowed) ==
    /\ p.owner \in {Shared, tenant}
    /\ p.tags # {} /\ p.tags \subseteq allowed
    /\ p.row.status = "fresh" /\ p.row.current
ManagedCandidates(index, request, tenant, allowed) ==
    {p \in Matching(index, request) :
        /\ InManagedScope(p, tenant, allowed)
        /\ request.filter = "source_system" => p.ofSource}
FilterKnown(request) == request.filter \in {"none", "source_system"}
ManagedRetrieve(index, request, tenant, allowed, k) ==
    IF FilterKnown(request) THEN Top(ManagedCandidates(index, request, tenant, allowed), k) ELSE {}

\* LocalFtsRetrievalAdapter.retrieve: neither scope nor filters.
LocalRetrieve(index, request, k) == Top(Matching(index, request), k)

(***************************************************************************)
(* What comes back.                                                        *)
(***************************************************************************)
Shown(door, managed, caller, request, bindings, index) ==
    LET scope == Scope(door, managed, caller, request)
        allowed == Resolve(managed, bindings, scope.principals, scope.tenant)
        k == TopK(door, request.topK)
        found == IF managed THEN ManagedRetrieve(index, request, scope.tenant, allowed, k)
                 ELSE LocalRetrieve(index, request, k)
    IN  IF scope.refused \/ ~TakesTopK(door, request.topK) \/ allowed = {} THEN {}
        ELSE Admitted(found, scope.tenant, allowed)

\* corpus_status: a caller without a tenant sees the whole ledger.
StatusRows(caller, rows) ==
    {r \in rows : caller.tenant = Shared \/ r.owner \in {Shared, caller.tenant}}

\* CorpusStatusResponse.from_records: a fresh row past its date counts as expired.
Effective(row) == IF row.status = "fresh" /\ ~row.current THEN "expired" ELSE row.status
Counts(rows) ==
    [s \in {"fresh", "expired", "missing", "failed"} |->
        Cardinality({r \in rows : Effective(r.row) = s})]
-----------------------------------------------------------------------------
\* What a request has a right to of an index, whatever its limit: what matches
\* it, of its tenant or shared, every tag allowed, and on a managed profile
\* fresh and of the source asked for.
Entitled(managed, request, index, tenant, allowed) ==
    {p \in Matching(index, request) :
        /\ p.owner \in {Shared, tenant}
        /\ p.tags # {} /\ p.tags \subseteq allowed
        /\ managed => /\ p.row.status = "fresh" /\ p.row.current
                      /\ request.filter = "source_system" => p.ofSource}

\* The limit leaves nothing that matches out.
Ample(door, request, index) ==
    Cardinality(Matching(index, request)) <= Greatest(TopK(door, request.topK), 1)

(***************************************************************************)
(* Properties.                                                             *)
(***************************************************************************)
\* What the MCP server says of itself: its caller reads the public corpus, the
\* shared passages without a tag.  Nobody is shown an untagged passage, and a
\* caller without principals none at all.  (mcp.server, build_handlers)
PublicIsReadable(door, managed, caller, request, bindings, index) ==
    /\ door = "mcp" /\ Ample(door, request, index)
    => \A p \in Matching(index, request) :
          /\ p.owner = Shared /\ p.tags = {}
          /\ managed => p.row.status = "fresh" /\ p.row.current
          => p \in Shown(door, managed, caller, request, bindings, index)

\* Whatever a peer writes, the HTTP and agent doors show passages only of the
\* verified tenant or the shared corpus, every tag of which the verified
\* principals hold, and no more than the limit.  No door shows two owners'
\* copies of one id.  Where the limit leaves out nothing that matches, a door
\* shows all its request has a right to but shared copies of the tenant's own
\* documents; on a managed profile a door that shows nothing has nothing
\* permitted to show under any limit: crowding by passages of others happens
\* on a laptop only, and only when more match than were asked for.
\* What a managed door shows, the status route lists for the same caller and
\* counts as fresh: the SQL's freshness and the ledger's are one.
\* (search, answer, build_handlers, build_tool_callables, retrieve,
\* prefer_unambiguous_document_owners, corpus_status,
\* CorpusStatusResponse.from_records)
EveryDoorStaysEntitled(door, managed, caller, request, bindings, index) ==
    LET shown == Shown(door, managed, caller, request, bindings, index)
        scope == Scope(door, managed, caller, request)
        rows == {[doc |-> p.doc, owner |-> p.owner, row |-> p.row] : p \in index}
        listed == StatusRows(caller, rows)
        docs(ps) == {<<p.doc, p.owner>> : p \in ps}
        held == Resolve(managed, bindings, caller.principals, caller.tenant)
        allowed == Resolve(managed, bindings, scope.principals, scope.tenant)
        due == Entitled(managed, request, index, scope.tenant, allowed)
        wellFormed == ~scope.refused /\ TakesTopK(door, request.topK) /\ FilterKnown(request)
    IN  /\ door \in {"http", "agent"} =>
              /\ \A p \in shown : /\ p.owner \in {Shared, caller.tenant}
                                  /\ p.tags # {} /\ p.tags \subseteq held
              /\ Cardinality(shown) <= MostPassages
              /\ docs(shown) \subseteq docs(listed)
              /\ managed => Cardinality(docs(shown)) <= Counts(listed)["fresh"]
        /\ door = "http" /\ request.principals # {} =>
              \A p \in shown : \A t \in p.tags :
                  \E b \in bindings : b.tag = t /\ b.principal \in request.principals
        /\ \A p, q \in shown : p.doc = q.doc => p.owner = q.owner
        /\ wellFormed /\ Ample(door, request, index) =>
              \A p \in due \ shown :
                  p.owner = Shared /\ \E q \in Matching(index, request) :
                                         q.doc = p.doc /\ q.owner = scope.tenant
        /\ wellFormed /\ managed /\ shown = {} => due = {}
=============================================================================
