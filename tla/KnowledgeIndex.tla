--------------------------- MODULE KnowledgeIndex ---------------------------
(***************************************************************************)
(* A library of texts that is searched by meaning (platform/knowledge):    *)
(* entries are written by requests that may be sent again, one indexer per *)
(* server process turns them into vectors with an embedding model, which   *)
(* administrators replace, and searches compare a query with the vectors.  *)
(*                                                                         *)
(* Texts and vectors are abstracted to what they are of: a text is the     *)
(* version of its entry, a vector a version and the revision of the model  *)
(* that made it.  A revision is new whenever endpoint, protocol, model or  *)
(* dimension change.  A token is the process that claimed the entry with   *)
(* it.  Libraries with exact retrieval, which have no index, are left out. *)
(***************************************************************************)
EXTENDS Integers, FiniteSets

CONSTANTS
  Entries,
  Processes,     \* servers, each with one indexer
  Edits,         \* request ids of writes
  MaxVersion,    \* bound on the versions of an entry
  MaxChanges,    \* bound on changes of the model, of the application and on pauses
  MaxFaults,     \* bound on processes that die or are slow
  Nobody,        \* no token
  Lost           \* the token of a process that died

ASSUME KnowledgeAssumption ==
  {MaxVersion, MaxChanges, MaxFaults} \subseteq Nat /\ {Nobody, Lost} \cap Processes = {}

VARIABLES
  config,    \* embedding_runtime_global: enabled, revision (0 while there is none)
  serving,   \* whether the application is enabled and declares the library
  entry,     \* rows of platform_knowledge_entries
  indexer,   \* runOnce() of each process, and whether it is paused for maintenance
  request,   \* what each request id asks for
  result,    \* platform_knowledge_requests.result
  applied,   \* history: how often each request has changed its entry
  query,     \* a search that is waiting for the vector of its query
  answer,    \* the last answer of a search
  changes, faults

knowledgeVars ==
  <<config, serving, entry, indexer, request, result, applied, query, answer, changes, faults>>

Versions == 1..MaxVersion
Revisions == 0..MaxChanges
NoVector == [version |-> 0, revision |-> 0]
NoEntry ==
  [version |-> 0, deleted |-> FALSE, status |-> "pending", key |-> 0, indexed |-> 0, token |-> Nobody,
   expired |-> FALSE, vector |-> NoVector]
NoRequest == [action |-> "none"]
Idle == [pc |-> "idle", revision |-> 0, entry |-> Nobody, version |-> 0, aborted |-> FALSE, paused |-> "no"]
NoQuery == [pc |-> "idle", revision |-> 0]

KnowledgeTypeOK ==
  /\ config \in [enabled : BOOLEAN, revision : Revisions] /\ serving \in BOOLEAN
  /\ \A e \in Entries :
       /\ entry[e].version \in 0..MaxVersion /\ entry[e].indexed \in 0..MaxVersion
       /\ entry[e].status \in {"pending", "processing", "ready", "failed"} /\ entry[e].key \in Revisions
       /\ entry[e].token \in Processes \cup {Nobody, Lost} /\ {entry[e].deleted, entry[e].expired} \subseteq BOOLEAN
  /\ \A p \in Processes :
       /\ indexer[p].pc \in {"idle", "configured", "embedding"} /\ indexer[p].revision \in Revisions
       /\ indexer[p].paused \in {"no", "waiting", "yes"} /\ indexer[p].aborted \in BOOLEAN
  /\ \A r \in Edits : result[r] \in 0..MaxVersion
  /\ applied \in [Edits -> Nat] /\ query.pc \in {"idle", "configured", "embedding"}
  /\ changes \in 0..MaxChanges /\ faults \in 0..MaxFaults

KnowledgeInit ==
  /\ config = [enabled |-> FALSE, revision |-> 0] /\ serving = TRUE
  /\ entry = [e \in Entries |-> NoEntry] /\ indexer = [p \in Processes |-> Idle]
  /\ request = [r \in Edits |-> NoRequest] /\ result = [r \in Edits |-> 0]
  /\ applied = [r \in Edits |-> 0] /\ query = NoQuery
  /\ answer = [revision |-> 0, hits |-> {}] /\ changes = 0 /\ faults = 0
-----------------------------------------------------------------------------
Exists(e) == entry[e].version > 0 /\ ~entry[e].deleted

\* A caller composes a request with the version it has been shown (0 to create), and may
\* send it again whenever it does not know what became of it.
Compose(r, e, action) ==
  /\ request[r] = NoRequest
  /\ Exists(e) <=> action # "create"
  /\ request' = [request EXCEPT ![r] = [action |-> action, entry |-> e,
                                        expected |-> IF action = "create" THEN 0 ELSE entry[e].version]]
  /\ UNCHANGED <<config, serving, entry, indexer, result, applied, query, answer, changes, faults>>

\* Every write drops the vector, and the token of who is making one.
Unindexed(version, deleted) == [NoEntry EXCEPT !.version = version, !.deleted = deleted]

Writable(w) ==
  IF w.action = "create" THEN ~Exists(w.entry) ELSE Exists(w.entry) /\ entry[w.entry].version = w.expected

Written(w) ==
  LET version == entry[w.entry].version IN
  Unindexed(IF w.action = "reindex" THEN version ELSE version + 1, w.action = "delete")

Apply(r) ==
  LET w == request[r] IN
  /\ Writable(w) /\ (w.action # "reindex" => entry[w.entry].version < MaxVersion)
  /\ entry' = [entry EXCEPT ![w.entry] = Written(w)]
  /\ result' = [result EXCEPT ![r] = Written(w).version]
  /\ applied' = [applied EXCEPT ![r] = @ + 1]
  /\ UNCHANGED <<config, serving, indexer, request, query, answer, changes, faults>>

\* write(): one transaction; one that was done before is answered with its result.
Write(r) == request[r] # NoRequest /\ result[r] = 0 /\ Apply(r)
-----------------------------------------------------------------------------
\* saveEmbeddingConfig()
SaveConfig ==
  /\ changes < MaxChanges /\ changes' = changes + 1
  /\ \/ config' = [enabled |-> TRUE, revision |-> config.revision + 1]
     \/ config.revision > 0 /\ config' = [config EXCEPT !.enabled = ~@]
  /\ UNCHANGED <<serving, entry, indexer, request, result, applied, query, answer, faults>>

\* The application is disabled or enabled.
SetServing ==
  /\ changes < MaxChanges /\ changes' = changes + 1 /\ serving' = ~serving
  /\ UNCHANGED <<config, entry, indexer, request, result, applied, query, answer, faults>>

Step(p, next) == indexer' = [indexer EXCEPT ![p] = [next EXCEPT !.paused = indexer[p].paused]]

\* indexTick() and the first await of runOnce().
ReadConfig(p) ==
  /\ indexer[p].pc = "idle" /\ indexer[p].paused = "no" /\ config.enabled
  /\ Step(p, [Idle EXCEPT !.pc = "configured", !.revision = config.revision])
  /\ UNCHANGED <<config, serving, entry, request, result, applied, query, answer, changes, faults>>

\* Mutant: a claim that was never finished stays with whom it was.
FirstClaimable(e, revision) == Exists(e) /\ serving /\ (entry[e].status = "pending" \/ entry[e].key # revision)

Claimable(e, revision) ==
  /\ Exists(e) /\ serving
  /\ \/ entry[e].status = "pending" \/ entry[e].key # revision
     \/ entry[e].status = "processing" /\ entry[e].expired

\* One statement; the process keeps the text it returns.
Claim(p) ==
  /\ indexer[p].pc = "configured"
  /\ \E e \in Entries :
       /\ Claimable(e, indexer[p].revision)
       /\ entry' = [entry EXCEPT ![e].status = "processing", ![e].key = indexer[p].revision,
                                 ![e].indexed = entry[e].version, ![e].token = p, ![e].expired = FALSE]
       /\ Step(p, [indexer[p] EXCEPT !.pc = "embedding", !.entry = e, !.version = entry[e].version])
  /\ UNCHANGED <<config, serving, request, result, applied, query, answer, changes, faults>>

NothingToClaim(p) ==
  /\ indexer[p].pc = "configured"
  /\ indexer[p].aborted \/ \A e \in Entries : ~Claimable(e, indexer[p].revision)
  /\ Step(p, Idle)
  /\ UNCHANGED <<config, serving, entry, request, result, applied, query, answer, changes, faults>>

\* The model has answered, in time or not.
Settle(e, status, vector) ==
  entry' = [entry EXCEPT ![e].status = status, ![e].token = Nobody, ![e].vector = vector]

\* Mutant: only the version is compared.
FinishSameVersion(p) ==
  LET mine == indexer[p]  e == mine.entry IN
  /\ mine.pc = "embedding" /\ Step(p, Idle)
  /\ \/ entry[e].version = mine.version /\ Exists(e)
        /\ Settle(e, "ready", [version |-> mine.version, revision |-> mine.revision])
     \/ entry[e].version # mine.version /\ UNCHANGED entry
  /\ UNCHANGED <<config, serving, request, result, applied, query, answer, changes, faults>>

\* The end of runOnce(): the row is written if it is still claimed with this token.
Finish(p) ==
  LET mine == indexer[p]  e == mine.entry  claimed == entry[e].token = p /\ entry[e].version = mine.version IN
  /\ mine.pc = "embedding" /\ Step(p, Idle)
  /\ \/ ~claimed /\ UNCHANGED entry
     \/ claimed /\ Settle(e, "ready", [version |-> mine.version, revision |-> mine.revision])
     \/ claimed /\ Settle(e, IF mine.aborted THEN "pending" ELSE "failed", entry[e].vector)
  /\ UNCHANGED <<config, serving, request, result, applied, query, answer, changes, faults>>

\* index_started_at is two minutes ago: the process has died, or is slow, which a request
\* to the model, with at most one minute, is only by way of exception.
Expire(e) ==
  /\ entry[e].status = "processing" /\ ~entry[e].expired
  /\ \/ entry[e].token = Lost /\ UNCHANGED faults
     \/ entry[e].token # Lost /\ faults < MaxFaults /\ faults' = faults + 1
  /\ entry' = [entry EXCEPT ![e].expired = TRUE]
  /\ UNCHANGED <<config, serving, indexer, request, result, applied, query, answer, changes>>

\* prepare of the maintenance control: the indexer is aborted, and waited for (Paused).
Pause(p) ==
  /\ changes < MaxChanges /\ changes' = changes + 1 /\ indexer[p].paused = "no"
  /\ indexer' = [indexer EXCEPT ![p].paused = "waiting", ![p].aborted = indexer[p].pc # "idle"]
  /\ UNCHANGED <<config, serving, entry, request, result, applied, query, answer, faults>>

Paused(p) ==
  /\ indexer[p].paused = "waiting" /\ indexer[p].pc = "idle"
  /\ indexer' = [indexer EXCEPT ![p].paused = "yes"]
  /\ UNCHANGED <<config, serving, entry, request, result, applied, query, answer, changes, faults>>

\* The platform is back, or never got into maintenance.
Resume(p) ==
  /\ indexer[p].paused = "yes" /\ indexer' = [indexer EXCEPT ![p].paused = "no"]
  /\ UNCHANGED <<config, serving, entry, request, result, applied, query, answer, changes, faults>>

\* The process dies, or its last write fails: what it has claimed waits for the lease.
Crash(p) ==
  /\ indexer[p].pc # "idle" /\ faults < MaxFaults /\ faults' = faults + 1
  /\ indexer' = [indexer EXCEPT ![p] = Idle]
  /\ entry' = [e \in Entries |-> IF entry[e].token = p THEN [entry[e] EXCEPT !.token = Lost] ELSE entry[e]]
  /\ UNCHANGED <<config, serving, request, result, applied, query, answer, changes>>
-----------------------------------------------------------------------------
Indexed(e, revision) ==
  Exists(e) /\ entry[e].status = "ready" /\ entry[e].indexed = entry[e].version /\ entry[e].key = revision

\* search(): the configuration, then whether all entries are indexed for it; otherwise the
\* answer is found in the texts.
SearchReads ==
  /\ query.pc = "idle" /\ config.enabled
  /\ query' = [pc |-> "configured", revision |-> config.revision]
  /\ UNCHANGED <<config, serving, entry, indexer, request, result, applied, answer, changes, faults>>

SearchCounts ==
  /\ query.pc = "configured"
  /\ query' = IF \A e \in Entries : Exists(e) => Indexed(e, query.revision)
              THEN [query EXCEPT !.pc = "embedding"] ELSE NoQuery
  /\ UNCHANGED <<config, serving, entry, indexer, request, result, applied, answer, changes, faults>>

Hit(e) == [version |-> entry[e].version, vector |-> entry[e].vector]

\* The query has its vector; version and model are asked again with the scores.
SearchAnswers ==
  /\ query.pc = "embedding" /\ query' = NoQuery
  /\ \E hits \in SUBSET {e \in Entries : config = [enabled |-> TRUE, revision |-> query.revision]
                                         /\ Indexed(e, query.revision)} :
       answer' = [revision |-> query.revision, hits |-> {Hit(e) : e \in hits}]
  /\ UNCHANGED <<config, serving, entry, indexer, request, result, applied, changes, faults>>

Index(p) == ReadConfig(p) \/ Claim(p) \/ NothingToClaim(p) \/ Finish(p) \/ Paused(p)

KnowledgeNext ==
  \/ \E r \in Edits, e \in Entries :
       \E action \in {"create", "update", "delete", "reindex"} : Compose(r, e, action)
  \/ \E r \in Edits : Write(r)
  \/ SaveConfig \/ SetServing
  \/ \E p \in Processes : Index(p) \/ Pause(p) \/ Resume(p) \/ Crash(p)
  \/ \E e \in Entries : Expire(e)
  \/ SearchReads \/ SearchCounts \/ SearchAnswers

\* Ticks follow each other, embedding requests are answered or time out, and time passes.
KnowledgeFairness ==
  /\ \A p \in Processes : WF_knowledgeVars(Index(p))
  /\ \A e \in Entries : WF_knowledgeVars(Expire(e))

KnowledgeSafety == KnowledgeInit /\ [][KnowledgeNext]_knowledgeVars
KnowledgeSpec == KnowledgeSafety /\ KnowledgeFairness
-----------------------------------------------------------------------------
\* An entry that counts as indexed has the vector of its present text, made by the model it
\* is said to be made by, through edits, replaced models, lost leases and late answers
\* (indexer.ts:28-35).
ReadyIsTrue ==
  \A e \in Entries :
    Exists(e) /\ entry[e].status = "ready" /\ entry[e].indexed = entry[e].version =>
      entry[e].vector = [version |-> entry[e].version, revision |-> entry[e].key]

\* Every hit of a search by meaning was scored with the vector of the text that is
\* returned, by the model that made the vector of the query, although the model was asked
\* between the count and the scores (index.ts:48-57).
AnswersFit ==
  \A hit \in answer.hits : hit.vector = [version |-> hit.version, revision |-> answer.revision]

\* A request changes its entry at most once: sent again late it brings no deleted text
\* back (index.ts:77-85).
RequestsOnce == \A r \in Edits : applied[r] <= 1

\* While the platform is in maintenance its indexer neither claims nor writes
\* (app.ts:47-54, 65-73).
MaintenanceIsQuiet == \A p \in Processes : indexer[p].paused = "yes" => indexer[p].pc = "idle"

\* Once the model and the application stay enabled and some indexer is not paused, every
\* text is in the end indexed for the model or marked as failed for it, although
\* processes die with their claims.
EventuallyIndexed ==
  <>[](config.enabled /\ serving /\ \E p \in Processes : indexer[p].paused = "no") =>
    <>[](\A e \in Entries : Exists(e) => entry[e].status \in {"ready", "failed"} /\ entry[e].key = config.revision)

\* What index and search rest on, together: vectors are of their texts and models, answers
\* fit the query, writes happen once, and maintenance is undisturbed (indexer.ts:8-36,
\* index.ts:39-121, app.ts:47-73).
IndexHolds == ReadyIsTrue /\ AnswersFit /\ RequestsOnce /\ MaintenanceIsQuiet
=============================================================================
