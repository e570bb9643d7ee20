------------------------- MODULE CapabilityRegistry -------------------------
(***************************************************************************)
(* The Center's registry of capabilities.  A node registers everything it  *)
(* offers in one message; the transaction that handles it replaces the     *)
(* node's sources, merges the definitions several nodes share, derives     *)
(* their statuses and queues jobs that embed what changed.  A worker runs  *)
(* those jobs.  An agent's search reads the registry, ranks what it read,  *)
(* and keeps the ranking under the version of the registry; the context of *)
(* a turn counts what each node offers and is kept under a fingerprint of  *)
(* the registry.  Every transaction is READ COMMITTED: it reads what is    *)
(* committed at that moment and its own writes, and a row it wrote is      *)
(* locked until it ends.                                                   *)
(***************************************************************************)
EXTENDS Naturals, FiniteSets, SequencesExt

CONSTANTS Nodes, Caps,
          MaxHandlers,   \* bound: registrations under way together
          Searches,      \* sessions that search
          Manifests,     \* bound: per node, the lists of capabilities it may report
          Registered,    \* per node: what it registered before, one after the other
          None,          \* nothing stored
          TopK,          \* RETRIEVAL_TOP_K
          BatchSize,     \* YEQU_YCR_SCHEDULER_BACKGROUND_BATCH_SIZE
          MaxReports,    \* bound: registrations received
          MaxFailures    \* bound: jobs the embedder fails

ASSUME FiniteAssumption == IsFiniteSet(Nodes) /\ IsFiniteSet(Caps)
ASSUME ManifestsAssumption == Manifests \in [Nodes -> SUBSET Seq(Caps)]
ASSUME RegisteredAssumption ==
    /\ Registered \in [Nodes -> SUBSET Caps]
    /\ \A m, n \in Nodes : m # n => Registered[m] \cap Registered[n] = {}
ASSUME LimitAssumption == TopK \in Nat \ {0} /\ BatchSize \in Nat \ {0}
ASSUME BoundsAssumption == MaxHandlers \in Nat \ {0} /\ MaxReports \in Nat /\ MaxFailures \in Nat
ASSUME NoneAssumption == None \notin Caps /\ \A D \in SUBSET Nodes : D # None

VARIABLES
    source,     \* per node: the capabilities of its active sources
    known,      \* the sources that have a row, active or not
    status,     \* per capability: the status of its definition
    indexJob,        \* per capability and document: the status of its index job
    index,      \* per capability: the document its index was made from
    handler,    \* per handler: the registration it is at
    reports,    \* registrations received; a registration's number is its time
    reported,   \* per node: the last manifest whose registration committed
    version,    \* the version of the registry: registrations committed
    latest,     \* the newest updated_at of a source
    cache,      \* per version: the ranking kept for it
    search,     \* per search: how far it is
    snapshot,   \* the context kept, with the fingerprint it was kept under
    building,   \* the fingerprint read by a turn that builds its context
    failures,   \* jobs failed so far
    outdated,   \* the versions for which a search ranked what it had read before
    overlapped  \* two registrations were once under way together

registry == <<source, known, status, reported, version, latest>>
indexJobs == <<indexJob, index, failures>>
lookups == <<cache, search, snapshot, building, outdated>>
registryVars == <<source, known, status, indexJob, index, handler, reports, reported, version,
          latest, cache, search, snapshot, building, failures, outdated, overlapped>>

Handlers == 1..MaxHandlers     \* the transactions that handle them

\* What a capability's document tells apart: the nodes that offer it.
Documents == (SUBSET Nodes) \ {{}}
Idle == [at |-> "idle"]

Transactions ==
    [at : {"locking", "merging", "writing", "committing"},
     node : Nodes, time : 1..MaxReports,
     manifest : UNION {Manifests[n] : n \in Nodes}, replaced : SUBSET Caps,  \* reported, deactivated
     todo : Seq(Caps), offered : SUBSET Caps,       \* still to merge, merged
     stale : SUBSET Caps,                           \* dropped, status not yet derived
     wrote : [Caps -> {"none", "active", "inactive"}],     \* the rows of definitions written
     target : Caps \cup {None}, want : {"active", "inactive"},
     queued : SUBSET (Caps \X Documents)]

RegistryTypeOK ==
    /\ source \in [Nodes -> SUBSET Caps] /\ reported \in [Nodes -> SUBSET Caps]
    /\ known \subseteq Nodes \X Caps
    /\ status \in [Caps -> {"none", "active", "inactive"}]
    /\ indexJob \in [Caps \X Documents -> {"none", "queued", "failed", "succeeded"}]
    /\ index \in [Caps -> {None} \cup Documents]
    /\ handler \in [Handlers -> Transactions \cup {Idle}]
    /\ reports \in 0..MaxReports /\ version \in 0..MaxReports /\ latest \in 0..MaxReports
    /\ cache \in [0..MaxReports -> {None} \cup SUBSET Caps]
    /\ failures \in 0..MaxFailures /\ overlapped \in BOOLEAN
    /\ outdated \subseteq 0..MaxReports

RegistryInit ==
    /\ source = Registered /\ reported = Registered
    /\ known = {k \in Nodes \X Caps : k[2] \in Registered[k[1]]}
    /\ LET Doc(c) == {n \in Nodes : c \in Registered[n]} IN
       /\ status = [c \in Caps |-> IF Doc(c) = {} THEN "none" ELSE "active"]
       /\ indexJob = [j \in Caps \X Documents |-> IF j[2] = Doc(j[1]) THEN "succeeded" ELSE "none"]
       /\ index = [c \in Caps |-> IF Doc(c) = {} THEN None ELSE Doc(c)]
    /\ handler = [h \in Handlers |-> Idle]
    /\ reports = 0 /\ version = 0 /\ latest = 0
    /\ cache = [v \in 0..MaxReports |-> None]
    /\ search = [q \in Searches |-> Idle]
    /\ snapshot = None /\ building = None
    /\ failures = 0 /\ outdated = {} /\ overlapped = FALSE

-----------------------------------------------------------------------------
\* The active sources once h has committed, which h alone sees before.
Replaced(h) == [source EXCEPT ![handler[h].node] = (@ \ handler[h].replaced) \cup handler[h].offered]
Touched(h) == handler[h].replaced \cup handler[h].offered

\* The nodes that offer c: as committed, and as the transaction h sees it.
Offering(c) == {n \in Nodes : c \in source[n]}
OfferingSeen(h, c) == {n \in Nodes : c \in Replaced(h)[n]}
Candidates == {c \in Caps : Offering(c) # {}}

Underway(h) == handler[h] # Idle
At(h, stage) == Underway(h) /\ handler[h].at = stage
Step(h, transaction) == handler' = [handler EXCEPT ![h] = transaction]
Holds(h, c) == Underway(h) /\ handler[h].wrote[c] # "none"
RowFree(h, c) == \A g \in Handlers \ {h} : ~Holds(g, c)

handle_register_capabilities(h) == \E n \in Nodes : \E m \in Manifests[n] :
    /\ ~Underway(h) /\ \A g \in 1..(h - 1) : Underway(g)
    /\ reports < MaxReports
    /\ handler' = [handler EXCEPT ![h] =
           [at |-> "locking", node |-> n, time |-> reports + 1, manifest |-> m, todo |-> m,
            replaced |-> {}, offered |-> {}, stale |-> {}, target |-> None,
            wrote |-> [c \in Caps |-> "none"], want |-> "active", queued |-> {}]]
    /\ reports' = reports + 1
    /\ overlapped' = (overlapped \/ \E g \in Handlers : Underway(g))
    /\ UNCHANGED <<registry, indexJobs, lookups>>

NodeUnlocked(h) == TRUE        \* no lock on the node

\* One transaction at a time holds the lock of the node's key.
NodeFree(h) == \A g \in Handlers \ {h} :
    Underway(g) => At(g, "locking") \/ handler[g].node # handler[h].node

DeactivateSources(h) ==
    /\ At(h, "locking") /\ NodeFree(h)
    /\ Step(h, [handler[h] EXCEPT !.at = "merging", !.replaced = source[handler[h].node],
                                  !.stale = source[handler[h].node]])
    /\ UNCHANGED <<registry, indexJobs, lookups, reports, overlapped>>

\* What is merged into a definition leaves it active.
upsert_definition_row(h, c) == [handler[h].wrote EXCEPT ![c] = "active"]

\* The definition's row is inserted or updated before the source's is.
upsert_source(h) ==
    /\ At(h, "merging") /\ handler[h].todo # <<>>
    /\ LET c == Head(handler[h].todo) IN
       /\ RowFree(h, c)
       /\ Step(h, [handler[h] EXCEPT !.todo = Tail(@), !.offered = @ \cup {c},
                                     !.stale = @ \ {c}, !.wrote = upsert_definition_row(h, c)])
    /\ UNCHANGED <<registry, indexJobs, lookups, reports, overlapped>>

\* The status of a definition is derived from the sources seen, which changes
\* only those the manifest dropped; the row is written when it is free.
CheckStatus(h) ==
    /\ At(h, "merging") /\ handler[h].todo = <<>>
    /\ \E c \in handler[h].stale :
       LET derived == IF OfferingSeen(h, c) # {} THEN "active" ELSE "inactive"
       IN  IF derived = status[c]
             THEN Step(h, [handler[h] EXCEPT !.stale = @ \ {c}])
             ELSE Step(h, [handler[h] EXCEPT !.at = "writing", !.target = c, !.want = derived])
    /\ UNCHANGED <<registry, indexJobs, lookups, reports, overlapped>>

WriteStatus(h) ==
    /\ At(h, "writing") /\ RowFree(h, handler[h].target)
    /\ LET c == handler[h].target IN
       Step(h, [handler[h] EXCEPT !.at = "merging", !.target = None, !.stale = @ \ {c},
                                  !.wrote = [@ EXCEPT ![c] = handler[h].want]])
    /\ UNCHANGED <<registry, indexJobs, lookups, reports, overlapped>>

\* A job is queued for a document without a queued or a succeeded one.
Missing(J) == {j \in J : j[2] # {} /\ indexJob[j] \notin {"queued", "succeeded"}}

enqueue_capability_index_jobs(h) ==
    /\ At(h, "merging") /\ handler[h].todo = <<>> /\ handler[h].stale = {}
    /\ Step(h, [handler[h] EXCEPT !.at = "committing",
                   !.queued = Missing({<<c, OfferingSeen(h, c)>> : c \in Touched(h)})])
    /\ UNCHANGED <<registry, indexJobs, lookups, reports, overlapped>>

\* A job's id is made from its capability and its document and is unique.
Taken(J) == \E j \in J : indexJob[j] # "none"
Queue(J) == indexJob' = [j \in DOMAIN indexJob |-> IF j \in J THEN "queued" ELSE indexJob[j]]

Commit(h) ==
    /\ At(h, "committing") /\ ~Taken(handler[h].queued)
    /\ source' = Replaced(h)
    /\ reported' = [reported EXCEPT ![handler[h].node] = ToSet(handler[h].manifest)]
    /\ known' = known \cup ({handler[h].node} \X handler[h].offered)
    /\ status' = [c \in Caps |-> IF Holds(h, c) THEN handler[h].wrote[c] ELSE status[c]]
    /\ version' = version + 1
    /\ latest' = IF Touched(h) # {} /\ handler[h].time > latest THEN handler[h].time ELSE latest
    /\ Queue(handler[h].queued)
    /\ handler' = [handler EXCEPT ![h] = Idle]
    /\ UNCHANGED <<index, failures, lookups, reports, overlapped>>

\* The refused insert is tried again in the same transaction.
RetryInsert(h) ==
    /\ At(h, "committing") /\ Taken(handler[h].queued)
    /\ UNCHANGED registryVars

Refuse(h) ==
    /\ At(h, "committing") /\ Taken(handler[h].queued)
    /\ handler' = [handler EXCEPT ![h] = Idle]
    /\ UNCHANGED <<registry, indexJobs, lookups, reports, overlapped>>

\* The database ends one of the transactions that wait for each other's rows.
Wanted(h) ==
    CASE At(h, "merging") /\ handler[h].todo # <<>> -> {Head(handler[h].todo)}
      [] At(h, "writing") -> {handler[h].target}
      [] OTHER -> {}
WaitsFor(h, g) == \E c \in Wanted(h) : Holds(g, c)

Deadlock(h) ==
    /\ \E H \in SUBSET Handlers :
          /\ h \in H
          /\ \A g \in H : (\E k \in H \ {g} : WaitsFor(g, k)) /\ \E k \in H \ {g} : WaitsFor(k, g)
    /\ handler' = [handler EXCEPT ![h] = Idle]
    /\ UNCHANGED <<registry, indexJobs, lookups, reports, overlapped>>

Register(h) ==
    \/ DeactivateSources(h) \/ upsert_source(h) \/ CheckStatus(h) \/ WriteStatus(h)
    \/ enqueue_capability_index_jobs(h) \/ Commit(h) \/ Refuse(h) \/ Deadlock(h)

-----------------------------------------------------------------------------
OnlyQueued == {j \in DOMAIN indexJob : indexJob[j] = "queued"}    \* failed jobs are left
Unfinished == {j \in DOMAIN indexJob : indexJob[j] \in {"queued", "failed"}}

\* The embedder serves searches first: a job is only sure to be embedded while
\* there is none.
ForegroundActive == \E q \in Searches : search[q] # Idle

\* The worker takes as many unfinished jobs as one pass may, here any of them,
\* in the code those that were left longest; nothing of its work is seen
\* before its commit.  The last job of a capability leaves the index.
Batches == {B \in SUBSET Unfinished : Cardinality(B) = Min({BatchSize, Cardinality(Unfinished)})}

run_capability_index_jobs_once ==
    /\ Unfinished # {}
    /\ \E B \in Batches : \E F \in SUBSET B :
          LET done == B \ F IN
          /\ failures + Cardinality(F) <= MaxFailures
          /\ failures' = failures + Cardinality(F)
          /\ indexJob' = [j \in DOMAIN indexJob |-> IF j \in F THEN "failed"
                                          ELSE IF j \in done THEN "succeeded" ELSE indexJob[j]]
          /\ \E last \in [{j[1] : j \in done} -> Documents] :
                /\ \A c \in DOMAIN last : <<c, last[c]>> \in done
                /\ index' = [c \in Caps |-> IF c \in DOMAIN last THEN last[c] ELSE index[c]]
    /\ UNCHANGED <<registry, handler, reports, lookups, overlapped>>

-----------------------------------------------------------------------------
\* An index is ready when there is one, whatever document it was made from.
Unindexed == {c \in Candidates : index[c] = None}

enqueue_missing_capability_indexes ==
    LET queued == Missing({<<c, Offering(c)>> : c \in Unindexed}) IN ~Taken(queued) /\ Queue(queued)

\* A search reads the candidates and their indexes; without an index for each
\* it queues the missing jobs and says so.
search_capability_rag(q) ==
    /\ search[q] = Idle /\ Candidates # {}
    /\ \/ /\ Unindexed # {}
          /\ enqueue_missing_capability_indexes
          /\ UNCHANGED search
       \/ /\ Unindexed = {}
          /\ search' = [search EXCEPT ![q] = [at |-> "embedding", candidates |-> Candidates,
                                              began |-> version]]
          /\ UNCHANGED indexJob
    /\ UNCHANGED <<registry, index, failures, handler, reports, cache, snapshot, building, outdated,
                   overlapped>>

NewestUpdate == latest         \* the newest updated_at of a source

\* The version is a hash of every row with its updated_at: no two commits
\* leave the same one.
RegistryVersion == version

\* The candidates in an order only the embeddings decide, cut off at TopK.
Rankings(C) ==
    {R \in SUBSET C : Cardinality(R) = IF Cardinality(C) < TopK THEN Cardinality(C) ELSE TopK}

\* The answer: rows that are no candidates are passed over.
Matches(rows, candidates) == rows \cap candidates

\* With the query's embedding it reads the registry's version, and takes the
\* ranking kept for it or ranks the candidates it has.
cached_retrieval_candidates(q) ==
    /\ search[q].at = "embedding"
    /\ LET kept == cache[RegistryVersion]
           moved == version # search[q].began
       IN  /\ \E rows \in IF kept # None THEN {kept} ELSE Rankings(search[q].candidates) :
                 search' = [search EXCEPT ![q] =
                    [at |-> "reranking", candidates |-> search[q].candidates, moved |-> moved,
                     of |-> RegistryVersion, rows |-> rows, named |-> Matches(rows, search[q].candidates)]]
           /\ outdated' = IF kept = None /\ moved THEN outdated \cup {RegistryVersion} ELSE outdated
    /\ UNCHANGED <<registry, indexJobs, handler, reports, cache, snapshot, building, overlapped>>

\* A ranking that another search kept first fails this one: the key is unique.
AnswerSearch(q) ==
    /\ search[q].at = "reranking"
    /\ LET s == search[q] IN
       cache' = IF cache[s.of] # None THEN cache ELSE [cache EXCEPT ![s.of] = s.rows]
    /\ search' = [search EXCEPT ![q] = Idle]
    /\ UNCHANGED <<registry, indexJobs, handler, reports, snapshot, building, outdated, overlapped>>

-----------------------------------------------------------------------------
\* What the context of a turn says of a node: how many functions it offers.
ActiveFunctions == [n \in Nodes |-> Cardinality({c \in source[n] : status[c] = "active"})]
RowsCounted == <<Cardinality(known), 0>>     \* without the newest updated_at
Fingerprint == <<Cardinality(known), latest>>

\* A turn that finds no context under the fingerprint, or an old one, builds it.
build_capability_context ==
    /\ building = None
    /\ building' = Fingerprint
    /\ UNCHANGED <<registry, indexJobs, handler, reports, cache, search, snapshot, outdated, overlapped>>

store_snapshot ==
    /\ building # None
    /\ snapshot' = [fingerprint |-> building, counts |-> ActiveFunctions]
    /\ building' = None
    /\ UNCHANGED <<registry, indexJobs, handler, reports, cache, search, outdated, overlapped>>

-----------------------------------------------------------------------------
RegistryNext ==
    \/ \E h \in Handlers : handle_register_capabilities(h) \/ Register(h)
    \/ run_capability_index_jobs_once
    \/ \E q \in Searches :
          search_capability_rag(q) \/ cached_retrieval_candidates(q) \/ AnswerSearch(q)
    \/ build_capability_context \/ store_snapshot

\* The database grants a row to those that wait for it in their order, and the
\* worker looks for jobs every five seconds and is woken after every search.
Fairness ==
    /\ \A h \in Handlers : SF_registryVars(Register(h))
    /\ SF_registryVars(~ForegroundActive /\ run_capability_index_jobs_once)
    /\ \A q \in Searches : WF_registryVars(cached_retrieval_candidates(q) \/ AnswerSearch(q))

RegistrySpec == RegistryInit /\ [][RegistryNext]_registryVars /\ Fairness

-----------------------------------------------------------------------------
(* Properties. *)

\* However the registrations of a node overlap, its active sources are the
\* manifest that was committed last and nothing of an earlier one.
SourcesFollowReport == source = reported

\* Unless registrations overlapped, a definition is active while some node
\* offers it and no longer.
StatusFollowsSources ==
    ~overlapped => \A c \in Caps : status[c] = "active" <=> Offering(c) # {}

\* Unless registrations overlapped, a context found under the fingerprint of
\* the registry counts what the registry holds.
SnapshotIsCurrent ==
    (~overlapped /\ snapshot # None /\ snapshot.fingerprint = Fingerprint)
        => snapshot.counts = ActiveFunctions

\* Unless a registration was committed while it looked, a search answers with a
\* full ranking of what it found, also when an earlier search kept that ranking
\* and however registrations overlapped since; except at a version for which
\* some search kept a ranking of what it had read before.
AnswersRankCandidates ==
    \A q \in Searches :
        search[q].at = "reranking" /\ ~search[q].moved /\ search[q].of \notin outdated =>
            search[q].named \in Rankings(search[q].candidates)

\* What a node offers gets an index, though embedding it may fail.
CandidatesGetIndexed == \A c \in Caps : (c \in Candidates) ~> (index[c] # None)

\* Every registration commits or is given up, whatever rows it has to wait for.
RegistrationEnds == \A h \in Handlers : Underway(h) ~> ~Underway(h)

(* Properties this code does not have. *)

\* The ranking kept for the registry's version ranks what the registry offers.
RankingFollowsVersion == cache[version] # None => cache[version] \in Rankings(Candidates)

\* Once every job is done, the index describes the nodes that offer it.
IndexFollowsSources ==
    (\A j \in DOMAIN indexJob : indexJob[j] \in {"none", "succeeded"}) =>
        \A c \in Candidates : index[c] = Offering(c)

\* An index job never refuses a registration.
RegistrationNotRefused == [][\A h \in Handlers : ~Refuse(h)]_registryVars
=============================================================================
