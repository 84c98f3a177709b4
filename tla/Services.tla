------------------------------ MODULE Services ------------------------------
(***************************************************************************)
(* The small services, which share no state, as one specification: the     *)
(* initial state says which of them this behaviour is about, and the       *)
(* others stay as they are.  A behaviour about the algorithms, which keep  *)
(* no state either, is one state, the sample they are applied to.          *)
(***************************************************************************)
EXTENDS Integers, Sequences, FiniteSets

CONSTANTS RateCallers, Capacity, Window, MaxClock, MaxChecks,
          Keys, Workers, Purges, MaxVersion,
          Requests, Orders,
          ApiKeys, AdminCalls, Calls, MaxProjects,
          LlmCallers, MaxRetries, Limit, MaxTokens,
          Upserts, Contents,
          Files, Deletions, Levels,
          Checks, Polls, CacheSeconds, CheckTimeout, MaxTime,
          Samples,   \* inputs of the algorithms
          None

ASSUME ServicesAssumption ==
  /\ Capacity \in Nat \ {0} /\ Window \in Nat \ {0, 1}
  /\ IsFiniteSet(LlmCallers)
  /\ MaxRetries \in Seq(Nat \ {0}) /\ MaxRetries # <<>>
  /\ Limit \in Nat \ {0} /\ MaxTokens \in Nat \ {0}
  /\ CacheSeconds \in Nat \ {0} /\ CheckTimeout \in Nat \ {0}
  /\ Orders \subseteq Seq(Keys) \ {<<>>}
  /\ None \notin Requests /\ None \notin Nat
  /\ None \notin [project : Nat, write : BOOLEAN, revoked : BOOLEAN]

VARIABLES part, sample,
          bucket, clock, check, calls, onRedis, touched, granted, lastNow,
          rewound,
          entry, source, worker, purge, shared, begun, ended, seen,
          secret, holder, request, audit,
          project, made, key, issued, value, logged, admin, call,
          caller, errors, response, used,
          row, upsert, cut,
          stored, object, url, deletion, level, late, uncleared,
          time, checks, cachedAt, cached, poll, since

Rate == INSTANCE RateLimiter WITH Callers <- RateCallers
CacheOf == INSTANCE Cache
Env == INSTANCE EnvStore
Projects == INSTANCE ProjectKeys
Llm == INSTANCE LlmCalls WITH Callers <- LlmCallers
Search == INSTANCE SearchIndex
Storage == INSTANCE FileStorage
Health == INSTANCE HealthChecks

Secrets == INSTANCE Dotenv
Context == INSTANCE ContextAssembler
Flags == INSTANCE FeatureFlags
Access == INSTANCE AccessTokens
Templates == INSTANCE EnvTemplates
Results == INSTANCE SearchResults
Deep == INSTANCE HealthStatus
History == INSTANCE ChatHistory
Guard == INSTANCE InjectionGuard

\* Inputs the program has for its algorithms: a secret's text, sources as
\* add_text makes them, a flag's row and a user, two services' settings with
\* what a token is made of, a catalog, a table at two moments, the dependencies a
\* service registered, a conversation, the weights that match a text.
ASSUME SamplesAssumption ==
  \A s \in Samples :
    /\ "dotenv" \in DOMAIN s => s.dotenv \in Seq(Secrets!Chars)
    /\ "sources" \in DOMAIN s =>
         Context!Added(s.sources) /\ s.limit \in Nat
    /\ "environment" \in DOMAIN s => s.flag \in Flags!Flag /\ s.user \in Flags!User
    /\ "maker" \in DOMAIN s =>
         /\ s.maker \in Access!Config /\ s.checker \in Access!Config
         /\ s.user \notin {None, "no uuid"}
         /\ s.user \in DOMAIN s.active /\ s.active[s.user] \in BOOLEAN
         /\ "nbf" \in DOMAIN s.extra => s.extra.nbf \in Int
         /\ s.made \in Nat /\ s.now \in Nat
    /\ "catalog" \in DOMAIN s =>
         Templates!Catalog(s.catalog) /\ s.templates \in Seq(STRING)
    /\ "rows" \in DOMAIN s =>
         Results!Indexed(s.rows) /\ Results!Indexed(s.now) /\ s.limit \in Nat
    /\ "dependencies" \in DOMAIN s =>
         s.dependencies \subseteq Deep!Dependency /\ s.strict \in BOOLEAN
    /\ "turns" \in DOMAIN s =>
         History!Conversation(s.turns) /\ s.limit \in Nat
    /\ "weights" \in DOMAIN s =>
         s.weights \in Seq(Nat) /\ {s.further, s.flag, s.block} \subseteq Nat

rateVars ==
  <<bucket, clock, check, calls, onRedis, touched, granted, lastNow, rewound>>
cacheVars == <<entry, source, worker, purge, shared, begun, ended, seen>>
envVars == <<secret, holder, request, audit>>
keyVars == <<project, made, key, issued, value, logged, admin, call>>
llmVars == <<caller, errors, response, used>>
searchVars == <<row, upsert, cut>>
storageVars == <<stored, object, url, deletion, level, late, uncleared>>
healthVars == <<time, checks, cachedAt, cached, poll, since>>

vars == <<part, sample, rateVars, cacheVars, envVars, keyVars, llmVars,
          searchVars, storageVars, healthVars>>

Parts ==
  {"rate", "cache", "env", "projects", "llm", "search", "storage", "health"}

Init ==
  /\ \/ part \in Parts /\ sample = None
     \/ part = "algorithms" /\ sample \in Samples
  /\ Rate!Init /\ (part # "rate" => ~onRedis)
  /\ CacheOf!Init /\ (part # "cache" => ~shared)
  /\ Env!Init
  /\ Projects!Init
  /\ Llm!Init
  /\ Search!Init
  /\ Storage!Init /\ (part # "storage" => level = "WARNING")
  /\ Health!Init

RateNext ==
  /\ part = "rate" /\ Rate!Next
  /\ UNCHANGED <<part, sample, cacheVars, envVars, keyVars, llmVars,
                 searchVars, storageVars, healthVars>>

CacheNext ==
  /\ part = "cache" /\ CacheOf!Next
  /\ UNCHANGED <<part, sample, rateVars, envVars, keyVars, llmVars, searchVars,
                 storageVars, healthVars>>

EnvUnchanged ==
  UNCHANGED <<part, sample, rateVars, cacheVars, keyVars, llmVars, searchVars,
              storageVars, healthVars>>

EnvNext == part = "env" /\ Env!Next /\ EnvUnchanged

KeysNext ==
  /\ part = "projects" /\ Projects!Next
  /\ UNCHANGED <<part, sample, rateVars, cacheVars, envVars, llmVars,
                 searchVars, storageVars, healthVars>>

LlmNext ==
  /\ part = "llm" /\ Llm!Next
  /\ UNCHANGED <<part, sample, rateVars, cacheVars, envVars, keyVars,
                 searchVars, storageVars, healthVars>>

SearchNext ==
  /\ part = "search" /\ Search!Next
  /\ UNCHANGED <<part, sample, rateVars, cacheVars, envVars, keyVars, llmVars,
                 storageVars, healthVars>>

StorageNext ==
  /\ part = "storage" /\ Storage!Next
  /\ UNCHANGED <<part, sample, rateVars, cacheVars, envVars, keyVars, llmVars,
                 searchVars, healthVars>>

HealthNext ==
  /\ part = "health" /\ Health!Next
  /\ UNCHANGED <<part, sample, rateVars, cacheVars, envVars, keyVars, llmVars,
                 searchVars, storageVars>>

Next ==
  \/ RateNext \/ CacheNext \/ EnvNext \/ KeysNext \/ LlmNext \/ SearchNext
  \/ StorageNext \/ HealthNext

\* A request of env_service goes on while it does not wait for a row.
Fairness ==
  \A r \in Requests : WF_vars(part = "env" /\ Env!Step(r) /\ EnvUnchanged)

Spec == Init /\ [][Next]_vars /\ Fairness

(***************************************************************************)
(* Properties: those of the modules, here under names of their own.        *)
(***************************************************************************)

\* Rate limiting: no interval sees more grants than a full bucket and its
\* refill and, where late callers moved last_refill back, what the time they
\* rewound refills once more.
RateBound == Rate!RateBound

\* Caching: a stale entry comes from a call that overlapped the invalidation.
StaleOnlyByOverlap == CacheOf!StaleOnlyByOverlap

\* Env service: bulk writes are never mixed, with each other or in what an
\* export answers, and each has its audit rows; nothing of a project outlives
\* it, and keys and projects are on record.
EnvSafe == Env!BatchesWhole /\ Projects!KeysGuard

\* Env service: every begun request ends.
RequestsEnd == Env!RequestsEnd

\* Calls of a model: the quota's overrun is bounded; a provider is tried after
\* each one before it has failed, and none too often.
LlmCallsSafe == Llm!LlmCallsSafe

\* Search: an index older than its row is one whose writer was cut off.
TokensCurrent == Search!TokensCurrent

\* File storage: an object without a row was uploaded late or refused deletion.
OrphansExplained == Storage!OrphansExplained

\* Health: answers are as fresh as the cache promises.
AnswersFresh == Health!AnswersFresh

\* The .env format, the context assembler, the feature flags, access tokens,
\* the env templates, the searches, the deep health status, the conversation
\* history and the injection guard, each against the reference stated in its
\* module.
AlgorithmsCorrect ==
  part = "algorithms" =>
    /\ "dotenv" \in DOMAIN sample => Secrets!RoundTrips(sample.dotenv)
    /\ "sources" \in DOMAIN sample =>
         Context!AssemblyFits(sample.sources, sample.limit)
    /\ "environment" \in DOMAIN sample =>
         Flags!FlagsAgree(sample.flag, sample.user, sample.environment)
    /\ "maker" \in DOMAIN sample =>
         Access!TokensOpen(sample.maker, sample.checker, sample.user,
                           sample.extra, sample.active, sample.made, sample.now)
    /\ "catalog" \in DOMAIN sample =>
         Templates!TemplatesAgree(sample.catalog, sample.templates,
                                  sample.present)
    /\ "rows" \in DOMAIN sample =>
         Results!HybridIsUnion(sample.rows, sample.now, sample.limit)
    /\ "dependencies" \in DOMAIN sample =>
         Deep!OutOfRotation(sample.dependencies, sample.strict)
    /\ "turns" \in DOMAIN sample =>
         History!BackendsAgree(sample.turns, sample.limit)
    /\ "weights" \in DOMAIN sample =>
         Guard!GuardFailsClosed(sample.weights, sample.further, sample.flag,
                                sample.block, sample.level)
=============================================================================
