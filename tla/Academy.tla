------------------------------- MODULE Academy -------------------------------
(***************************************************************************)
(* The pool of questions of AcademyService and its cache.  getSimulado     *)
(* answers from the cache or reads the table and caches what it read for   *)
(* ten minutes; seedQuestions deletes all rows and creates them again, in  *)
(* two statements and without a word to the cache.                         *)
(***************************************************************************)
EXTENDS Naturals, Handlers

CONSTANTS
    Seeds,              \* bound: the runs of seedQuestions; each stands for the rows it creates
    SIMULADO_CACHE_TTL  \* the life of a cache entry, in ticks of the clock

ASSUME AcademyAssumption == SIMULADO_CACHE_TTL \in Nat \ {0}

VARIABLES
    questions,      \* whose rows are in the table Question
    seeding,        \* [Seeds -> how far seedQuestions has come]
    cache,          \* the entry of the pool
    reader,         \* [Requests -> getSimulado]
    sinceChange     \* history: ticks since the table changed; stops counting at one too many

academyVars == <<questions, seeding, cache, reader, sinceChange>>

\* late: history, the table has changed since the pool was read.
Entry == [cached : BOOLEAN, pool : SUBSET Seeds, age : 0..SIMULADO_CACHE_TTL, late : BOOLEAN]

NoEntry == [cached |-> FALSE, pool |-> {}, age |-> 0, late |-> FALSE]

ReaderSlot == [at : {"idle", "read", "set"}, pool : SUBSET Seeds, late : BOOLEAN]

NoReader == [at |-> "idle", pool |-> {}, late |-> FALSE]

AcademyInit ==
    /\ questions = {}
    /\ seeding = [s \in Seeds |-> "new"]
    /\ cache = NoEntry
    /\ reader = [r \in Requests |-> NoReader]
    /\ sinceChange = 0

(***************************************************************************)
(* getSimulado                                                             *)
(***************************************************************************)
\* A pool that is in the cache, an empty one included, is served from there.  Without
\* one the table is read, even if another request has cached a pool meanwhile.
MissCache(r) ==
    /\ ~cache.cached /\ reader[r].at = "idle"
    /\ reader' = [reader EXCEPT ![r].at = "read"]
    /\ UNCHANGED <<questions, seeding, cache, sinceChange>>

ReadPool(r) ==
    /\ reader[r].at = "read"
    /\ reader' = [reader EXCEPT ![r] = [at |-> "set", pool |-> questions, late |-> FALSE]]
    /\ UNCHANGED <<questions, seeding, cache, sinceChange>>

CachePool(r) ==
    /\ reader[r].at = "set"
    /\ cache' = [cached |-> TRUE, pool |-> reader[r].pool, age |-> 0, late |-> reader[r].late]
    /\ reader' = [reader EXCEPT ![r] = NoReader]
    /\ UNCHANGED <<questions, seeding, sinceChange>>

\* The cache lives in the server's memory and goes with it.
AcademyCrash ==
    /\ cache' = NoEntry
    /\ reader' = [r \in Requests |-> NoReader]
    /\ UNCHANGED <<questions, seeding, sinceChange>>

\* Mutant: the entry has no time to live.
CacheAges_Forever ==
    cache' = cache

CacheAges ==
    cache' = IF ~cache.cached \/ cache.age + 1 = SIMULADO_CACHE_TTL THEN NoEntry
             ELSE [cache EXCEPT !.age = @ + 1]

TickCache ==
    /\ CacheAges
    /\ sinceChange' = IF sinceChange < SIMULADO_CACHE_TTL THEN sinceChange + 1 ELSE sinceChange
    /\ UNCHANGED <<questions, seeding, reader>>

(***************************************************************************)
(* seedQuestions                                                           *)
(***************************************************************************)
TableChanges(rows) ==
    /\ questions' = rows
    /\ sinceChange' = IF rows = questions THEN sinceChange ELSE 0
    /\ reader' = [r \in Requests |->
                    IF reader[r].at = "set" /\ rows # questions
                    THEN [reader[r] EXCEPT !.late = TRUE] ELSE reader[r]]
    /\ UNCHANGED cache

DeleteQuestions(s) ==
    /\ seeding[s] = "new"
    /\ seeding' = [seeding EXCEPT ![s] = "create"]
    /\ TableChanges({})

CreateQuestions(s) ==
    /\ seeding[s] = "create"
    /\ seeding' = [seeding EXCEPT ![s] = "done"]
    /\ TableChanges(questions \cup {s})

\* Until someone seeds again there are no questions, or those of another run.
SeedCrash(s) ==
    /\ seeding[s] = "create"
    /\ seeding' = [seeding EXCEPT ![s] = "lost"]
    /\ UNCHANGED <<questions, cache, reader, sinceChange>>

AcademyNext ==
    \/ \E r \in Requests : MissCache(r) \/ ReadPool(r) \/ CachePool(r)
    \/ \E s \in Seeds : DeleteQuestions(s) \/ CreateQuestions(s) \/ SeedCrash(s)
    \/ AcademyCrash \/ TickCache

AcademySpec == AcademyInit /\ [][AcademyNext]_academyVars

(***************************************************************************)
(* Properties                                                              *)
(***************************************************************************)
\* Table, cache and requests have the values of the code.
AcademyTypeOK ==
    /\ questions \subseteq Seeds
    /\ seeding \in [Seeds -> {"new", "create", "done", "lost"}]
    /\ cache \in Entry
    /\ reader \in [Requests -> ReaderSlot]
    /\ sinceChange \in 0..SIMULADO_CACHE_TTL

\* A pool of questions that are no longer in the table, an empty one cached while
\* a seed was at work included, is served for less than the ten minutes of the
\* entry after the table changed; only a request that had read the table before
\* the change and caches what it read after it makes that longer.
PoolIsRecent ==
    cache.cached /\ cache.pool # questions /\ ~cache.late => sinceChange < SIMULADO_CACHE_TTL

(***************************************************************************)
(* What makes it so                                                        *)
(***************************************************************************)
ReaderInv(r) == reader[r].at = "set" /\ ~reader[r].late => reader[r].pool = questions

\* Inductive.
AcademyInv ==
    /\ AcademyTypeOK
    /\ cache.cached => cache.age < SIMULADO_CACHE_TTL
    /\ cache.cached /\ ~cache.late /\ cache.pool # questions => sinceChange <= cache.age
    /\ \A r \in Requests : ReaderInv(r)
=============================================================================
