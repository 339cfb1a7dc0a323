-------------------------- MODULE PaymentCatalogue --------------------------
(***************************************************************************)
(* What the payment screens and the start of a quote know of the           *)
(* provider's offer: OnSwitchCatalogueService.cached and the table         *)
(* onswitch_catalogue_cache, for one of its keys.                          *)
(*                                                                         *)
(* A call reads the row, and uses it while it is fresh.  Otherwise it      *)
(* waits for the load its process has under way, or starts one: it asks    *)
(* the provider and stores the answer.  Every process keeps its own loads, *)
(* the row is shared.  Time is counted in ticks; a request to the provider *)
(* with the storing of its answer takes at most one (ONSWITCH_TIMEOUT_MS), *)
(* and so an age is known that far.                                        *)
(***************************************************************************)
EXTENDS Naturals

CONSTANTS Processes,
          Callers,
          RunsIn,  \* [Callers -> Processes]
          Ttl,     \* ONSWITCH_CATALOGUE_TTL_SECONDS, in ticks: see CatalogueAssumption
          NoCatalogue, NotAsking

\* onswitch_catalogue_cache, and a load in inFlight
CatalogueRows == [age : Nat, said : Nat]
Loads == [age : Nat, answer : CatalogueRows \cup {NoCatalogue},
          previous : CatalogueRows \cup {NoCatalogue}]

\* A row lives longer than two requests with their storing.  The defaults are 900 and
\* 10 seconds.  The environment also allows 60 and 30: then the row a call has found
\* expired may be newer than the load it shares, which has nothing to fall back on.
ASSUME CatalogueAssumption ==
    /\ RunsIn \in [Callers -> Processes]
    /\ Ttl \in Nat /\ Ttl > 2
    /\ NoCatalogue \notin CatalogueRows /\ NotAsking \notin Loads

VARIABLES
    cached,  \* the row or NoCatalogue: its age since fetched_at, and "said", the time since the
             \*   provider gave what it holds
    load,    \* [Processes -> load in inFlight or NotAsking]: its age, the row its caller read,
             \*   and what the provider answered
    caller   \* [Callers -> call or NotAsking]: "known", whether there was a row when it came;
             \*   in the end, its answer

catalogueVars == <<cached, load, caller>>

CatalogueInit ==
    /\ cached = NoCatalogue
    /\ load = [p \in Processes |-> NotAsking]
    /\ caller = [c \in Callers |-> NotAsking]

\* Ages are not told apart once everything is expired.
Oldest == Ttl + 2
Older(r) == IF r = NoCatalogue THEN r
            ELSE [age |-> IF r.age < Oldest THEN r.age + 1 ELSE r.age,
                  said |-> IF r.said < Oldest THEN r.said + 1 ELSE r.said]
OlderLoad(l) == IF l = NotAsking THEN l
                ELSE [age |-> 1, answer |-> Older(l.answer), previous |-> Older(l.previous)]

\* One tick: reads of the table are quick, loads end in the tick they began or the next.
Tick ==
    /\ \A c \in Callers : caller[c] # NotAsking => caller[c].step = "waits"
    /\ \A p \in Processes : load[p] # NotAsking => load[p].age = 0
    /\ cached' = Older(cached)
    /\ load' = [p \in Processes |-> OlderLoad(load[p])]
    /\ UNCHANGED caller

\* getCatalogueCache; a call that cannot read the table is refused.
CallReads(c) ==
    /\ caller[c] = NotAsking
    /\ caller' = [caller EXCEPT ![c] = [step |-> "decides", previous |-> cached, known |-> cached # NoCatalogue]]
    /\ UNCHANGED <<cached, load>>

Fresh(r) == r # NoCatalogue /\ r.age < Ttl

Answered(known, r, stale) == [step |-> "done", known |-> known, answer |-> r, stale |-> stale]

\* cached: the cached, the load under way, or a load of one's own
CallDecides(c) ==
    /\ caller[c] # NotAsking /\ caller[c].step = "decides"
    /\ LET p == RunsIn[c]
           waiting == [step |-> "waits", known |-> caller[c].known]
       IN  IF Fresh(caller[c].previous)
           THEN /\ caller' = [caller EXCEPT ![c] = Answered(@.known, @.previous, FALSE)]
                /\ UNCHANGED load
           ELSE /\ caller' = [caller EXCEPT ![c] = waiting]
                /\ load' = IF load[p] # NotAsking THEN load
                           ELSE [load EXCEPT ![p] = [age |-> 0, answer |-> NoCatalogue,
                                                     previous |-> caller[c].previous]]
    /\ UNCHANGED cached

\* The provider answers OnSwitchClient.get, with what it said when it was asked or later.
ProviderAnswers(p) ==
    /\ load[p] # NotAsking /\ load[p].answer = NoCatalogue
    /\ \E said \in 0..load[p].age :
          load' = [load EXCEPT ![p].answer = [age |-> 0, said |-> said]]
    /\ UNCHANGED <<cached, caller>>

\* The load of p ends: its callers are answered, and inFlight forgets it.
LoadEnds(p, r, stale) ==
    /\ caller' = [c \in Callers |->
          IF caller[c] # NotAsking /\ caller[c].step = "waits" /\ RunsIn[c] = p
          THEN Answered(caller[c].known, r, stale) ELSE caller[c]]
    /\ load' = [load EXCEPT ![p] = NotAsking]

\* setCatalogueCache
LoadStores(p) ==
    /\ load[p] # NotAsking /\ load[p].answer # NoCatalogue
    /\ cached' = load[p].answer
    /\ LoadEnds(p, load[p].answer, FALSE)

\* Mutant: a load that fails forgets what was known.
Nothing(p) == NoCatalogue

Fallback(p) == load[p].previous

\* A timeout, an error, an answer out of shape, or a table that cannot be written:
\* what the caller that started the load had read stands, marked stale.
LoadFails(p) ==
    /\ load[p] # NotAsking
    /\ LoadEnds(p, Fallback(p), TRUE)
    /\ UNCHANGED cached

\* The answer goes to its client, or to requireAvailableSelection, which refuses a
\* stale one.
CallEnds(c) ==
    /\ caller[c] # NotAsking /\ caller[c].step = "done"
    /\ caller' = [caller EXCEPT ![c] = NotAsking]
    /\ UNCHANGED <<cached, load>>

\* A restart: the loads and calls of the process are gone, the row is not.
Restart(p) ==
    /\ load' = [load EXCEPT ![p] = NotAsking]
    /\ caller' = [c \in Callers |-> IF RunsIn[c] = p THEN NotAsking ELSE caller[c]]
    /\ UNCHANGED cached

\* A release replaces every process and changes the shape of what is stored: a row
\* that no longer parses is neither used nor fallen back on, as if there were none.
\* Bound: processes of two releases do not run at once.
Release ==
    /\ cached' = NoCatalogue
    /\ load' = [p \in Processes |-> NotAsking]
    /\ caller' = [c \in Callers |-> NotAsking]

CatalogueNext ==
    \/ Tick \/ Release
    \/ \E c \in Callers : CallReads(c) \/ CallDecides(c) \/ CallEnds(c)
    \/ \E p \in Processes :
          ProviderAnswers(p) \/ LoadStores(p) \/ LoadFails(p) \/ Restart(p)

CatalogueSpec == CatalogueInit /\ [][CatalogueNext]_catalogueVars

-----------------------------------------------------------------------------
(* Properties. *)

\* Rows, loads and calls are well formed, and whoever waits has a load to wait for.
CatalogueTypeOK ==
    /\ cached = NoCatalogue \/ cached \in [age : 0..Oldest, said : 0..Oldest]
    /\ \A p \in Processes : load[p] # NotAsking => load[p].age \in 0..1
    /\ \A c \in Callers : caller[c] # NotAsking =>
          /\ caller[c].step \in {"decides", "waits", "done"}
          /\ caller[c].step = "waits" => load[RunsIn[c]] # NotAsking

\* What a call is given as fresh, from the table, from a load it shares with others
\* or after an older answer overwrote a newer one, the provider said within the
\* lifetime of a row, counted from when it was asked; and a call that came when
\* something was stored is not told that payments are unavailable, though the load
\* it shares began before that (cached gives every caller the fallback of the one
\* that began the load).
CatalogueIsRecent ==
    \A c \in Callers : caller[c] # NotAsking /\ caller[c].step = "done" =>
        /\ ~caller[c].stale => caller[c].answer.said <= Ttl
        /\ caller[c].known => caller[c].answer # NoCatalogue
=============================================================================
