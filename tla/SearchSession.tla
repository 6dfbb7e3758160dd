--------------------------- MODULE SearchSession ---------------------------
(***************************************************************************)
(* Discovery searches: the in-memory sessions of orchestrator.ts, the      *)
(* search cache of cache.ts and the event streams of events/route.ts that  *)
(* attach to a session, replay its buffer and follow it.                   *)
(*                                                                         *)
(* JavaScript runs each handler without interruption up to its next await; *)
(* that is one action.  All searches here ask for the same thing, so they  *)
(* share their cache entries, one per category.  Every adapter supports    *)
(* every country, so no category goes without one.                         *)
(***************************************************************************)
EXTENDS Naturals, Sequences, SequencesExt, FiniteSets

CONSTANTS
    Category,     \* the requested categories
    SearchId,     \* ids handed out by POST
    Client,       \* event streams
    MaxObjects,   \* bound on the session objects ever built
    Outcomes,     \* how an adapter may end: "live", "degraded", "throws"
    None

ASSUME SessionAssumption ==
    /\ IsFiniteSet(Category) /\ MaxObjects \in Nat
    /\ None \notin SearchId /\ None \notin Nat

Query  == SetToSeq(Category)  \* in the order of the request
Object == 1..MaxObjects

VARIABLES
    session,   \* the session objects built so far, in order
    registry,  \* the Map of sessions: the object of each id, or None
    posted,    \* ids handed out by POST
    expired,   \* objects past their expiresAt
    cache,     \* per category: no entry, or how its profiles came about
    client     \* per stream: what the route's closure holds

sessionVars == <<session, registry, posted, expired, cache, client>>

\* An event, with the part of it a listener tells apart.
Event(type, c, status) == [type |-> type, category |-> c, status |-> status]
Started     == Event("search_started", None, None)
Complete    == Event("search_complete", None, None)
CatStart(c) == Event("category_started", c, None)
Results(c, status) == Event("category_results", c, status)
CatError(c) == Event("category_error", c, None)

\* A session as createDiscoverySearch makes it.
NewSession(s) == [search |-> s, started |-> FALSE, done |-> FALSE,
                  events |-> <<>>, settled |-> {}]

\* What a stream holds before it follows a session object; Away once it ended.
Idle(state) == [state |-> state, search |-> None, active |-> None, got |-> <<>>]
Away == Idle("away")

SessionInit ==
    /\ session = <<>> /\ registry = [s \in SearchId |-> None] /\ posted = {} /\ expired = {}
    /\ cache = [c \in Category |-> "none"]
    /\ client = [k \in Client |-> Away]

-----------------------------------------------------------------------------
(* The registry                                                            *)

\* registerSession: sweep what has expired, then map.set.  What a full map
\* drops is EvictOldest's business.
registerSession(s, o) ==
    [t \in SearchId |-> IF t = s THEN o
                        ELSE IF registry[t] \in expired THEN None ELSE registry[t]]

\* registerSession of other searches: MAX_SESSIONS is exceeded and the session,
\* now the oldest, is dropped, whatever its state.
EvictOldest(s) ==
    /\ registry[s] # None
    /\ registry' = [registry EXCEPT ![s] = None]
    /\ UNCHANGED <<session, posted, expired, cache, client>>

\* getDiscoverySession finds s under its id and within its TTL.
Found(s, o) == registry[s] = o /\ o \notin expired

\* POST: the location resolves and a session is registered; nothing starts.
PostSearch(s) ==
    /\ s \notin posted /\ Len(session) < MaxObjects
    /\ posted' = posted \cup {s}
    /\ session' = Append(session, NewSession(s))
    /\ registry' = registerSession(s, Len(session) + 1)
    /\ UNCHANGED <<expired, cache, client>>

\* The POST reached another instance: here the id is unknown.
PostElsewhere(s) ==
    /\ s \notin posted
    /\ posted' = posted \cup {s}
    /\ UNCHANGED <<session, registry, expired, cache, client>>

\* SESSION_TTL_MS passes for a session in the registry.
Expire(o) ==
    /\ Found(session[o].search, o)
    /\ expired' = expired \cup {o}
    /\ UNCHANGED <<session, registry, posted, cache, client>>

-----------------------------------------------------------------------------
(* Streams                                                                 *)

\* Mutant of Pump: only the newest event is sent.
PumpNewest(k, events) ==
    IF events = <<>> THEN k
    ELSE IF Last(events) = Complete THEN Away ELSE [k EXCEPT !.got = Append(@, Last(events))]

\* pump: everything past the cursor is sent; the terminal event, which nothing
\* follows, ends the stream.
Pump(k, events) ==
    LET got == k.got \o SubSeq(events, Len(k.got) + 1, Len(events))
    IN  IF got # <<>> /\ Last(got) = Complete THEN Away ELSE [k EXCEPT !.got = got]

\* What runSearch emits before its first await, for the first n categories: the
\* cache is read at once, and answers for those it has.
Emitted[n \in 0..Len(Query)] ==
    IF n = 0 THEN <<Started>>
    ELSE Emitted[n - 1] \o IF cache[Query[n]] = "none" THEN <<CatStart(Query[n])>>
                           ELSE <<CatStart(Query[n]), Results(Query[n], "done")>>
FirstEvents == Emitted[Len(Query)]

Cached == {c \in Category : cache[c] # "none"}

\* The stream's start(): subscribe, ensureSearchStarted, pump.  ss holds the
\* session objects.
Attach(k, o, ss) ==
    LET begun  == IF ss[o].started THEN ss[o]
                  ELSE [ss[o] EXCEPT !.started = TRUE, !.events = FirstEvents,
                                     !.settled = Cached]
        stream == Pump([state |-> "open", search |-> ss[o].search, active |-> o,
                        got |-> <<>>], begun.events)
    IN  /\ client' = [client EXCEPT ![k] = stream]
        /\ session' = [ss EXCEPT ![o] = begun]

\* GET .../events for a session this instance has.
GetFound(k, s, o) ==
    /\ client[k] = Away /\ s \in posted
    /\ Found(s, o)
    /\ Attach(k, o, session)
    /\ UNCHANGED <<registry, posted, expired, cache>>

\* GET for one it has not, or whose TTL is over: the entry is dropped and
\* createDiscoverySearch awaits the location again.
GetMissing(k, s) ==
    /\ client[k] = Away /\ s \in posted
    /\ ~\E o \in Object : Found(s, o)
    /\ registry' = [registry EXCEPT ![s] = None]
    /\ client' = [client EXCEPT ![k] = [Idle("resolving") EXCEPT !.search = s]]
    /\ UNCHANGED <<session, posted, expired, cache>>

\* The location is there: an equivalent session is built, registered under
\* the same id and attached to.
Rebuild(k) ==
    /\ client[k].state = "resolving" /\ Len(session) < MaxObjects
    /\ LET s == client[k].search
           o == Len(session) + 1
       IN  /\ registry' = registerSession(s, o)
           /\ Attach(k, o, Append(session, NewSession(s)))
    /\ UNCHANGED <<posted, expired, cache>>

\* The location does not resolve: an error answer instead of a stream.
RebuildFails(k) ==
    /\ client[k].state = "resolving"
    /\ client' = [client EXCEPT ![k] = Away]
    /\ UNCHANGED <<session, registry, posted, expired, cache>>

\* The stream's deadline: end(); or the browser goes away: cancel() sets closed,
\* and though the listener and the timers stay, nothing is sent any more.
CloseStream(k) ==
    /\ client[k].state = "open"
    /\ client' = [client EXCEPT ![k] = Away]
    /\ UNCHANGED <<session, registry, posted, expired, cache>>

-----------------------------------------------------------------------------
(* The fan-out                                                             *)

\* emit: append to the buffer and notify the listeners, which are the streams
\* that are open on this very session object.
Emit(o, e, changes) ==
    LET events == Append(session[o].events, e) IN
    /\ session' = [session EXCEPT ![o] = [changes EXCEPT !.events = events]]
    /\ client' = [k \in Client |->
          IF client[k].state = "open" /\ client[k].active = o
          THEN Pump(client[k], events) ELSE client[k]]

\* Mutant of Running: a category may be settled again.
RunningOn(o, c) == session[o].started /\ ~session[o].done

Running(o, c) == session[o].started /\ ~session[o].done /\ c \notin session[o].settled

SettleCategory(o, c) == [session[o] EXCEPT !.settled = @ \cup {c}]

\* adapter.search returns, with live results or only with stored ones; both
\* are cached, and the cache does not say which they were.
AdapterReturns(o, c, how) ==
    /\ Running(o, c) /\ how \in Outcomes
    /\ cache' = [cache EXCEPT ![c] = how]
    /\ Emit(o, Results(c, IF how = "live" THEN "done" ELSE "degraded"), SettleCategory(o, c))
    /\ UNCHANGED <<registry, posted, expired>>

\* adapter.search throws: category_error, and the other categories go on.
AdapterThrows(o, c) ==
    /\ Running(o, c) /\ "throws" \in Outcomes
    /\ Emit(o, CatError(c), SettleCategory(o, c))
    /\ UNCHANGED <<registry, posted, expired, cache>>

\* Mutant of CompleteSearch: Promise.race.
CompleteOnFirst(o) ==
    /\ session[o].started /\ ~session[o].done
    /\ session[o].settled # {}
    /\ Emit(o, Complete, [session[o] EXCEPT !.done = TRUE])
    /\ UNCHANGED <<registry, posted, expired, cache>>

\* Mutant of CompleteSearch: the session is looked up again under its id.
CompleteRegistered(o) ==
    /\ session[o].started /\ ~session[o].done
    /\ session[o].settled = Category
    /\ Found(session[o].search, o)
    /\ Emit(o, Complete, [session[o] EXCEPT !.done = TRUE])
    /\ UNCHANGED <<registry, posted, expired, cache>>

\* Promise.allSettled: merge, rank, search_complete.  If merge or rank throws,
\* ensureSearchStarted's catch emits the terminal event instead.
CompleteSearch(o) ==
    /\ session[o].started /\ ~session[o].done
    /\ session[o].settled = Category
    /\ Emit(o, Complete, [session[o] EXCEPT !.done = TRUE])
    /\ UNCHANGED <<registry, posted, expired, cache>>

\* A cache entry's TTL passes, or newer entries push it out.
CacheDrop(c) ==
    /\ cache[c] # "none"
    /\ cache' = [cache EXCEPT ![c] = "none"]
    /\ UNCHANGED <<session, registry, posted, expired, client>>

SearchStep(o) ==
    \/ \E c \in Category :
          \/ \E how \in {"live", "degraded"} : AdapterReturns(o, c, how)
          \/ AdapterThrows(o, c)
    \/ CompleteSearch(o)

SessionNext ==
    \/ \E s \in SearchId : PostSearch(s) \/ PostElsewhere(s) \/ EvictOldest(s)
    \/ \E o \in DOMAIN session : Expire(o) \/ SearchStep(o)
    \/ \E k \in Client :
          \/ \E s \in SearchId : GetMissing(k, s) \/ \E o \in DOMAIN session : GetFound(k, s, o)
          \/ Rebuild(k) \/ RebuildFails(k) \/ CloseStream(k)
    \/ \E c \in Category : CacheDrop(c)

SessionSpec == SessionInit /\ [][SessionNext]_sessionVars

\* Adapters return: their calls are under timeouts.  Nothing else is promised:
\* clients come and go, and a stream's deadline may never be reached.
FairSessionSpec ==
    SessionSpec /\ \A o \in Object : WF_sessionVars(o \in DOMAIN session /\ SearchStep(o))

-----------------------------------------------------------------------------
(* Properties                                                              *)

SessionTypeOK ==
    /\ \A o \in DOMAIN session :
          /\ session[o].search \in posted
          /\ session[o].settled \subseteq Category
          /\ {session[o].started, session[o].done} \subseteq BOOLEAN
    /\ \A s \in SearchId : registry[s] # None =>
          registry[s] \in DOMAIN session /\ session[registry[s]].search = s
    /\ expired \subseteq DOMAIN session
    /\ cache \in [Category -> {"none", "live", "degraded"}]
    /\ \A k \in Client :
          client[k].state \in {"away", "resolving", "open"}

\* However late a stream attaches, and whatever else happens to the session's
\* registry entry, it has received the session's events so far in order,
\* without a gap and without a duplicate, and is over when they are
\* (events/route.ts pump, orchestrator.ts emit).
StreamFaithful ==
    \A k \in Client : client[k].state = "open" =>
        /\ client[k].got = session[client[k].active].events
        /\ ~session[client[k].active].done

\* Each session object is a search feed: categories are isolated from each
\* other and the terminal event is last and only one (runSearch).
EventsOf(o)  == IF o \in DOMAIN session THEN Range(session[o].events) ELSE {}
SettledBy(c) == {CatError(c), Results(c, "done"), Results(c, "degraded")}
Feed == INSTANCE SearchFeed WITH
    Search <- Object,
    phase  <- [o \in Object |->
                 IF Complete \in EventsOf(o) THEN "complete"
                 ELSE IF Started \in EventsOf(o) THEN "running" ELSE "new"],
    status <- [o \in Object |-> [c \in Category |->
                 IF EventsOf(o) \cap SettledBy(c) # {} THEN "settled"
                 ELSE IF CatStart(c) \in EventsOf(o) THEN "loading" ELSE "pending"]]
SessionsAreFeeds == Feed!FeedSpec

\* The buffer has one event per occurrence: no category is settled twice in
\* one session, nothing follows search_complete.
OneOutcomeEach ==
    \A o \in DOMAIN session :
        /\ IsInjective(session[o].events)
        /\ \A c \in Category : Cardinality(EventsOf(o) \cap SettledBy(c)) <= 1
        /\ session[o].done <=> Complete \in EventsOf(o)

\* A stream that stays open is told the search is complete, also when its
\* session has expired, was evicted, or was replaced under its id meanwhile.
StreamsComplete ==
    \A k \in Client : client[k].state = "open" ~> client[k].state # "open"
=============================================================================
