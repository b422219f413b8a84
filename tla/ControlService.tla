--------------------------- MODULE ControlService ---------------------------
(***************************************************************************)
(* The instances of the control service: their start with its migrations,  *)
(* the requests they serve behind the revocation of sessions, and their    *)
(* shutdown.  They share the database and Redis.                           *)
(* Source: apps/control-service/src/index.ts, db/migrate.ts, db/seed.ts,   *)
(*         db/pool.ts, middleware/authenticate.ts, verify-revocation.ts,   *)
(*         handlers/delete-session.ts; packages/auth/src/                  *)
(*         session-revocation.ts                                           *)
(***************************************************************************)
EXTENDS Integers, Sequences, FiniteSets, SequencesExt

CONSTANTS
    Instances,      \* processes of the service
    Releases,       \* instance -> the migrations of its release, in order
    Seeding,        \* instances started with SEED_DATABASE
    Statements,     \* number of inserts of the seed
    Actors,         \* who is authenticated; the session is known by this id
    Requests,       \* requests in flight
    Ttl,            \* how long a revocation lasts, in periods
    MaxTime,        \* bound: periods
    MaxServedRequests, MaxStarts   \* bounds: requests and starts

ASSUME ServiceAssumption ==
    /\ Ttl \in Nat \ {0} /\ MaxTime \in Nat /\ Statements \in Nat
    /\ Instances # {}
    /\ \A i \in Instances : Releases[i] \in Seq(ToSet(Releases[i])) /\ IsInjective(Releases[i])
    /\ \A i, j \in Instances : IsPrefix(Releases[i], Releases[j]) \/ IsPrefix(Releases[j], Releases[i])

VARIABLES
    now,            \* the time, in periods
    applied,        \* schema_migrations: what was committed, in order
    seeded,         \* inserts of the seed that are in the database
    instance,       \* instance -> [pc, pending, inserts, stores]
    revokedUntil,   \* Redis: actor -> when the key expires; 0 is never revoked
    redisUp,        \* whether Redis can be reached
    request,        \* request -> where it is
    promised,       \* history: actor -> until when an answer said it is revoked
    arrivals, starts

serviceVars == <<now, applied, seeded, instance, revokedUntil, redisUp, request, promised,
                 arrivals, starts>>

data == <<applied, seeded>>
sessions == <<revokedUntil, promised>>

Down == [pc |-> "down", pending |-> {}, inserts |-> 0, stores |-> "closed"]
NoRequest == [pc |-> "none"]

ServiceInit ==
    /\ now = 1 /\ applied = <<>> /\ seeded = 0
    /\ instance = [i \in Instances |-> Down]
    /\ revokedUntil = [a \in Actors |-> 0] /\ promised = [a \in Actors |-> 0]
    /\ redisUp = TRUE
    /\ request = [q \in Requests |-> NoRequest]
    /\ arrivals = 0 /\ starts = 0

On(i) == {q \in Requests : request[q].pc # "none" /\ request[q].on = i}

\* The process exits and takes its requests with it.
Exits(i) ==
    /\ instance' = [instance EXCEPT ![i] = Down]
    /\ request' = [q \in Requests |-> IF q \in On(i) THEN NoRequest ELSE request[q]]

----------------------------------------------------------------------------
\* startServer, up to the list of what is not applied yet.
StartServer(i) ==
    /\ instance[i].pc = "down"
    /\ starts < MaxStarts
    /\ starts' = starts + 1
    /\ instance' = [instance EXCEPT ![i] =
          [pc |-> "migrating", stores |-> "open", inserts |-> 0,
           pending |-> ToSet(Releases[i]) \ ToSet(applied)]]
    /\ UNCHANGED <<now, data, sessions, redisUp, request, arrivals>>

\* The first of what is pending, in the order of the names.
NextMigration(i, f) ==
    \E k \in 1 .. Len(Releases[i]) :
        /\ f = Releases[i][k] /\ f \in instance[i].pending
        /\ \A j \in 1 .. k - 1 : Releases[i][j] \notin instance[i].pending

MigrationMutUnrecorded(i, f) ==
    /\ instance[i].pc = "migrating" /\ NextMigration(i, f)
    /\ applied' = Append(applied, f)
    /\ instance' = [instance EXCEPT ![i].pending = @ \ {f}]
    /\ UNCHANGED <<now, seeded, sessions, redisUp, request, arrivals, starts>>

\* runMigration: a transaction that records the version, which is unique.
RunMigration(i, f) ==
    /\ instance[i].pc = "migrating" /\ NextMigration(i, f)
    /\ f \notin ToSet(applied)
    /\ applied' = Append(applied, f)
    /\ instance' = [instance EXCEPT ![i].pending = @ \ {f}]
    /\ UNCHANGED <<now, seeded, sessions, redisUp, request, arrivals, starts>>

\* initializeRevocationStore throws when Redis cannot be reached.
Connect(i) ==
    /\ instance[i].pc = "migrating" /\ instance[i].pending = {}
    /\ redisUp
    /\ instance' = [instance EXCEPT ![i].pc = IF i \in Seeding THEN "seeding" ELSE "listening"]
    /\ UNCHANGED <<now, data, sessions, redisUp, request, arrivals, starts>>

\* seedDatabase: every insert passes over the rows that are there already.
Insert(i) ==
    /\ instance[i].pc = "seeding"
    /\ IF instance[i].inserts = Statements
       THEN /\ instance' = [instance EXCEPT ![i].pc = "listening"]
            /\ UNCHANGED seeded
       ELSE /\ instance' = [instance EXCEPT ![i].inserts = @ + 1]
            /\ seeded' = IF instance[i].inserts < seeded THEN seeded ELSE seeded + 1
    /\ UNCHANGED <<now, applied, sessions, redisUp, request, arrivals, starts>>

\* What startServer catches, an exception nobody catches, or a kill: also a
\* migration that another instance committed meanwhile.
Crash(i) ==
    /\ instance[i].pc # "down"
    /\ Exits(i)
    /\ UNCHANGED <<now, data, sessions, redisUp, arrivals, starts>>

----------------------------------------------------------------------------
\* A request is let in and its token verified; `late` once it came after the
\* answer that revoked its actor.
Authenticate(q, i, a, kind) ==
    /\ request[q].pc = "none" /\ arrivals < MaxServedRequests
    /\ arrivals' = arrivals + 1
    /\ instance[i].pc = "listening"
    /\ request' = [request EXCEPT ![q] =
          [pc |-> "authenticated", on |-> i, actor |-> a, kind |-> kind,
           late |-> now < promised[a], until |-> 0]]
    /\ UNCHANGED <<now, data, instance, sessions, redisUp, starts>>

IsRevokedMutFailsOpen(a) == redisUp /\ now < revokedUntil[a]

\* isRevoked: Redis, or TRUE if it cannot tell.
IsRevoked(a) == ~redisUp \/ now < revokedUntil[a]

VerifyRevocation(q) ==
    /\ request[q].pc = "authenticated"
    /\ LET r == request[q]
       IN  request' = [request EXCEPT ![q] =
              IF IsRevoked(r.actor) THEN NoRequest
              ELSE [r EXCEPT !.pc = "handling", !.late = r.late /\ now < promised[r.actor]]]
    /\ UNCHANGED <<now, data, instance, sessions, redisUp, arrivals, starts>>

\* DELETE /v1/sessions/me: the key is set for the whole of Ttl again.
RevokeSession(q) ==
    /\ request[q].pc = "handling" /\ request[q].kind = "revoke"
    /\ IF redisUp
       THEN /\ revokedUntil' = [revokedUntil EXCEPT ![request[q].actor] = now + Ttl]
            /\ request' = [request EXCEPT ![q] =
                  [@ EXCEPT !.pc = "revoked", !.until = now + Ttl]]
       ELSE /\ request' = [request EXCEPT ![q] = NoRequest]
            /\ UNCHANGED revokedUntil
    /\ UNCHANGED <<now, data, instance, promised, redisUp, arrivals, starts>>

SessionRevoked(q) ==
    /\ request[q].pc = "revoked"
    /\ promised' = [promised EXCEPT ![request[q].actor] =
                       IF @ < request[q].until THEN request[q].until ELSE @]
    /\ request' = [request EXCEPT ![q] = NoRequest]
    /\ UNCHANGED <<now, data, instance, revokedUntil, redisUp, arrivals, starts>>

\* Any other handler, with whatever it awaits of the database.
Answer(q) ==
    /\ request[q].pc = "handling" /\ request[q].kind = "other"
    /\ request' = [request EXCEPT ![q] = NoRequest]
    /\ UNCHANGED <<now, data, instance, sessions, redisUp, arrivals, starts>>

----------------------------------------------------------------------------
\* A signal: from now on requests get a 503 and the server closes.
Shutdown(i) ==
    /\ instance[i].pc = "listening"
    /\ instance' = [instance EXCEPT ![i].pc = "closing"]
    /\ UNCHANGED <<now, data, sessions, redisUp, request, arrivals, starts>>

\* The callback of server.close: every answer has been sent.
ServerClosed(i) ==
    /\ instance[i].pc = "closing" /\ On(i) = {}
    /\ instance' = [instance EXCEPT ![i].pc = "closed", ![i].stores = "closed"]
    /\ UNCHANGED <<now, data, sessions, redisUp, request, arrivals, starts>>

\* process.exit, by the callback or by the timer that did not wait for it.
ProcessExit(i) ==
    /\ instance[i].pc \in {"closing", "closed"}
    /\ Exits(i)
    /\ UNCHANGED <<now, data, sessions, redisUp, arrivals, starts>>

Tick ==
    /\ now < MaxTime
    /\ now' = now + 1
    /\ UNCHANGED <<data, instance, sessions, redisUp, request, arrivals, starts>>

\* Redis is lost and found; its keys stay.
RedisChanges ==
    /\ redisUp' = ~redisUp
    /\ UNCHANGED <<now, data, instance, sessions, request, arrivals, starts>>

ServiceNext ==
    \/ \E i \in Instances :
          \/ StartServer(i) \/ Connect(i) \/ Insert(i) \/ Crash(i)
          \/ \E f \in ToSet(Releases[i]) : RunMigration(i, f)
          \/ Shutdown(i) \/ ServerClosed(i) \/ ProcessExit(i)
    \/ \E q \in Requests :
          \/ \E i \in Instances, a \in Actors, k \in {"revoke", "other"} : Authenticate(q, i, a, k)
          \/ VerifyRevocation(q) \/ RevokeSession(q) \/ SessionRevoked(q) \/ Answer(q)
    \/ Tick \/ RedisChanges

ServiceSpec == ServiceInit /\ [][ServiceNext]_serviceVars

----------------------------------------------------------------------------
\* Whichever instances start together or die, of whichever release: the
\* migrations are applied once each and in the order of their names, and an
\* instance that listens has all of its own, and the seed if it was to seed.
ListensOnItsSchema ==
    /\ \E i \in Instances : IsPrefix(applied, Releases[i])
    /\ \A i \in Instances : instance[i].pc = "listening" =>
          /\ IsPrefix(Releases[i], applied)
          /\ i \in Seeding => seeded = Statements

\* A request that comes after an answer said the session is revoked is not
\* handled before the revocation ends, by no instance, with Redis or without.
RevokedIsRefused ==
    \A q \in Requests : request[q].pc = "handling" => ~request[q].late

============================================================================
