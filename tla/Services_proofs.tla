-------------------------- MODULE Services_proofs --------------------------
(***************************************************************************)
(* Theorems about the command line and the service, for any number of      *)
(* processes, instances, tokens, batches and requests: what the command    *)
(* line keeps of its session (ClientSessions), what the service refuses    *)
(* once a session was revoked and what it listens with (ControlService),   *)
(* and what the queue of batches says of them (ActionBatch).               *)
(***************************************************************************)
EXTENDS ClientSessions, ControlService, ActionBatch, TLAPS

Tokens == SessionTokens \cup {NoToken}

LoginType ==
    /\ sessionFile \in [token : Tokens, actor : Tokens]
    /\ login \in [CliProcesses -> [pc : {"off", "verify"}, token : Tokens, sent : Tokens]]
    /\ relogin \in BOOLEAN

\* A login on its way was sent with the token it is about, or it is one of
\* those that began while another token was in the file.
LoginInv ==
    /\ LoginType
    /\ relogin \/ sessionFile.actor = sessionFile.token
    /\ relogin \/ \A c \in CliProcesses : login[c].pc = "verify" => login[c].sent = login[c].token

LEMMA LoginStarts == ClientInit => LoginInv
<1> SUFFICES ASSUME ClientInit PROVE LoginInv
  OBVIOUS
<1>1. LoginType
  BY DEF ClientInit, LoginType, Tokens, NoFile, NoLogin
<1>2. sessionFile.actor = sessionFile.token
  BY DEF ClientInit, NoFile
<1>3. \A c \in CliProcesses : login[c].pc # "verify"
  BY DEF ClientInit, NoLogin
<1> QED
  BY <1>1, <1>2, <1>3 DEF LoginInv

LEMMA LoginStep == LoginInv /\ [ClientNext]_clientVars => LoginInv'
<1> SUFFICES ASSUME LoginInv, [ClientNext]_clientVars PROVE LoginInv'
  OBVIOUS
<1> USE DEF LoginInv, LoginType
<1>1. CASE UNCHANGED cliVars
  BY <1>1 DEF cliVars
<1>2. CASE CliLogout
  BY <1>2 DEF CliLogout, NoFile, Tokens
<1>3. ASSUME NEW c \in CliProcesses, NEW t \in SessionTokens, CliLogin(c, t)
      PROVE  LoginInv'
  <2>1. HeaderToken(t) \in Tokens
    BY DEF HeaderToken, Tokens
  <2>2. LoginType'
    BY <1>3, <2>1 DEF CliLogin, Tokens
  <2>3. ASSUME ~relogin' PROVE ~relogin /\ HeaderToken(t) = t
    BY <1>3, <2>3 DEF CliLogin
  <2>4. ASSUME ~relogin', NEW d \in CliProcesses, login'[d].pc = "verify"
        PROVE  login'[d].sent = login'[d].token
    BY <1>3, <2>3, <2>4 DEF CliLogin
  <2> QED
    BY <1>3, <2>2, <2>3, <2>4 DEF CliLogin
<1>4. ASSUME NEW c \in CliProcesses, LoginAnswered(c)
      PROVE  LoginInv'
  <2>1. login[c].sent \in Tokens /\ login[c].token \in Tokens
    OBVIOUS
  <2>2. LoginType'
    BY <1>4, <2>1 DEF LoginAnswered, NoLogin, Tokens
  <2>3. relogin \/ sessionFile'.actor = sessionFile'.token
    BY <1>4 DEF LoginAnswered
  <2> QED
    BY <1>4, <2>2, <2>3 DEF LoginAnswered, NoLogin
<1>5. ASSUME NEW c \in CliProcesses, LoginFails(c)
      PROVE  LoginInv'
  BY <1>5 DEF LoginFails, NoLogin, Tokens
<1>6. ClientNext \/ UNCHANGED clientVars
  OBVIOUS
<1> QED
  BY <1>1, <1>2, <1>3, <1>4, <1>5, <1>6
  DEF ClientNext, Refreshes, TokenExpires, SignOut, EditorRestarts, SignIn, PollBegins,
      PollAnswered, HealthAnswered, TokenStored, FirstAnswered, SecondAnswered, SecretDeleted,
      Asks, cliVars, clientVars

\* LoginIsVerified, for any processes and tokens: apps/cli/src/index.ts keeps
\* for the token on file the actor the service told of that token, unless a
\* login began while another token was there.
THEOREM LoginVerified == ClientSpec => []LoginIsVerified
<1>1. LoginInv => LoginIsVerified
  BY DEF LoginInv, LoginIsVerified
<1> QED
  BY <1>1, LoginStarts, LoginStep, PTL DEF ClientSpec

----------------------------------------------------------------------------
RequestRecord ==
    [pc : {"authenticated", "handling", "revoked"}, on : Instances, actor : Actors,
     kind : {"revoke", "other"}, late : BOOLEAN, until : Nat]

LEMMA LateIsSet ==
  ASSUME NEW r \in RequestRecord, NEW l \in BOOLEAN,
         NEW s, s = [r EXCEPT !.pc = "handling", !.late = l]
  PROVE  s \in RequestRecord /\ s.pc = "handling" /\ s.late = l
<1>1. s \in RequestRecord
  BY DEF RequestRecord
<1>2. s.pc = "handling"
  BY DEF RequestRecord
<1>3. s.late = l
  BY DEF RequestRecord
<1> QED
  BY <1>1, <1>2, <1>3

RevocationType ==
    /\ now \in Nat
    /\ revokedUntil \in [Actors -> Nat]
    /\ promised \in [Actors -> Nat]
    /\ redisUp \in BOOLEAN
    /\ DOMAIN request = Requests
    /\ \A q \in Requests : request[q] = NoRequest \/ request[q] \in RequestRecord

\* A revocation never shortens another one, what was promised is in Redis, and
\* so is what an answer is about to promise.
RevocationsInPlace ==
    \A a \in Actors : promised[a] <= revokedUntil[a] /\ revokedUntil[a] <= now + Ttl

RequestKept(r) ==
    /\ r.pc = "handling" => ~r.late
    /\ r.pc = "revoked" => r.until <= revokedUntil[r.actor]

RevocationInv ==
    /\ RevocationType
    /\ RevocationsInPlace
    /\ \A q \in Requests : RequestKept(request[q])

LEMMA TtlIsPositive == Ttl \in Nat \ {0}
BY ServiceAssumption

LEMMA RevocationStarts == ServiceInit => RevocationInv
<1> SUFFICES ASSUME ServiceInit PROVE RevocationInv
  OBVIOUS
<1>1. RevocationType
  BY DEF ServiceInit, RevocationType
<1>2. RevocationsInPlace
  BY TtlIsPositive DEF ServiceInit, RevocationsInPlace
<1>3. \A q \in Requests : RequestKept(request[q])
  BY DEF ServiceInit, RequestKept, NoRequest
<1> QED
  BY <1>1, <1>2, <1>3 DEF RevocationInv

LEMMA RevocationStep == RevocationInv /\ [ServiceNext]_serviceVars => RevocationInv'
<1> SUFFICES ASSUME RevocationInv, [ServiceNext]_serviceVars PROVE RevocationInv'
  OBVIOUS
<1> USE TtlIsPositive DEF RevocationInv
\* Whatever leaves the revocations and Redis alone and makes requests end.
<1>1. ASSUME UNCHANGED <<now, sessions>>, redisUp' \in BOOLEAN, DOMAIN request' = Requests,
             \A q \in Requests : request'[q] = request[q] \/ request'[q] = NoRequest
      PROVE  RevocationInv'
  <2>1. RevocationType' /\ RevocationsInPlace'
    BY <1>1 DEF RevocationType, RevocationsInPlace, sessions
  <2>2. ASSUME NEW q \in Requests PROVE RequestKept(request[q])'
    BY <1>1 DEF RequestKept, NoRequest, sessions
  <2> QED
    BY <2>1, <2>2
<1>2. ASSUME NEW i \in Instances, Exits(i), UNCHANGED <<now, sessions, redisUp>>
      PROVE  RevocationInv'
  <2>1. DOMAIN request' = Requests
    BY <1>2 DEF Exits
  <2>2. \A q \in Requests : request'[q] = request[q] \/ request'[q] = NoRequest
    BY <1>2 DEF Exits
  <2>3. redisUp' \in BOOLEAN
    BY <1>2 DEF RevocationType
  <2> QED
    BY <1>1, <1>2, <2>1, <2>2, <2>3
<1>3. ASSUME NEW i \in Instances,
             StartServer(i) \/ (\E f \in ToSet(Releases[i]) : RunMigration(i, f)) \/ Connect(i) \/ Insert(i) \/ Crash(i)
               \/ Shutdown(i) \/ ServerClosed(i) \/ ProcessExit(i)
      PROVE  RevocationInv'
  <2>1. CASE Crash(i) \/ ProcessExit(i)
    BY <2>1, <1>2 DEF Crash, ProcessExit
  <2>2. CASE ~(Crash(i) \/ ProcessExit(i))
    <3>1. UNCHANGED <<now, sessions, redisUp, request>>
      BY <1>3, <2>2 DEF StartServer, RunMigration, Connect, Insert, Shutdown, ServerClosed
    <3> QED
      BY <3>1, <1>1 DEF RevocationType
  <2> QED
    BY <2>1, <2>2
<1>4. ASSUME NEW q \in Requests, NEW i \in Instances, NEW a \in Actors,
             NEW k \in {"revoke", "other"}, Authenticate(q, i, a, k)
      PROVE  RevocationInv'
  <2> DEFINE r == [pc |-> "authenticated", on |-> i, actor |-> a, kind |-> k,
                   late |-> now < promised[a], until |-> 0]
  <2>1. UNCHANGED <<now, sessions, redisUp>> /\ request' = [request EXCEPT ![q] = r]
    BY <1>4 DEF Authenticate
  <2>2. r \in RequestRecord
    BY DEF RequestRecord
  <2>3. RevocationType'
    BY <2>1, <2>2 DEF RevocationType, sessions
  <2>4. RevocationsInPlace'
    BY <2>1 DEF RevocationsInPlace, sessions
  <2>5. ASSUME NEW p \in Requests PROVE RequestKept(request[p])'
    BY <2>1 DEF RequestKept, RevocationType, sessions
  <2> QED
    BY <2>3, <2>4, <2>5
<1>5. ASSUME NEW q \in Requests, VerifyRevocation(q)
      PROVE  RevocationInv'
  <2>1. UNCHANGED <<now, sessions, redisUp>>
    BY <1>5 DEF VerifyRevocation
  <2>2. CASE IsRevoked(request[q].actor)
    <3>1. request' = [request EXCEPT ![q] = NoRequest]
      BY <1>5, <2>2 DEF VerifyRevocation
    <3> QED
      BY <1>1, <2>1, <3>1 DEF RevocationType
  <2>3. CASE ~IsRevoked(request[q].actor)
    <3> DEFINE r == request[q]
               late == r.late /\ now < promised[r.actor]
    <3>1. r \in RequestRecord
      BY <1>5 DEF VerifyRevocation, RevocationType, NoRequest
    <3>2. ~late
      BY <3>1, <2>3 DEF IsRevoked, RevocationsInPlace, RevocationType, RequestRecord
    <3>3. request' = [request EXCEPT ![q] = [r EXCEPT !.pc = "handling", !.late = late]]
      BY <1>5, <2>3, Zenon DEF VerifyRevocation
    <3> HIDE DEF late
    <3>4. request'[q] = [r EXCEPT !.pc = "handling", !.late = late]
      BY <3>3 DEF RevocationType
    <3>5. request'[q] \in RequestRecord /\ request'[q].pc = "handling" /\ ~request'[q].late
      <4>1. late \in BOOLEAN
        BY DEF late
      <4> QED
        BY <3>1, <3>2, <3>4, <4>1, LateIsSet, Zenon
    <3>6. RevocationType'
      BY <2>1, <3>3, <3>5 DEF RevocationType, sessions
    <3>7. RevocationsInPlace'
      BY <2>1 DEF RevocationsInPlace, sessions
    <3>8. ASSUME NEW p \in Requests PROVE RequestKept(request[p])'
      BY <2>1, <3>3, <3>5 DEF RequestKept, RevocationType, sessions
    <3> QED
      BY <3>6, <3>7, <3>8
  <2> QED
    BY <2>2, <2>3
<1>6. ASSUME NEW q \in Requests, RevokeSession(q)
      PROVE  RevocationInv'
  <2>1. UNCHANGED <<now, promised, redisUp>>
    BY <1>6 DEF RevokeSession
  <2>2. CASE ~redisUp
    <3>1. UNCHANGED sessions /\ request' = [request EXCEPT ![q] = NoRequest]
      BY <1>6, <2>1, <2>2 DEF RevokeSession, sessions
    <3> QED
      BY <1>1, <2>1, <3>1 DEF RevocationType
  <2>3. CASE redisUp
    <3> DEFINE r == request[q]
    <3>1. r \in RequestRecord
      BY <1>6 DEF RevokeSession, RevocationType, NoRequest
    <3>2. /\ revokedUntil' = [revokedUntil EXCEPT ![r.actor] = now + Ttl]
          /\ request' = [request EXCEPT ![q] = [r EXCEPT !.pc = "revoked", !.until = now + Ttl]]
      BY <1>6, <2>3 DEF RevokeSession
    <3>3. /\ request'[q] \in RequestRecord
          /\ request'[q].pc = "revoked"
          /\ request'[q].actor = r.actor
          /\ request'[q].until = now + Ttl
      <4> DEFINE n == now + Ttl
      <4>1. request'[q] = [r EXCEPT !.pc = "revoked", !.until = n]
        BY <3>2 DEF RevocationType
      <4>2. n \in Nat
        BY DEF RevocationType
      <4> HIDE DEF n
      <4>3. request'[q] \in RequestRecord
        BY <3>1, <4>1, <4>2 DEF RequestRecord
      <4>4. request'[q].pc = "revoked"
        BY <3>1, <4>1 DEF RequestRecord
      <4>5. request'[q].actor = r.actor
        BY <3>1, <4>1 DEF RequestRecord
      <4>6. request'[q].until = n
        BY <3>1, <4>1 DEF RequestRecord
      <4> QED
        BY <4>3, <4>4, <4>5, <4>6 DEF n
    <3>4. RevocationType'
      <4>1. revokedUntil' \in [Actors -> Nat]
        BY <3>1, <3>2 DEF RevocationType, RequestRecord
      <4>2. DOMAIN request' = Requests
        BY <3>2 DEF RevocationType
      <4>3. \A p \in Requests : p # q => request'[p] = request[p]
        BY <3>2 DEF RevocationType
      <4> QED
        BY <2>1, <3>3, <4>1, <4>2, <4>3 DEF RevocationType
    <3>5. \A a \in Actors : revokedUntil[a] <= revokedUntil'[a] /\ revokedUntil'[a] <= now + Ttl
      BY <3>1, <3>2 DEF RevocationType, RevocationsInPlace, RequestRecord
    <3>6. RevocationsInPlace'
      BY <2>1, <3>4, <3>5 DEF RevocationsInPlace, RevocationType
    <3>7. ASSUME NEW p \in Requests PROVE RequestKept(request[p])'
      <4>1. CASE p = q
        BY <4>1, <3>1, <3>2, <3>3 DEF RequestKept, RevocationType, RequestRecord
      <4>2. CASE p # q
        <5>1. request'[p] = request[p] /\ RequestKept(request[p])
          BY <4>2, <3>2 DEF RevocationType
        <5>2. CASE request[p] = NoRequest
          BY <5>1, <5>2 DEF RequestKept, NoRequest
        <5>3. CASE request[p] \in RequestRecord
          BY <5>1, <5>3, <3>4, <3>5 DEF RequestKept, RevocationType, RequestRecord
        <5> QED
          BY <5>2, <5>3 DEF RevocationType
      <4> QED
        BY <4>1, <4>2
    <3> QED
      BY <3>4, <3>6, <3>7
  <2> QED
    BY <2>2, <2>3
<1>7. ASSUME NEW q \in Requests, SessionRevoked(q)
      PROVE  RevocationInv'
  <2> DEFINE r == request[q]
  <2>1. /\ UNCHANGED <<now, revokedUntil, redisUp>>
        /\ r.pc = "revoked"
        /\ request' = [request EXCEPT ![q] = NoRequest]
        /\ promised' = [promised EXCEPT ![r.actor] =
                           IF promised[r.actor] < r.until THEN r.until ELSE promised[r.actor]]
    BY <1>7 DEF SessionRevoked
  <2>2. r \in RequestRecord
    BY <2>1 DEF RevocationType, NoRequest
  <2>3. r.until <= revokedUntil[r.actor]
    BY <2>1 DEF RequestKept
  <2>4. promised' \in [Actors -> Nat]
    BY <2>1, <2>2 DEF RevocationType, RequestRecord
  <2>5. RevocationType'
    BY <2>1, <2>4 DEF RevocationType
  <2>6. RevocationsInPlace'
    BY <2>1, <2>2, <2>3 DEF RevocationsInPlace, RevocationType, RequestRecord
  <2>7. ASSUME NEW p \in Requests PROVE RequestKept(request[p])'
    BY <2>1 DEF RequestKept, RevocationType, NoRequest
  <2> QED
    BY <2>5, <2>6, <2>7
<1>8. ASSUME NEW q \in Requests, Answer(q)
      PROVE  RevocationInv'
  <2>1. UNCHANGED <<now, sessions, redisUp>> /\ request' = [request EXCEPT ![q] = NoRequest]
    BY <1>8 DEF Answer
  <2> QED
    BY <1>1, <2>1 DEF RevocationType
<1>9. CASE Tick
  <2>1. RevocationType'
    BY <1>9 DEF Tick, RevocationType, sessions
  <2>2. RevocationsInPlace'
    BY <1>9 DEF Tick, RevocationType, RevocationsInPlace, sessions
  <2>3. ASSUME NEW q \in Requests PROVE RequestKept(request[q])'
    BY <1>9 DEF Tick, RequestKept, sessions
  <2> QED
    BY <2>1, <2>2, <2>3
<1>10. CASE RedisChanges
  BY <1>10, <1>1 DEF RedisChanges, RevocationType
<1>11. CASE UNCHANGED serviceVars
  BY <1>11, <1>1 DEF serviceVars, RevocationType, sessions
<1> QED
  BY <1>3, <1>4, <1>5, <1>6, <1>7, <1>8, <1>9, <1>10, <1>11 DEF ServiceNext

\* RevokedIsRefused, for any instances, actors, requests and times of life of a
\* revocation: middleware/verify-revocation.ts lets no request through that
\* came after handlers/delete-session.ts answered, whatever Redis does.
THEOREM RevokedStaysOut == ServiceSpec => []RevokedIsRefused
<1>1. RevocationInv => RevokedIsRefused
  BY DEF RevocationInv, RevokedIsRefused, RequestKept
<1> QED
  BY <1>1, RevocationStarts, RevocationStep, PTL DEF ServiceSpec

----------------------------------------------------------------------------
\* A prefix, position by position.
LEMMA PrefixByPosition ==
    ASSUME NEW S, NEW s \in Seq(S), NEW t \in Seq(S)
    PROVE  IsPrefix(s, t) <=> Len(s) <= Len(t) /\ \A k \in 1 .. Len(s) : s[k] = t[k]
<1>1. ASSUME Len(s) <= Len(t)
      PROVE  /\ SubSeq(s, 1, Len(s)) = [k \in 1 .. Len(s) |-> s[k]]
             /\ SubSeq(t, 1, Len(s)) = [k \in 1 .. Len(s) |-> t[k]]
  BY <1>1
<1> QED
  BY <1>1 DEF IsPrefix

Migrations == UNION {ToSet(Releases[i]) : i \in Instances}

LEMMA ReleasesAreOrdered ==
    /\ Instances # {}
    /\ \A i \in Instances : Releases[i] \in Seq(Migrations)
    /\ \A i \in Instances : \A j, k \in 1 .. Len(Releases[i]) : Releases[i][j] = Releases[i][k] => j = k
    /\ \A i, j \in Instances : \A k \in 1 .. Len(Releases[i]) :
          k <= Len(Releases[j]) => Releases[i][k] = Releases[j][k]
<1>1. ASSUME NEW i \in Instances PROVE Releases[i] \in Seq(Migrations)
  <2>1. Releases[i] \in Seq(ToSet(Releases[i])) /\ ToSet(Releases[i]) \subseteq Migrations
    BY ServiceAssumption DEF Migrations
  <2> QED
    BY <2>1
<1>2. ASSUME NEW i \in Instances, NEW j \in 1 .. Len(Releases[i]), NEW k \in 1 .. Len(Releases[i]),
             Releases[i][j] = Releases[i][k]
      PROVE  j = k
  BY <1>1, <1>2, ServiceAssumption DEF IsInjective
<1>3. ASSUME NEW i \in Instances, NEW j \in Instances, NEW k \in 1 .. Len(Releases[i]),
             k <= Len(Releases[j])
      PROVE  Releases[i][k] = Releases[j][k]
  <2>1. IsPrefix(Releases[i], Releases[j]) \/ IsPrefix(Releases[j], Releases[i])
    BY ServiceAssumption
  <2> QED
    BY <1>1, <1>3, <2>1, PrefixByPosition
<1> QED
  BY <1>1, <1>2, <1>3, ServiceAssumption

\* What was applied is a start of some release.
AppliedInOrder ==
    /\ applied \in Seq(Migrations)
    /\ \E i \in Instances : IsPrefix(applied, Releases[i])

Fields == {"pc", "pending", "inserts"}

\* The instance i of state m, when this was applied and so many were inserted:
\* what it does not take for pending was applied before, and once it is done
\* nothing of its release is missing.
InstanceSound(i, m, done, rows) ==
    /\ Fields \subseteq DOMAIN m
    /\ m.pc = "migrating" =>
          /\ m.inserts = 0
          /\ ToSet(Releases[i]) \subseteq m.pending \cup ToSet(done)
    /\ m.pc \in {"seeding", "listening"} => ToSet(Releases[i]) \subseteq ToSet(done)
    /\ m.pc = "seeding" => m.inserts \in 0 .. rows
    /\ m.pc = "listening" /\ i \in Seeding => rows = Statements

SchemaInv ==
    /\ AppliedInOrder
    /\ seeded \in 0 .. Statements
    /\ DOMAIN instance = Instances
    /\ \A i \in Instances : InstanceSound(i, instance[i], applied, seeded)

LEMMA SchemaStarts == ServiceInit => SchemaInv
<1> SUFFICES ASSUME ServiceInit PROVE SchemaInv
  OBVIOUS
<1>1. AppliedInOrder
  <2>1. PICK i \in Instances : TRUE
    BY ServiceAssumption
  <2>2. <<>> \in Seq(Migrations) /\ Releases[i] \in Seq(Migrations)
    BY ReleasesAreOrdered
  <2>3. IsPrefix(<<>>, Releases[i])
    <3> DEFINE e == <<>>
    <3>1. e \in Seq(Migrations) /\ Len(e) <= Len(Releases[i])
      BY <2>2
    <3>2. \A k \in 1 .. Len(e) : e[k] = Releases[i][k]
      OBVIOUS
    <3> HIDE DEF e
    <3>3. IsPrefix(e, Releases[i])
      BY <2>2, <3>1, <3>2, PrefixByPosition
    <3> QED
      BY <3>3 DEF e
  <2> QED
    BY <2>2, <2>3 DEF ServiceInit, AppliedInOrder
<1>2. \A i \in Instances : InstanceSound(i, instance[i], applied, seeded)
  BY DEF ServiceInit, InstanceSound, Fields, Down
<1> QED
  BY <1>1, <1>2, ServiceAssumption DEF ServiceInit, SchemaInv

\* The first migration an instance has not applied is the one that comes after
\* what was applied, whatever other instances did.
LEMMA NextInOrder ==
    ASSUME AppliedInOrder, NEW i \in Instances, NEW f \in Migrations,
           ToSet(Releases[i]) \subseteq instance[i].pending \cup ToSet(applied),
           NextMigration(i, f), f \notin ToSet(applied)
    PROVE  Len(applied) + 1 <= Len(Releases[i]) /\ IsPrefix(Append(applied, f), Releases[i])
<1> DEFINE R == Releases[i]
<1>1. PICK k \in 1 .. Len(R) : /\ f = R[k]
                               /\ \A j \in 1 .. k - 1 : R[j] \notin instance[i].pending
  BY DEF NextMigration
<1>2. PICK r \in Instances : IsPrefix(applied, Releases[r])
  BY DEF AppliedInOrder
<1>3. R \in Seq(Migrations) /\ Releases[r] \in Seq(Migrations) /\ applied \in Seq(Migrations)
  BY ReleasesAreOrdered DEF AppliedInOrder
<1>4. Len(applied) <= Len(Releases[r]) /\ \A j \in 1 .. Len(applied) : applied[j] = Releases[r][j]
  BY <1>2, <1>3, PrefixByPosition
<1>5. \A j \in 1 .. Len(applied) : j <= Len(R) => applied[j] = R[j]
  BY <1>3, <1>4, ReleasesAreOrdered
<1>6. Len(applied) < k
  <2>1. SUFFICES ASSUME k <= Len(applied) PROVE FALSE
    BY <1>3
  <2>2. applied[k] = R[k]
    BY <1>1, <1>3, <1>5, <2>1
  <2>3. f \in ToSet(applied)
    BY <1>1, <1>3, <2>1, <2>2 DEF ToSet
  <2> QED
    BY <2>3
<1>7. k - 1 <= Len(applied)
  <2>1. SUFFICES ASSUME k > 1 PROVE k - 1 <= Len(applied)
    BY <1>3, <1>6
  <2>2. R[k - 1] \in ToSet(R) /\ R[k - 1] \notin instance[i].pending
    BY <1>1, <1>3, <2>1 DEF ToSet
  <2>3. R[k - 1] \in ToSet(applied)
    BY <2>2
  <2>4. PICK x \in 1 .. Len(applied) : applied[x] = R[k - 1]
    BY <1>3, <2>3 DEF ToSet
  <2>5. R[x] = R[k - 1]
    BY <1>3, <1>5, <1>6, <2>4
  <2> QED
    BY <1>3, <1>6, <2>1, <2>4, <2>5, ReleasesAreOrdered
<1>8. Len(applied) + 1 = k
  BY <1>3, <1>6, <1>7
<1>9. /\ Append(applied, f) \in Seq(Migrations) /\ Len(Append(applied, f)) = k
      /\ \A j \in 1 .. k : Append(applied, f)[j] = R[j]
  BY <1>1, <1>3, <1>5, <1>8
<1>10. IsPrefix(Append(applied, f), R)
  <2> DEFINE t == Append(applied, f)
  <2>1. /\ t \in Seq(Migrations) /\ Len(t) = k /\ k <= Len(R)
        /\ \A j \in 1 .. k : t[j] = R[j]
    BY <1>3, <1>9
  <2> HIDE DEF t, R
  <2>2. IsPrefix(t, R)
    BY <1>3, <2>1, PrefixByPosition
  <2> QED
    BY <2>2 DEF t
<1> QED
  BY <1>8, <1>10

\* When nothing of a release is missing, the release is a start of it.
LEMMA NothingMissing ==
    ASSUME AppliedInOrder, NEW i \in Instances, ToSet(Releases[i]) \subseteq ToSet(applied)
    PROVE  IsPrefix(Releases[i], applied)
<1> DEFINE R == Releases[i]
<1>1. PICK r \in Instances : IsPrefix(applied, Releases[r])
  BY DEF AppliedInOrder
<1>2. R \in Seq(Migrations) /\ Releases[r] \in Seq(Migrations) /\ applied \in Seq(Migrations)
  BY ReleasesAreOrdered DEF AppliedInOrder
<1>3. Len(applied) <= Len(Releases[r]) /\ \A j \in 1 .. Len(applied) : applied[j] = Releases[r][j]
  BY <1>1, <1>2, PrefixByPosition
<1>4. \A j \in 1 .. Len(applied) : j <= Len(R) => applied[j] = R[j]
  BY <1>2, <1>3, ReleasesAreOrdered
<1>5. Len(R) <= Len(applied)
  <2>1. SUFFICES ASSUME Len(applied) < Len(R) PROVE FALSE
    BY <1>2
  <2>2. R[Len(R)] \in ToSet(R)
    BY <1>2, <2>1 DEF ToSet
  <2>3. PICK x \in 1 .. Len(applied) : applied[x] = R[Len(R)]
    <3> HIDE DEF R
    <3>1. R[Len(R)] \in ToSet(applied)
      BY <2>2 DEF R
    <3> QED
      BY <1>2, <3>1 DEF ToSet
  <2>4. R[x] = R[Len(R)]
    BY <1>2, <1>4, <2>1, <2>3
  <2> QED
    BY <1>2, <2>1, <2>3, <2>4, ReleasesAreOrdered
<1> QED
  BY <1>2, <1>4, <1>5, PrefixByPosition

\* What is applied later does not take from what an instance relies on.
LEMMA SoundLater ==
    ASSUME NEW i, NEW m, NEW d1, NEW d2, NEW r1 \in Nat, NEW r2 \in Nat,
           ToSet(d1) \subseteq ToSet(d2), r1 <= r2, r2 <= Statements,
           InstanceSound(i, m, d1, r1)
    PROVE  InstanceSound(i, m, d2, r2)
BY ServiceAssumption DEF InstanceSound, Fields

\* A step of one instance that leaves the database alone.
LEMMA SchemaOne ==
    ASSUME SchemaInv, UNCHANGED data, NEW i \in Instances, NEW m,
           instance' = [instance EXCEPT ![i] = m], InstanceSound(i, m, applied, seeded)
    PROVE  SchemaInv'
BY DEF SchemaInv, AppliedInOrder, data

LEMMA SchemaKept ==
    SchemaInv /\ UNCHANGED <<data, instance>> => SchemaInv'
BY DEF SchemaInv, AppliedInOrder, data

LEMMA SchemaStep == SchemaInv /\ [ServiceNext]_serviceVars => SchemaInv'
<1> SUFFICES ASSUME SchemaInv, [ServiceNext]_serviceVars PROVE SchemaInv'
  OBVIOUS
<1>0. \A i \in Instances : InstanceSound(i, instance[i], applied, seeded)
  BY DEF SchemaInv
<1>1. ASSUME NEW i \in Instances, StartServer(i) PROVE SchemaInv'
  <2> DEFINE m == [pc |-> "migrating", stores |-> "open", inserts |-> 0,
                   pending |-> ToSet(Releases[i]) \ ToSet(applied)]
  <2>1. InstanceSound(i, m, applied, seeded)
    BY DEF InstanceSound, Fields
  <2>2. instance' = [instance EXCEPT ![i] = m] /\ UNCHANGED data
    BY <1>1 DEF StartServer, data
  <2> QED
    BY <2>1, <2>2, SchemaOne
<1>2. ASSUME NEW i \in Instances, NEW f \in ToSet(Releases[i]), RunMigration(i, f) PROVE SchemaInv'
  <2> DEFINE m == [instance[i] EXCEPT !.pending = @ \ {f}]
  <2>1. /\ instance[i].pc = "migrating" /\ NextMigration(i, f) /\ f \notin ToSet(applied)
        /\ applied' = Append(applied, f) /\ seeded' = seeded
        /\ instance' = [instance EXCEPT ![i] = m]
    BY <1>2 DEF RunMigration
  <2>2. f \in Migrations /\ applied \in Seq(Migrations)
    BY DEF Migrations, SchemaInv, AppliedInOrder
  <2>3. AppliedInOrder'
    <3>1. ToSet(Releases[i]) \subseteq instance[i].pending \cup ToSet(applied)
      BY <1>0, <2>1 DEF InstanceSound, Fields
    <3>2. IsPrefix(applied', Releases[i])
      BY <2>1, <2>2, <3>1, NextInOrder DEF SchemaInv
    <3>3. applied' \in Seq(Migrations)
      BY <2>1, <2>2
    <3> QED
      BY <3>2, <3>3 DEF AppliedInOrder
  <2>4. ToSet(applied') = ToSet(applied) \cup {f}
    <3> HIDE DEF Migrations
    <3>1. /\ DOMAIN applied = 1 .. Len(applied) /\ DOMAIN applied' = 1 .. Len(applied) + 1
          /\ Len(applied) \in Nat
          /\ \A k \in 1 .. Len(applied) : applied'[k] = applied[k]
          /\ applied'[Len(applied) + 1] = f
      BY <2>1, <2>2
    <3>2. ToSet(applied) \subseteq ToSet(applied')
      BY <3>1 DEF ToSet
    <3>3. f \in ToSet(applied')
      BY <3>1 DEF ToSet
    <3>4. ASSUME NEW k \in 1 .. Len(applied) + 1 PROVE applied'[k] \in ToSet(applied) \cup {f}
      <4>1. CASE k = Len(applied) + 1
        BY <3>1, <4>1
      <4>2. CASE k \in 1 .. Len(applied)
        BY <3>1, <4>2 DEF ToSet
      <4> QED
        BY <3>1, <4>1, <4>2
    <3> QED
      BY <3>1, <3>2, <3>3, <3>4 DEF ToSet
  <2>5. InstanceSound(i, m, applied', seeded)
    <3>1. /\ Fields \subseteq DOMAIN m
          /\ m.pc = "migrating" /\ m.inserts = 0
      BY <1>0, <2>1 DEF InstanceSound, Fields
    <3>2. m.pending = instance[i].pending \ {f}
      BY <1>0 DEF InstanceSound, Fields
    <3>3. ToSet(Releases[i]) \subseteq m.pending \cup ToSet(applied')
      BY <1>0, <2>1, <2>4, <3>2 DEF InstanceSound, Fields
    <3> HIDE DEF m
    <3> QED
      BY <3>1, <3>3 DEF InstanceSound, Fields
  <2>6. ASSUME NEW j \in Instances PROVE InstanceSound(j, instance[j], applied', seeded)
    <3>1. ToSet(applied) \subseteq ToSet(applied') /\ seeded \in Nat /\ seeded <= Statements
      BY <2>4, ServiceAssumption DEF SchemaInv
    <3> QED
      BY <1>0, <3>1, SoundLater
  <2> HIDE DEF m
  <2> QED
    BY <2>1, <2>3, <2>5, <2>6 DEF SchemaInv
<1>3. ASSUME NEW i \in Instances, Connect(i) PROVE SchemaInv'
  <2> DEFINE p == IF i \in Seeding THEN "seeding" ELSE "listening"
             m == [instance[i] EXCEPT !.pc = p]
  <2>1. /\ instance[i].pc = "migrating" /\ instance[i].pending = {}
        /\ instance' = [instance EXCEPT ![i] = m] /\ UNCHANGED data
    BY <1>3 DEF Connect, data
  <2>2. /\ Fields \subseteq DOMAIN m
        /\ m.pc = p /\ m.inserts = 0
    BY <1>0, <2>1 DEF InstanceSound, Fields
  <2>3. ToSet(Releases[i]) \subseteq ToSet(applied) /\ seeded \in Nat
    BY <1>0, <2>1, ServiceAssumption DEF InstanceSound, Fields, SchemaInv
  <2>4. InstanceSound(i, m, applied, seeded)
    <3> HIDE DEF m
    <3> QED
      BY <2>2, <2>3 DEF InstanceSound, Fields
  <2> HIDE DEF m
  <2> QED
    BY <2>1, <2>4, SchemaOne
<1>4. ASSUME NEW i \in Instances, Insert(i) PROVE SchemaInv'
  <2> DEFINE x == instance[i]
             rows == IF x.inserts < seeded THEN seeded ELSE seeded + 1
  <2>1. /\ Fields \subseteq DOMAIN x
        /\ x.pc = "seeding" /\ x.inserts \in 0 .. seeded /\ seeded \in 0 .. Statements
        /\ ToSet(Releases[i]) \subseteq ToSet(applied) /\ Statements \in Nat
    BY <1>0, <1>4, ServiceAssumption DEF Insert, InstanceSound, SchemaInv
  <2>2. CASE x.inserts = Statements
    <3> DEFINE m == [x EXCEPT !.pc = "listening"]
    <3>1. instance' = [instance EXCEPT ![i] = m] /\ UNCHANGED data
      BY <1>4, <2>2 DEF Insert, data
    <3>2. /\ Fields \subseteq DOMAIN m
          /\ m.pc = "listening"
      BY <2>1 DEF Fields
    <3>3. seeded = Statements
      BY <2>1, <2>2
    <3>4. InstanceSound(i, m, applied, seeded)
      <4> HIDE DEF m
      <4> QED
        BY <2>1, <3>2, <3>3 DEF InstanceSound, Fields
    <3> HIDE DEF m
    <3> QED
      BY <3>1, <3>4, SchemaOne
  <2>3. CASE x.inserts # Statements
    <3> DEFINE m == [x EXCEPT !.inserts = @ + 1]
    <3>1. instance' = [instance EXCEPT ![i] = m] /\ seeded' = rows /\ applied' = applied
      BY <1>4, <2>3 DEF Insert, data
    <3>2. /\ Fields \subseteq DOMAIN m
          /\ m.pc = "seeding" /\ m.inserts = x.inserts + 1
      BY <2>1 DEF Fields
    <3>3. rows \in 0 .. Statements /\ seeded <= rows /\ x.inserts + 1 \in 0 .. rows
      BY <2>1, <2>3
    <3>4. InstanceSound(i, m, applied, rows)
      <4> HIDE DEF m, rows
      <4> QED
        BY <2>1, <3>2, <3>3 DEF InstanceSound, Fields
    <3>5. ASSUME NEW j \in Instances PROVE InstanceSound(j, instance[j], applied, rows)
      <4> HIDE DEF rows
      <4>1. seeded \in Nat /\ rows \in Nat /\ seeded <= rows /\ rows <= Statements
        BY <2>1, <3>3
      <4> QED
        BY <1>0, <4>1, SoundLater
    <3> HIDE DEF m, rows
    <3> QED
      BY <3>1, <3>3, <3>4, <3>5 DEF SchemaInv, AppliedInOrder
  <2> QED
    BY <2>2, <2>3
<1>5. ASSUME NEW i \in Instances, Exits(i), UNCHANGED data PROVE SchemaInv'
  <2>1. InstanceSound(i, Down, applied, seeded)
    BY DEF InstanceSound, Fields, Down
  <2> QED
    BY <1>5, <2>1, SchemaOne DEF Exits
<1>6. ASSUME NEW i \in Instances, NEW m, UNCHANGED data, instance' = [instance EXCEPT ![i] = m],
             Fields \subseteq DOMAIN m,
             m.pc \in {"closing", "closed"}
      PROVE  SchemaInv'
  <2>1. InstanceSound(i, m, applied, seeded)
    BY <1>6 DEF InstanceSound, Fields
  <2> QED
    BY <1>6, <2>1, SchemaOne
<1>7. ASSUME NEW i \in Instances, Shutdown(i) PROVE SchemaInv'
  <2> DEFINE m == [instance[i] EXCEPT !.pc = "closing"]
  <2>1. /\ Fields \subseteq DOMAIN m
        /\ m.pc = "closing"
    BY <1>0 DEF InstanceSound, Fields
  <2>2. instance' = [instance EXCEPT ![i] = m] /\ UNCHANGED data
    BY <1>7 DEF Shutdown, data
  <2> HIDE DEF m
  <2> QED
    BY <1>6, <2>1, <2>2
<1>8. ASSUME NEW i \in Instances, ServerClosed(i) PROVE SchemaInv'
  <2> DEFINE m == [instance[i] EXCEPT !.pc = "closed", !.stores = "closed"]
  <2>1. Fields \subseteq DOMAIN m
    BY <1>0 DEF InstanceSound, Fields
  <2>2. m.pc = "closed"
    BY <1>0 DEF InstanceSound, Fields
  <2>3. instance' = [instance EXCEPT ![i] = m] /\ UNCHANGED data
    BY <1>8 DEF ServerClosed, data
  <2> HIDE DEF m
  <2> QED
    BY <1>6, <2>1, <2>2, <2>3
<1>9. ASSUME UNCHANGED <<data, instance>> PROVE SchemaInv'
  BY <1>9, SchemaKept
<1> QED
  BY <1>1, <1>2, <1>3, <1>4, <1>5, <1>7, <1>8, <1>9
     DEF ServiceNext, serviceVars, data, Crash, ProcessExit, Authenticate, VerifyRevocation,
         RevokeSession, SessionRevoked, Answer, Tick, RedisChanges

LEMMA SchemaHolds == SchemaInv => ListensOnItsSchema
<1> SUFFICES ASSUME SchemaInv PROVE ListensOnItsSchema
  OBVIOUS
<1>1. ASSUME NEW i \in Instances, instance[i].pc = "listening"
      PROVE  IsPrefix(Releases[i], applied) /\ (i \in Seeding => seeded = Statements)
  <2>1. InstanceSound(i, instance[i], applied, seeded)
    BY DEF SchemaInv
  <2> QED
    BY <1>1, <2>1, NothingMissing DEF SchemaInv, InstanceSound, Fields
<1> QED
  BY <1>1 DEF SchemaInv, AppliedInOrder, ListensOnItsSchema

\* ListensOnItsSchema, for any instances and releases that extend one another:
\* db/migrate.ts applies the migrations in order and once each, and an instance
\* of index.ts that listens has its own, and the seed, whichever instances
\* start together or die on the way.
THEOREM SchemaIsComplete == ServiceSpec => []ListensOnItsSchema
<1> QED
  BY SchemaStarts, SchemaStep, SchemaHolds, PTL DEF ServiceSpec

----------------------------------------------------------------------------
Queued == [batch : Batches, status : {"pending", "approved", "executed"}]

LogOf(b) == <<b.run, b.phase>>

\* Of a command m, when the queue is q and these are the logs: one that may
\* run what its mode wants approved runs a queued batch that is not pending
\* any more; one that has run it has written its log.
CommandSound(m, q, logs) ==
    /\ "pc" \in DOMAIN m
    /\ m.pc = "run" =>
          /\ {"id", "batch", "approved", "mode", "dry", "left", "entries", "alone"} \subseteq DOMAIN m
          /\ m.approved => /\ m.id \in DOMAIN q
                           /\ q[m.id].status # "pending"
                           /\ m.batch = q[m.id].batch
    /\ m.pc = "executed" =>
          /\ "id" \in DOMAIN m
          /\ m.id \in DOMAIN q
          /\ LogOf(q[m.id].batch) \in logs

QueueSound ==
    /\ \A id \in ranRisky : id \in DOMAIN queue /\ queue[id].status # "pending"
    /\ \A id \in DOMAIN queue :
          queue[id].status = "executed" => LogOf(queue[id].batch) \in DOMAIN rollbackLog

BatchInv ==
    /\ queue \in Seq(Queued)
    /\ DOMAIN command = Commands
    /\ \A c \in Commands : CommandSound(command[c], queue, DOMAIN rollbackLog)
    /\ QueueSound

LEMMA BatchStarts == BatchInit => BatchInv
BY DEF BatchInit, BatchInv, CommandSound, QueueSound, Off, NoLog

----------------------------------------------------------------------------
\* The queue keeps its batches, and none becomes pending again.
Keeps(q, r) ==
    /\ DOMAIN q \subseteq DOMAIN r
    /\ \A id \in DOMAIN q : /\ r[id].batch = q[id].batch
                            /\ q[id].status # "pending" => r[id].status # "pending"

LEMMA KeptCommand ==
    ASSUME NEW m, NEW q, NEW r, NEW logs, NEW more, CommandSound(m, q, logs),
           Keeps(q, r), logs \subseteq more
    PROVE  CommandSound(m, r, more)
BY DEF CommandSound, Keeps

LEMMA MarkedCommand ==
    ASSUME NEW m, NEW q, NEW logs, NEW b, CommandSound(m, q, logs)
    PROVE  CommandSound([m EXCEPT !.alone = b], q, logs)
<1> DEFINE n == [m EXCEPT !.alone = b]
<1>1. DOMAIN n = DOMAIN m
  OBVIOUS
<1>2. \A f \in DOMAIN m : f # "alone" => n[f] = m[f]
  OBVIOUS
<1> HIDE DEF n
<1> QED
  BY <1>1, <1>2 DEF CommandSound

LEMMA OffSound == \A q, logs : CommandSound(Off, q, logs)
BY DEF CommandSound, Off

\* A command that starts leaves the others what they were.
LEMMA StartsSound ==
    ASSUME BatchInv, NEW c \in Commands, NEW m, Starts(c, m), rollbackLog' = rollbackLog,
           Keeps(queue, queue'), CommandSound(m, queue', DOMAIN rollbackLog)
    PROVE  /\ DOMAIN command' = Commands
           /\ \A d \in Commands : CommandSound(command'[d], queue', DOMAIN rollbackLog')
<1> DEFINE alone == \A e \in Commands : command[e].pc = "off"
<1>1. /\ DOMAIN command' = Commands
      /\ command'[c] = [m EXCEPT !.alone = alone]
      /\ \A d \in Commands \ {c} :
            command'[d] = Off \/ command'[d] = [command[d] EXCEPT !.alone = FALSE]
  BY DEF Starts
<1>2. CommandSound(command'[c], queue', DOMAIN rollbackLog')
  BY <1>1, MarkedCommand
<1>3. ASSUME NEW d \in Commands \ {c}
      PROVE  CommandSound(command'[d], queue', DOMAIN rollbackLog')
  <2>1. CommandSound(command[d], queue', DOMAIN rollbackLog')
    BY KeptCommand DEF BatchInv
  <2> QED
    BY <1>1, <2>1, MarkedCommand, OffSound
<1> QED
  BY <1>1, <1>2, <1>3

\* A step of one command, to m.
LEMMA StepSound ==
    ASSUME BatchInv, NEW c \in Commands, NEW m, command' = [command EXCEPT ![c] = m],
           Keeps(queue, queue'), DOMAIN rollbackLog \subseteq DOMAIN rollbackLog',
           CommandSound(m, queue', DOMAIN rollbackLog')
    PROVE  /\ DOMAIN command' = Commands
           /\ \A d \in Commands : CommandSound(command'[d], queue', DOMAIN rollbackLog')
<1>1. /\ DOMAIN command' = Commands /\ command'[c] = m
      /\ \A d \in Commands \ {c} : command'[d] = command[d]
  BY DEF BatchInv
<1>2. \A d \in Commands : CommandSound(command[d], queue', DOMAIN rollbackLog')
  BY KeptCommand DEF BatchInv
<1> QED
  BY <1>1, <1>2

LEMMA SameQueueKeeps == ASSUME UNCHANGED queue PROVE Keeps(queue, queue')
BY DEF Keeps

\* The batch id gets a status that is not pending.
LEMMA StatusSet ==
    ASSUME BatchInv, NEW id \in DOMAIN queue, NEW u \in {"approved", "executed"},
           queue' = [queue EXCEPT ![id].status = u]
    PROVE  /\ queue' \in Seq(Queued) /\ Keeps(queue, queue') /\ DOMAIN queue' = DOMAIN queue
           /\ queue'[id].status = u
           /\ \A i \in DOMAIN queue \ {id} : queue'[i] = queue[i]
<1>1. queue \in Seq(Queued) /\ \A i \in DOMAIN queue : queue[i] \in Queued
  BY DEF BatchInv
<1> DEFINE b == [queue[id] EXCEPT !.status = u]
<1>2. b \in Queued /\ b.batch = queue[id].batch /\ b.status = u
  BY <1>1 DEF Queued
<1>3. queue' = [queue EXCEPT ![id] = b]
  OBVIOUS
<1> HIDE DEF b
<1>4. queue' \in Seq(Queued) /\ DOMAIN queue' = DOMAIN queue
      /\ queue'[id] = b /\ \A i \in DOMAIN queue \ {id} : queue'[i] = queue[i]
  BY <1>1, <1>2, <1>3
<1> QED
  BY <1>2, <1>4 DEF Keeps

LEMMA QueueKept ==
    ASSUME BatchInv, Keeps(queue, queue'), ranRisky' = ranRisky,
           DOMAIN queue' = DOMAIN queue, DOMAIN rollbackLog \subseteq DOMAIN rollbackLog',
           \A id \in DOMAIN queue : queue'[id].status = "executed" =>
              queue[id].status = "executed" \/ LogOf(queue[id].batch) \in DOMAIN rollbackLog'
    PROVE  QueueSound'
BY DEF BatchInv, QueueSound, Keeps

LEMMA CreateKeepsBatchInv ==
    ASSUME BatchInv, NEW b \in Batches, CreateQueuedBatch(b)
    PROVE  BatchInv'
<1> DEFINE e == [batch |-> b, status |-> "pending"]
<1>1. /\ queue' = Append(queue, e) /\ rollbackLog' = rollbackLog /\ command' = command
      /\ ranRisky' = ranRisky
  BY DEF CreateQueuedBatch
<1>2. e \in Queued /\ e.status = "pending" /\ queue \in Seq(Queued)
  BY DEF Queued, BatchInv
<1> HIDE DEF e
<1>3. /\ queue' \in Seq(Queued) /\ Keeps(queue, queue')
      /\ \A id \in DOMAIN queue' \ DOMAIN queue : queue'[id] = e
      /\ \A id \in DOMAIN queue : id \in DOMAIN queue' /\ queue'[id] = queue[id]
  BY <1>1, <1>2 DEF Keeps
<1>4. \A c \in Commands : CommandSound(command'[c], queue', DOMAIN rollbackLog')
  BY <1>1, <1>3, KeptCommand DEF BatchInv
<1>5. QueueSound'
  BY <1>1, <1>2, <1>3 DEF BatchInv, QueueSound
<1> QED
  BY <1>1, <1>3, <1>4, <1>5 DEF BatchInv

LEMMA ApproveKeepsBatchInv ==
    ASSUME BatchInv, NEW c \in Commands, NEW id, NEW mode, ApproveBatch(c, id, mode)
    PROVE  BatchInv'
<1> DEFINE m == Runner(id, queue[id].batch, mode, TRUE, FALSE)
<1>1. /\ id \in DOMAIN queue /\ Starts(c, m) /\ rollbackLog' = rollbackLog /\ ranRisky' = ranRisky
      /\ queue' = [queue EXCEPT ![id].status = "approved"]
  BY DEF ApproveBatch
<1>2. /\ queue' \in Seq(Queued) /\ Keeps(queue, queue') /\ DOMAIN queue' = DOMAIN queue
      /\ queue'[id].status = "approved"
      /\ \A i \in DOMAIN queue \ {id} : queue'[i] = queue[i]
  BY <1>1, StatusSet
<1>3. CommandSound(m, queue', DOMAIN rollbackLog)
  BY <1>1, <1>2 DEF CommandSound, Runner, Keeps
<1>4. QueueSound'
  BY <1>1, <1>2, QueueKept
<1> HIDE DEF m
<1> QED
  BY <1>1, <1>2, <1>3, <1>4, StartsSound DEF BatchInv

\* A command that is not approved runs nothing its mode wants approved.
LEMMA UnapprovedKeepsBatchInv ==
    ASSUME BatchInv, NEW c \in Commands, NEW m, Starts(c, m),
           UNCHANGED <<rollbackLog, queue, ranRisky>>, CommandSound(m, queue, DOMAIN rollbackLog)
    PROVE  BatchInv'
<1>1. rollbackLog' = rollbackLog /\ queue' = queue /\ ranRisky' = ranRisky /\ Keeps(queue, queue')
  BY SameQueueKeeps
<1>2. QueueSound'
  BY <1>1, QueueKept
<1> QED
  BY <1>1, <1>2, StartsSound DEF BatchInv

LEMMA RunActionKeepsBatchInv ==
    ASSUME BatchInv, NEW c \in Commands, RunAction(c)
    PROVE  BatchInv'
<1> DEFINE r == command[c]
           a == Head(r.left)
           skipped == [r EXCEPT !.left = Tail(@)]
           executed == [skipped EXCEPT !.entries = Append(@, Entry(a))]
<1>1. /\ r.pc = "run" /\ CommandSound(r, queue, DOMAIN rollbackLog)
      /\ rollbackLog' = rollbackLog /\ queue' = queue /\ Keeps(queue, queue')
  BY SameQueueKeeps DEF RunAction, BatchInv
<1>2. CommandSound(skipped, queue, DOMAIN rollbackLog)
  <2>1. DOMAIN skipped = DOMAIN r /\ \A f \in DOMAIN r : f # "left" => skipped[f] = r[f]
    OBVIOUS
  <2> HIDE DEF skipped
  <2> QED
    BY <1>1, <2>1 DEF CommandSound
<1>3. CommandSound(executed, queue, DOMAIN rollbackLog)
  <2> HIDE DEF skipped
  <2>1. /\ DOMAIN executed = DOMAIN skipped
        /\ \A f \in DOMAIN skipped : f # "entries" => executed[f] = skipped[f]
    OBVIOUS
  <2> HIDE DEF executed
  <2> QED
    BY <1>2, <2>1 DEF CommandSound
<1>4. \/ command' = [command EXCEPT ![c] = skipped]
      \/ command' = [command EXCEPT ![c] = executed]
  BY DEF RunAction
<1>5. \/ ranRisky' = ranRisky
      \/ ranRisky' = ranRisky \cup {r.id} /\ r.approved
  BY <1>1 DEF RunAction, HeldBack, CommandSound
<1> HIDE DEF skipped, executed
<1>6. /\ DOMAIN command' = Commands
      /\ \A d \in Commands : CommandSound(command'[d], queue', DOMAIN rollbackLog')
  BY <1>1, <1>2, <1>3, <1>4, StepSound
<1>7. QueueSound'
  BY <1>1, <1>5 DEF BatchInv, QueueSound, CommandSound
<1> QED
  BY <1>1, <1>6, <1>7 DEF BatchInv

LEMMA WriteLogsKeepsBatchInv ==
    ASSUME BatchInv, NEW c \in Commands, WriteLogs(c)
    PROVE  BatchInv'
<1> DEFINE r == command[c]
           log == LogOf(r.batch)
           m == IF r.approved THEN [pc |-> "executed", id |-> r.id, alone |-> r.alone] ELSE Off
<1>1. /\ r.pc = "run" /\ CommandSound(r, queue, DOMAIN rollbackLog)
      /\ queue' = queue /\ Keeps(queue, queue') /\ ranRisky' = ranRisky
      /\ DOMAIN rollbackLog' = DOMAIN rollbackLog \cup {log}
      /\ command' = [command EXCEPT ![c] = m]
  BY SameQueueKeeps DEF WriteLogs, BatchInv, LogOf
<1>2. CommandSound(m, queue', DOMAIN rollbackLog')
  <2>1. CASE r.approved
    BY <1>1, <2>1 DEF CommandSound, LogOf
  <2>2. CASE ~r.approved
    BY <2>2, OffSound
  <2> QED
    BY <2>1, <2>2
<1>3. QueueSound'
  BY <1>1, QueueKept
<1> HIDE DEF m, log, r
<1> QED
  BY <1>1, <1>2, <1>3, StepSound DEF BatchInv

LEMMA MarkExecutedKeepsBatchInv ==
    ASSUME BatchInv, NEW c \in Commands, MarkExecuted(c)
    PROVE  BatchInv'
<1> DEFINE id == command[c].id
<1>1. /\ command[c].pc = "executed" /\ CommandSound(command[c], queue, DOMAIN rollbackLog)
      /\ queue' = [queue EXCEPT ![id].status = "executed"]
      /\ rollbackLog' = rollbackLog /\ ranRisky' = ranRisky
      /\ command' = [command EXCEPT ![c] = Off]
  BY DEF MarkExecuted, BatchInv
<1>2. id \in DOMAIN queue /\ LogOf(queue[id].batch) \in DOMAIN rollbackLog
  BY <1>1 DEF CommandSound
<1> HIDE DEF id
<1>3. /\ queue' \in Seq(Queued) /\ Keeps(queue, queue') /\ DOMAIN queue' = DOMAIN queue
      /\ \A i \in DOMAIN queue \ {id} : queue'[i] = queue[i]
  BY <1>1, <1>2, StatusSet
<1>4. QueueSound'
  BY <1>1, <1>2, <1>3, QueueKept
<1> QED
  BY <1>1, <1>3, <1>4, OffSound, StepSound DEF BatchInv

\* A step of a rollback, or the end of a command.
LEMMA QuietKeepsBatchInv ==
    ASSUME BatchInv, NEW c \in Commands, NEW m, command' = [command EXCEPT ![c] = m],
           UNCHANGED <<rollbackLog, queue, ranRisky>>, CommandSound(m, queue, DOMAIN rollbackLog)
    PROVE  BatchInv'
<1>1. rollbackLog' = rollbackLog /\ queue' = queue /\ ranRisky' = ranRisky /\ Keeps(queue, queue')
  BY SameQueueKeeps
<1>2. QueueSound'
  BY <1>1, QueueKept
<1> QED
  BY <1>1, <1>2, StepSound DEF BatchInv

LEMMA RollbackStepKeepsBatchInv ==
    ASSUME BatchInv, NEW c \in Commands,
           ReadLog(c) \/ UndoEntry(c) \/ RollbackEnds(c) \/ CommandDies(c)
    PROVE  BatchInv'
<1> DEFINE r == command[c]
<1>1. UNCHANGED <<rollbackLog, queue, ranRisky>> /\ CommandSound(r, queue, DOMAIN rollbackLog)
  BY DEF ReadLog, UndoEntry, RollbackEnds, CommandDies, BatchInv
<1>2. CASE ReadLog(c)
  <2>0. PICK i \in r.logs :
           command' = [command EXCEPT ![c].logs = @ \ {i},
                          ![c].entries = Reverse(rollbackLog[<<r.run, Phases[i]>>])]
    BY <1>2 DEF ReadLog
  <2> DEFINE e == Reverse(rollbackLog[<<r.run, Phases[i]>>])
             m == [r EXCEPT !.logs = @ \ {i}, !.entries = e]
  <2>1. r.pc = "rollback" /\ command' = [command EXCEPT ![c] = m]
    BY <1>2, <2>0 DEF ReadLog, BatchInv
  <2> HIDE DEF e
  <2>2. DOMAIN m = DOMAIN r /\ ("pc" \in DOMAIN r => m.pc = r.pc)
    OBVIOUS
  <2>3. CommandSound(m, queue, DOMAIN rollbackLog)
    BY <1>1, <2>1, <2>2 DEF CommandSound
  <2> HIDE DEF m
  <2> QED
    BY <1>1, <2>1, <2>3, QuietKeepsBatchInv
<1>3. CASE UndoEntry(c)
  <2> DEFINE m == [r EXCEPT !.entries = Tail(@)]
  <2>1. r.pc = "rollback" /\ command' = [command EXCEPT ![c] = m]
    BY <1>3 DEF UndoEntry
  <2>2. DOMAIN m = DOMAIN r /\ ("pc" \in DOMAIN r => m.pc = r.pc)
    OBVIOUS
  <2>3. CommandSound(m, queue, DOMAIN rollbackLog)
    BY <1>1, <2>1, <2>2 DEF CommandSound
  <2> HIDE DEF m
  <2> QED
    BY <1>1, <2>1, <2>3, QuietKeepsBatchInv
<1>4. CASE RollbackEnds(c) \/ CommandDies(c)
  BY <1>1, <1>4, OffSound, QuietKeepsBatchInv DEF RollbackEnds, CommandDies
<1> QED
  BY <1>2, <1>3, <1>4

LEMMA BatchStep == BatchInv /\ [BatchNext]_batchVars => BatchInv'
<1> SUFFICES ASSUME BatchInv, [BatchNext]_batchVars PROVE BatchInv'
  OBVIOUS
<1>1. CASE UNCHANGED batchVars
  BY <1>1 DEF batchVars, BatchInv, QueueSound
<1>2. ASSUME NEW c \in Commands, NEW last \in LastRuns, NEW id \in 1..MaxQueued,
             CkApproveBatch(c, id, last)
      PROVE  BatchInv'
  BY <1>2, ApproveKeepsBatchInv DEF CkApproveBatch
<1>3. ASSUME NEW c \in Commands, NEW last \in LastRuns, NEW b \in Batches, CkExecute(c, b, last)
      PROVE  BatchInv'
  <2> DEFINE mode == ContextMode(last)
             m == Runner(0, b, mode, FALSE, DryRunByDefault(mode))
  <2>1. Starts(c, m) /\ UNCHANGED <<rollbackLog, queue, ranRisky>>
    BY <1>3 DEF CkExecute, Execute
  <2>2. CommandSound(m, queue, DOMAIN rollbackLog)
    BY DEF CommandSound, Runner
  <2> HIDE DEF m
  <2> QED
    BY <2>1, <2>2, UnapprovedKeepsBatchInv
<1>4. ASSUME NEW c \in Commands, NEW last \in LastRuns, CkRollback(c, last)
      PROVE  BatchInv'
  <2> DEFINE m == [pc |-> "rollback", run |-> last.run, logs |-> LogsOf(last.run),
                   entries |-> <<>>, alone |-> TRUE]
  <2>1. Starts(c, m) /\ UNCHANGED <<rollbackLog, queue, ranRisky>>
    BY <1>4 DEF CkRollback, Rollback
  <2>2. CommandSound(m, queue, DOMAIN rollbackLog)
    BY DEF CommandSound
  <2> HIDE DEF m
  <2> QED
    BY <2>1, <2>2, UnapprovedKeepsBatchInv
<1> QED
  BY <1>1, <1>2, <1>3, <1>4, CreateKeepsBatchInv, RunActionKeepsBatchInv, WriteLogsKeepsBatchInv,
     MarkExecutedKeepsBatchInv, RollbackStepKeepsBatchInv DEF BatchNext

\* QueueTellsTheTruth, for any processes, batches, paths and modes: nothing
\* that wants approval has run of a batch that is pending or was never
\* queued, and an executed batch has a log to roll it back by, whichever
\* commands run together, twice or die.
THEOREM QueueIsTrue == BatchSpec => []QueueTellsTheTruth
<1>1. BatchInv => QueueTellsTheTruth
  <2> SUFFICES ASSUME BatchInv PROVE QueueTellsTheTruth
    OBVIOUS
  <2>1. 0 \notin DOMAIN queue
    BY DEF BatchInv
  <2> QED
    BY <2>1 DEF BatchInv, QueueSound, QueueTellsTheTruth, LogOf
<1> QED
  BY <1>1, BatchStarts, BatchStep, PTL DEF BatchSpec

----------------------------------------------------------------------------
LogEntry == [type : {"write_file", "append_file", "create_dir", "run_command"},
             target : Dirs \cup Files \cup {""}]

\* A command that runs, or says it is alone, says what it must for that.
RunnerSound(m) ==
    m.pc = "run" =>
        /\ {"left", "entries", "batch"} \subseteq DOMAIN m
        /\ m.left \in Seq(BuilderAction) /\ m.entries \in Seq(LogEntry) /\ m.batch \in Batches

\* The logs are those of phases.
LogsSound(logs) ==
    \A l \in DOMAIN logs :
        /\ logs[l] \in Seq(LogEntry)
        /\ \E r, i : i \in DOMAIN Phases /\ l = <<r, Phases[i]>>

\* The first n entries of a log, the last of them first.
Backwards(log, n) == [k \in 1..n |-> log[n - k + 1]]

\* The log of a phase of a run.
PhaseLog(logs, r, p) == logs[<<r, Phases[p]>>]

HasLog(logs, r, p) == p \in DOMAIN Phases /\ <<r, Phases[p]>> \in DOMAIN logs

\* The rollback m has come down to the entry n of the log of the phase q, which
\* is undone with all before it: those of the phases named later, and those
\* after n in this log. What it has yet to read are the logs named earlier.
Progress(m, logs, q, n, t) ==
    /\ \A p \in DOMAIN Phases : (p \in m.logs <=> HasLog(logs, m.run, p) /\ p < q)
    /\ n = 0 => m.entries = <<>>
    /\ n # 0 => /\ HasLog(logs, m.run, q) /\ n \in 1..Len(PhaseLog(logs, m.run, q))
                /\ m.entries = Backwards(PhaseLog(logs, m.run, q), n)
    /\ \A p \in DOMAIN Phases : HasLog(logs, m.run, p) =>
          \A i \in DOMAIN PhaseLog(logs, m.run, p) :
              p > q \/ (p = q /\ i > n) => Reversed(logs, m.run, p, i, t)

RollbackSound(m, logs, t) ==
    m.pc = "rollback" =>
        /\ DOMAIN m = {"pc", "run", "logs", "entries", "alone"}
        /\ m.logs \in SUBSET (DOMAIN Phases)
        /\ m.alone => \E q, n \in Nat : Progress(m, logs, q, n, t)

\* A command that says it is alone is the only one.
LoneSound(cs) ==
    \A c \in Commands : cs[c].pc # "off" =>
        /\ "alone" \in DOMAIN cs[c]
        /\ cs[c].alone => \A d \in Commands \ {c} : cs[d].pc = "off"

\* The workspace holds paths.
ReversalTree == tree \subseteq Dirs \cup Files

ReversalInv ==
    /\ DOMAIN command = Commands
    /\ ReversalTree
    /\ LoneSound(command)
    /\ LogsSound(rollbackLog)
    /\ \A c \in Commands : /\ "pc" \in DOMAIN command[c]
                           /\ RunnerSound(command[c])
                           /\ RollbackSound(command[c], rollbackLog, tree)

LEMMA ReversalStarts == BatchInit => ReversalInv
BY DEF BatchInit, ReversalInv, ReversalTree, LoneSound, LogsSound, RunnerSound, RollbackSound, Off, NoLog

----------------------------------------------------------------------------
\* Undoing a later entry keeps reversed what is: the path it takes away is what
\* that entry made.
LEMMA ReversedStays ==
    ASSUME NEW logs, NEW r, NEW q, HasLog(logs, r, q), NEW n \in DOMAIN PhaseLog(logs, r, q),
           NEW p, NEW i, p > q \/ (p = q /\ i > n), Reversed(logs, r, p, i, tree)
    PROVE  Reversed(logs, r, p, i, tree \ Undone(PhaseLog(logs, r, q)[n]))
<1> DEFINE e == PhaseLog(logs, r, p)[i]
           d == PhaseLog(logs, r, q)[n]
           u == tree \ Undone(d)
<1>1. /\ e.type = "write_file" => e.target \notin tree
      /\ e.type = "create_dir" /\ e.target \in tree =>
            \E x \in Dirs \cup Files :
               e.target \in Above[x] /\ (x \in tree \/ UndoneLater(logs, r, p, i, x))
  BY DEF Reversed, PhaseLog
<1>2. ASSUME NEW x, x \in tree, x \notin u PROVE UndoneLater(logs, r, p, i, x)
  <2>1. x \in Undone(d)
    BY <1>2
  <2>2. d.type \in {"write_file", "create_dir"} /\ d.target = x
    BY <2>1 DEF Undone
  <2>3. q < p \/ (q = p /\ n < i)
    OBVIOUS
  <2> QED
    BY <2>2, <2>3 DEF UndoneLater, HasLog, PhaseLog
<1>3. u \subseteq tree
  OBVIOUS
<1> HIDE DEF u, d
<1>4. /\ e.type = "write_file" => e.target \notin u
      /\ e.type = "create_dir" /\ e.target \in u =>
            \E x \in Dirs \cup Files :
               e.target \in Above[x] /\ (x \in u \/ UndoneLater(logs, r, p, i, x))
  BY <1>1, <1>2, <1>3
<1>5. Reversed(logs, r, p, i, u)
  BY <1>4 DEF Reversed, PhaseLog
<1> QED
  BY <1>5 DEF u, d

\* Undoing an entry reverses it: a directory that stays holds something.
LEMMA UndoneIsReversed ==
    ASSUME ReversalTree, NEW logs, NEW r, NEW p, NEW i
    PROVE  Reversed(logs, r, p, i, tree \ Undone(PhaseLog(logs, r, p)[i]))
<1> DEFINE e == PhaseLog(logs, r, p)[i]
           u == tree \ Undone(e)
<1>1. CASE e.type = "write_file"
  BY <1>1 DEF Undone, Reversed, PhaseLog
<1>2. CASE e.type = "create_dir"
  <2>1. ASSUME e.target \in u
        PROVE  \E x \in Dirs \cup Files : e.target \in Above[x] /\ x \in u
    <3>1. Undone(e) = {e.target} \ UNION {Above[x] : x \in tree}
      BY <1>2 DEF Undone
    <3>2. PICK x \in tree : e.target \in Above[x]
      BY <2>1, <3>1
    <3>3. Undone(e) = {}
      BY <2>1, <3>1
    <3> QED
      BY <3>2, <3>3 DEF ReversalTree
  <2> HIDE DEF u
  <2> QED
    BY <1>2, <2>1 DEF Reversed, PhaseLog, u
<1>3. CASE e.type \notin {"write_file", "create_dir"}
  BY <1>3 DEF Reversed, PhaseLog
<1> QED
  BY <1>1, <1>2, <1>3

LEMMA BackwardsIsReverse ==
    ASSUME NEW log \in Seq(LogEntry)
    PROVE  Reverse(log) = Backwards(log, Len(log))
BY DEF Reverse, Backwards

LEMMA BackwardsHeadTail ==
    ASSUME NEW log \in Seq(LogEntry), NEW n \in 1..Len(log)
    PROVE  /\ Head(Backwards(log, n)) = log[n]
           /\ Tail(Backwards(log, n)) = Backwards(log, n - 1)
           /\ Backwards(log, n) # <<>>
           /\ n = 1 => Backwards(log, n - 1) = <<>>
<1> DEFINE s == Backwards(log, n)
           b == Backwards(log, n - 1)
<1>1. s \in Seq(LogEntry) /\ Len(s) = n /\ \A k \in 1..n : s[k] = log[n - k + 1]
  BY DEF Backwards
<1>2. b \in Seq(LogEntry) /\ Len(b) = n - 1 /\ \A k \in 1..(n - 1) : b[k] = log[n - k]
  BY DEF Backwards
<1> HIDE DEF s, b
<1>3. s # <<>> /\ Head(s) = log[n] /\ (n = 1 => b = <<>>)
  BY <1>1, <1>2
<1>4. Tail(s) \in Seq(LogEntry) /\ Len(Tail(s)) = n - 1
      /\ \A k \in 1..(n - 1) : Tail(s)[k] = log[n - k]
  BY <1>1
<1>5. Tail(s) = b
  BY <1>2, <1>4
<1> QED
  BY <1>3, <1>5 DEF s, b

----------------------------------------------------------------------------
\* When a command starts, no command that was there is alone any more.
LEMMA StartsReversal ==
    ASSUME ReversalInv, NEW c \in Commands, NEW m, Starts(c, m), UNCHANGED <<tree, rollbackLog>>,
           {"pc", "alone"} \subseteq DOMAIN m, m.pc # "off", RunnerSound(m),
           \A b \in BOOLEAN : RollbackSound([m EXCEPT !.alone = b], rollbackLog, tree)
    PROVE  ReversalInv'
<1> DEFINE alone == \A e \in Commands : command[e].pc = "off"
           mine == [m EXCEPT !.alone = alone]
           other(d) == [command[d] EXCEPT !.alone = FALSE]
<1>1. /\ DOMAIN command' = Commands /\ command'[c] = mine /\ command[c].pc = "off"
      /\ \A d \in Commands \ {c} :
            command'[d] = IF command[d].pc = "off" THEN Off ELSE other(d)
  BY DEF Starts
<1>2. /\ DOMAIN mine = DOMAIN m /\ mine.pc = m.pc
      /\ (mine.alone <=> alone)
      /\ \A f \in DOMAIN m \ {"alone"} : mine[f] = m[f]
  OBVIOUS
<1>3. ASSUME NEW d \in Commands, command[d].pc # "off"
      PROVE  /\ "alone" \in DOMAIN command[d]
             /\ DOMAIN other(d) = DOMAIN command[d] /\ other(d).pc = command[d].pc
             /\ other(d).alone = FALSE
             /\ \A f \in DOMAIN command[d] \ {"alone"} : other(d)[f] = command[d][f]
  BY <1>3 DEF ReversalInv, LoneSound
<1>4. RollbackSound(mine, rollbackLog, tree)
  OBVIOUS
<1> HIDE DEF mine, other
<1>5. RunnerSound(mine)
  BY <1>2 DEF RunnerSound
<1>6. ASSUME NEW d \in Commands, command[d].pc # "off"
      PROVE  /\ RunnerSound(other(d)) /\ RollbackSound(other(d), rollbackLog, tree)
             /\ "pc" \in DOMAIN other(d)
  <2>1. "pc" \in DOMAIN command[d] /\ RunnerSound(command[d])
        /\ RollbackSound(command[d], rollbackLog, tree)
    BY DEF ReversalInv
  <2>2. RunnerSound(other(d)) /\ "pc" \in DOMAIN other(d)
    BY <1>3, <1>6, <2>1 DEF RunnerSound
  <2>3. RollbackSound(other(d), rollbackLog, tree)
    <3>1. SUFFICES ASSUME other(d).pc = "rollback"
                   PROVE  /\ DOMAIN other(d) = {"pc", "run", "logs", "entries", "alone"}
                          /\ other(d).logs \in SUBSET (DOMAIN Phases)
      BY <1>3, <1>6 DEF RollbackSound
    <3>2. /\ DOMAIN command[d] = {"pc", "run", "logs", "entries", "alone"}
          /\ command[d].logs \in SUBSET (DOMAIN Phases)
      BY <1>3, <1>6, <2>1, <3>1 DEF RollbackSound
    <3> QED
      BY <1>3, <1>6, <3>2
  <2> QED
    BY <2>2, <2>3
<1>7. /\ RunnerSound(Off) /\ RollbackSound(Off, rollbackLog, tree)
      /\ "pc" \in DOMAIN Off /\ Off.pc = "off"
  BY DEF RunnerSound, RollbackSound, Off
<1>8. ASSUME NEW d \in Commands
      PROVE  /\ "pc" \in DOMAIN command'[d] /\ RunnerSound(command'[d])
             /\ RollbackSound(command'[d], rollbackLog', tree')
  BY <1>1, <1>2, <1>4, <1>5, <1>6, <1>7
<1>9. LoneSound(command')
  <2>1. ASSUME NEW d \in Commands \ {c}, command'[d].pc # "off"
        PROVE  /\ "alone" \in DOMAIN command'[d] /\ command'[d].alone = FALSE
               /\ command[d].pc # "off"
    BY <1>1, <1>3, <1>7, <2>1
  <2>2. "alone" \in DOMAIN mine /\ (mine.alone => \A d \in Commands \ {c} : command'[d].pc = "off")
    BY <1>1, <1>2, <2>1
  <2> QED
    BY <1>1, <2>1, <2>2 DEF LoneSound
<1> QED
  BY <1>1, <1>8, <1>9 DEF ReversalInv, ReversalTree

\* A step of a command keeps it alone, and it may change paths and logs: no
\* other command that is alone is there to notice.
LEMMA StepReversal ==
    ASSUME ReversalInv, NEW c \in Commands, NEW m, command' = [command EXCEPT ![c] = m],
           command[c].pc # "off", ReversalTree', LogsSound(rollbackLog'), "pc" \in DOMAIN m,
           m.pc # "off" => "alone" \in DOMAIN m /\ m.alone = command[c].alone,
           RunnerSound(m), RollbackSound(m, rollbackLog', tree')
    PROVE  ReversalInv'
<1>1. /\ DOMAIN command' = Commands /\ command'[c] = m
      /\ \A d \in Commands \ {c} : command'[d] = command[d]
  BY DEF ReversalInv
<1>2. LoneSound(command')
  BY <1>1 DEF ReversalInv, LoneSound
<1>3. ASSUME NEW d \in Commands
      PROVE  /\ "pc" \in DOMAIN command'[d] /\ RunnerSound(command'[d])
             /\ RollbackSound(command'[d], rollbackLog', tree')
  <2>1. CASE d = c
    BY <1>1, <2>1
  <2>2. CASE d # c
    BY <1>1, <2>2 DEF ReversalInv, LoneSound, RollbackSound
  <2> QED
    BY <2>1, <2>2
<1> QED
  BY <1>1, <1>2, <1>3 DEF ReversalInv

LEMMA EndReversal ==
    ASSUME ReversalInv, NEW c \in Commands, command' = [command EXCEPT ![c] = Off],
           command[c].pc # "off", UNCHANGED <<tree, rollbackLog>>
    PROVE  ReversalInv'
<1>1. /\ RunnerSound(Off) /\ RollbackSound(Off, rollbackLog', tree')
      /\ "pc" \in DOMAIN Off /\ Off.pc = "off"
  BY DEF RunnerSound, RollbackSound, Off
<1> QED
  BY <1>1, StepReversal DEF ReversalInv, ReversalTree

\* A batch that is queued, or approved or executed, starts with what it says.
LEMMA RunnerReversal ==
    ASSUME ReversalInv, NEW c \in Commands, NEW id, NEW b \in Batches, NEW mode, NEW ok, NEW dry,
           Starts(c, Runner(id, b, mode, ok, dry)), UNCHANGED <<tree, rollbackLog>>
    PROVE  ReversalInv'
<1> DEFINE m == Runner(id, b, mode, ok, dry)
<1>1. /\ {"pc", "alone", "left", "entries", "batch"} \subseteq DOMAIN m /\ m.pc = "run"
      /\ m.left = b.actions /\ m.entries = <<>> /\ m.batch = b
  BY DEF Runner
<1> HIDE DEF m
<1>2. b.actions \in Seq(BuilderAction)
  BY BatchAssumption
<1>3. <<>> \in Seq(LogEntry)
  OBVIOUS
<1>5. RunnerSound(m)
  BY <1>1, <1>2, <1>3 DEF RunnerSound
<1>4. \A a \in BOOLEAN : RollbackSound([m EXCEPT !.alone = a], rollbackLog, tree)
  BY <1>1 DEF RollbackSound
<1> QED
  BY <1>1, <1>5, <1>4, StartsReversal DEF m

LEMMA RollbackReversal ==
    ASSUME ReversalInv, NEW c \in Commands, NEW r, Rollback(c, r)
    PROVE  ReversalInv'
<1> DEFINE m == [pc |-> "rollback", run |-> r, logs |-> LogsOf(r), entries |-> <<>>, alone |-> TRUE]
<1>1. Starts(c, m) /\ UNCHANGED <<tree, rollbackLog>>
  BY DEF Rollback
<1>2. RunnerSound(m) /\ {"pc", "alone"} \subseteq DOMAIN m /\ m.pc # "off"
  BY DEF RunnerSound
<1>3. ASSUME NEW a \in BOOLEAN PROVE RollbackSound([m EXCEPT !.alone = a], rollbackLog, tree)
  <2> DEFINE n == [m EXCEPT !.alone = a]
  <2>1. /\ DOMAIN n = {"pc", "run", "logs", "entries", "alone"}
        /\ n.run = r /\ n.logs = LogsOf(r) /\ n.entries = <<>>
    OBVIOUS
  <2> HIDE DEF n, m
  <2>2. DOMAIN Phases = 1..4
    BY DEF Phases
  <2>3. Progress(n, rollbackLog, 5, 0, tree)
    BY <2>1, <2>2 DEF Progress, HasLog, LogsOf
  <2>4. LogsOf(r) \in SUBSET (DOMAIN Phases)
    BY DEF LogsOf
  <2>5. RollbackSound(n, rollbackLog, tree)
    BY <2>1, <2>3, <2>4 DEF RollbackSound
  <2> QED
    BY <2>5 DEF n
<1> HIDE DEF m
<1> QED
  BY <1>1, <1>2, <1>3, StartsReversal

----------------------------------------------------------------------------
LEMMA RunActionReversal ==
    ASSUME ReversalInv, NEW c \in Commands, RunAction(c)
    PROVE  ReversalInv'
<1> DEFINE r == command[c]
           a == Head(r.left)
           skipped == [r EXCEPT !.left = Tail(@)]
           executed == [skipped EXCEPT !.entries = Append(@, Entry(a))]
<1>1. /\ r.pc = "run" /\ r.left # <<>> /\ rollbackLog' = rollbackLog
      /\ {"pc", "alone", "left", "entries", "batch"} \subseteq DOMAIN r
      /\ r.left \in Seq(BuilderAction) /\ r.entries \in Seq(LogEntry) /\ r.batch \in Batches
  BY DEF RunAction, ReversalInv, RunnerSound, LoneSound
<1>2. /\ a \in BuilderAction /\ Tail(r.left) \in Seq(BuilderAction)
  BY <1>1
<1>3. Entry(a) \in LogEntry
  BY <1>2 DEF BuilderAction, LogEntry, Entry
<1>4. /\ DOMAIN skipped = DOMAIN r /\ skipped.pc = r.pc /\ skipped.alone = r.alone
      /\ skipped.left = Tail(r.left) /\ skipped.entries = r.entries /\ skipped.batch = r.batch
  BY <1>1
<1>5. \/ command' = [command EXCEPT ![c] = skipped]
      \/ command' = [command EXCEPT ![c] = executed]
  BY DEF RunAction
<1> HIDE DEF skipped, a
<1>6. /\ DOMAIN executed = DOMAIN r /\ executed.pc = r.pc /\ executed.alone = r.alone
      /\ executed.left = skipped.left /\ executed.batch = r.batch
      /\ executed.entries = Append(r.entries, Entry(a))
  BY <1>1, <1>4
<1> HIDE DEF executed, r
<1>7. RunnerSound(skipped) /\ RunnerSound(executed)
  BY <1>1, <1>2, <1>3, <1>4, <1>6 DEF RunnerSound
<1>8. /\ RollbackSound(skipped, rollbackLog', tree') /\ RollbackSound(executed, rollbackLog', tree')
  BY <1>1, <1>4, <1>6 DEF RollbackSound
<1>9. LogsSound(rollbackLog')
  BY <1>1 DEF ReversalInv
<1>10. ReversalTree'
  <2>1. tree' = tree \/ \E whole \in BOOLEAN : tree' \in Leaves(a, tree, whole)
    BY DEF RunAction, a, r
  <2>2. tree \subseteq Dirs \cup Files
    BY DEF ReversalInv, ReversalTree
  <2>3. CASE a.type = "run_command"
    BY <2>1, <2>2, <2>3 DEF Leaves, Workspaces, ReversalTree
  <2>4. CASE a.type # "run_command"
    <3>1. a.target \in Dirs \cup Files
      BY <1>2, <2>4 DEF BuilderAction
    <3>2. Made(a) \subseteq Dirs \cup Files
      BY <3>1, BatchAssumption DEF Made
    <3> QED
      BY <2>1, <2>2, <2>4, <3>2 DEF Leaves, ReversalTree
  <2> QED
    BY <2>3, <2>4
<1> QED
  BY <1>1, <1>4, <1>5, <1>6, <1>7, <1>8, <1>9, <1>10, StepReversal DEF r

LEMMA WriteLogsReversal ==
    ASSUME ReversalInv, NEW c \in Commands, WriteLogs(c)
    PROVE  ReversalInv'
<1> DEFINE r == command[c]
           log == <<r.batch.run, r.batch.phase>>
           m == IF r.approved THEN [pc |-> "executed", id |-> r.id, alone |-> r.alone] ELSE Off
<1>1. /\ r.pc = "run" /\ r.entries \in Seq(LogEntry) /\ r.batch \in Batches
      /\ command' = [command EXCEPT ![c] = m]
      /\ rollbackLog' = [l \in DOMAIN rollbackLog \cup {log} |->
            IF l = log THEN r.entries ELSE rollbackLog[l]]
      /\ ReversalTree'
  BY DEF WriteLogs, ReversalInv, RunnerSound, ReversalTree
<1>2. PICK i \in DOMAIN Phases : r.batch.phase = Phases[i]
  BY <1>1, BatchAssumption DEF ToSet
<1>3. LogsSound(rollbackLog')
  BY <1>1, <1>2 DEF ReversalInv, LogsSound
<1>4. /\ "pc" \in DOMAIN m /\ m.pc \notin {"run", "rollback"}
      /\ m.pc # "off" => "alone" \in DOMAIN m /\ m.alone = r.alone
  BY DEF Off
<1> HIDE DEF m, r
<1>5. RunnerSound(m) /\ RollbackSound(m, rollbackLog', tree')
  BY <1>4 DEF RunnerSound, RollbackSound
<1> QED
  BY <1>1, <1>3, <1>4, <1>5, StepReversal DEF r

\* The log a rollback reads is to be undone from its end: it is the last of
\* those it has yet to read.
LEMMA ReadLogReversal ==
    ASSUME ReversalInv, NEW c \in Commands, ReadLog(c)
    PROVE  ReversalInv'
<1> DEFINE r == command[c]
<1>1. PICK i \in r.logs :
         /\ \A j \in r.logs : j <= i
         /\ command' = [command EXCEPT ![c].logs = @ \ {i},
                           ![c].entries = Reverse(rollbackLog[<<r.run, Phases[i]>>])]
  BY DEF ReadLog
<1> DEFINE log == rollbackLog[<<r.run, Phases[i]>>]
           m == [r EXCEPT !.logs = @ \ {i}, !.entries = Reverse(log)]
<1>2. /\ r.pc = "rollback" /\ r.entries = <<>> /\ rollbackLog' = rollbackLog /\ tree' = tree
      /\ DOMAIN r = {"pc", "run", "logs", "entries", "alone"}
      /\ r.logs \in SUBSET (DOMAIN Phases)
      /\ LogsSound(rollbackLog) /\ RollbackSound(r, rollbackLog, tree) /\ ReversalTree'
  BY DEF ReadLog, ReversalInv, RollbackSound, ReversalTree
<1>3. command' = [command EXCEPT ![c] = m]
  BY <1>1, <1>2 DEF ReversalInv
<1>4. m.pc = r.pc /\ m.alone = r.alone /\ m.run = r.run /\ DOMAIN m = DOMAIN r
  BY <1>2
<1>5. m.logs = r.logs \ {i}
  BY <1>2
<1>6. m.entries = Reverse(log)
  BY <1>2
<1> HIDE DEF m, r
<1>7. ASSUME m.alone
      PROVE  \E q, n \in Nat : Progress(m, rollbackLog, q, n, tree)
  <2>1. PICK q, n \in Nat : Progress(r, rollbackLog, q, n, tree)
    BY <1>2, <1>4, <1>7 DEF RollbackSound
  <2>2. DOMAIN Phases = 1..4
    BY DEF Phases
  <2>3. \A p \in DOMAIN Phases : (p \in r.logs <=> HasLog(rollbackLog, r.run, p) /\ p < q)
    BY <2>1 DEF Progress
  <2>4. \A p \in DOMAIN Phases : HasLog(rollbackLog, r.run, p) =>
           \A k \in DOMAIN PhaseLog(rollbackLog, r.run, p) :
               p > q \/ (p = q /\ k > n) => Reversed(rollbackLog, r.run, p, k, tree)
    BY <2>1 DEF Progress
  <2>5. n = 0
    <3>1. SUFFICES ASSUME n # 0 PROVE FALSE
      OBVIOUS
    <3>2. /\ HasLog(rollbackLog, r.run, q) /\ n \in 1..Len(PhaseLog(rollbackLog, r.run, q))
          /\ r.entries = Backwards(PhaseLog(rollbackLog, r.run, q), n)
      BY <2>1, <3>1 DEF Progress
    <3>3. PhaseLog(rollbackLog, r.run, q) \in Seq(LogEntry)
      BY <1>2, <3>2 DEF HasLog, PhaseLog, LogsSound
    <3>4. Backwards(PhaseLog(rollbackLog, r.run, q), n) # <<>>
      BY <3>2, <3>3, BackwardsHeadTail
    <3> QED
      BY <1>2, <3>2, <3>4
  <2>6. i \in 1..4 /\ i < q /\ HasLog(rollbackLog, r.run, i)
    BY <1>1, <1>2, <2>2, <2>3
  <2> DEFINE l == PhaseLog(rollbackLog, r.run, i)
  <2>7. /\ l \in Seq(LogEntry) /\ l = log /\ DOMAIN l = 1..Len(l) /\ Len(l) \in Nat
    BY <1>2, <2>6 DEF HasLog, PhaseLog, LogsSound
  <2>8. m.entries = Backwards(l, Len(l))
    BY <1>6, <2>7, BackwardsIsReverse
  <2> HIDE DEF l, log
  <2>9. Len(l) = 0 => m.entries = <<>>
    BY <2>7, <2>8 DEF Backwards
  <2>10. \A p \in DOMAIN Phases : (p \in m.logs <=> HasLog(rollbackLog, m.run, p) /\ p < i)
    BY <1>1, <1>4, <1>5, <2>2, <2>3, <2>6
  <2>11. ASSUME NEW p \in DOMAIN Phases, HasLog(rollbackLog, r.run, p),
                NEW k \in DOMAIN PhaseLog(rollbackLog, r.run, p), p > i \/ (p = i /\ k > Len(l))
         PROVE  Reversed(rollbackLog, r.run, p, k, tree)
    <3>1. CASE p = i
      BY <2>7, <2>11, <3>1 DEF l
    <3>2. CASE p > i
      <4>1. ~(p < q)
        BY <1>1, <2>2, <2>3, <2>6, <2>11, <3>2
      <4>2. PhaseLog(rollbackLog, r.run, p) \in Seq(LogEntry)
        BY <1>2, <2>11 DEF HasLog, PhaseLog, LogsSound
      <4>3. k \in Nat /\ k > 0
        BY <2>11, <4>2
      <4>4. p > q \/ (p = q /\ k > n)
        BY <2>2, <2>5, <4>1, <4>3
      <4> QED
        BY <2>4, <2>11, <4>4
    <3> QED
      BY <2>2, <2>6, <2>11, <3>1, <3>2
  <2>12. Progress(m, rollbackLog, i, Len(l), tree)
    <3>1. Len(l) # 0 => HasLog(rollbackLog, m.run, i) /\ Len(l) \in 1..Len(PhaseLog(rollbackLog, m.run, i))
                        /\ m.entries = Backwards(PhaseLog(rollbackLog, m.run, i), Len(l))
      BY <1>4, <2>6, <2>7, <2>8 DEF l
    <3> QED
      BY <1>4, <2>9, <2>10, <2>11, <3>1 DEF Progress
  <2> QED
    BY <2>6, <2>7, <2>12
<1>8. RollbackSound(m, rollbackLog', tree') /\ RunnerSound(m)
  BY <1>2, <1>4, <1>5, <1>7 DEF RollbackSound, RunnerSound
<1> QED
  BY <1>2, <1>3, <1>4, <1>8, StepReversal DEF r

LEMMA UndoEntryReversal ==
    ASSUME ReversalInv, NEW c \in Commands, UndoEntry(c)
    PROVE  ReversalInv'
<1> DEFINE r == command[c]
           m == [r EXCEPT !.entries = Tail(@)]
<1>1. /\ r.pc = "rollback" /\ r.entries # <<>> /\ rollbackLog' = rollbackLog
      /\ tree' = tree \ Undone(Head(r.entries))
      /\ DOMAIN r = {"pc", "run", "logs", "entries", "alone"}
      /\ r.logs \in SUBSET (DOMAIN Phases)
      /\ LogsSound(rollbackLog) /\ RollbackSound(r, rollbackLog, tree) /\ ReversalTree
  BY DEF UndoEntry, ReversalInv, RollbackSound
<1>2. command' = [command EXCEPT ![c] = m]
  BY DEF UndoEntry
<1>3. /\ m.pc = r.pc /\ m.alone = r.alone /\ m.run = r.run /\ DOMAIN m = DOMAIN r
      /\ m.logs = r.logs /\ m.entries = Tail(r.entries)
  BY <1>1
<1> HIDE DEF m, r
<1>4. ASSUME m.alone
      PROVE  \E q, n \in Nat : Progress(m, rollbackLog, q, n, tree')
  <2>1. PICK q, n \in Nat : Progress(r, rollbackLog, q, n, tree)
    BY <1>1, <1>3, <1>4 DEF RollbackSound
  <2> DEFINE l == PhaseLog(rollbackLog, r.run, q)
  <2>2. /\ HasLog(rollbackLog, r.run, q) /\ n \in 1..Len(l) /\ r.entries = Backwards(l, n)
    BY <1>1, <2>1 DEF Progress
  <2>3. /\ \A p \in DOMAIN Phases : (p \in r.logs <=> HasLog(rollbackLog, r.run, p) /\ p < q)
        /\ \A p \in DOMAIN Phases : HasLog(rollbackLog, r.run, p) =>
              \A i \in DOMAIN PhaseLog(rollbackLog, r.run, p) :
                  p > q \/ (p = q /\ i > n) => Reversed(rollbackLog, r.run, p, i, tree)
    BY <2>1 DEF Progress
  <2>4. l \in Seq(LogEntry) /\ DOMAIN l = 1..Len(l) /\ Len(l) \in Nat
    BY <1>1, <2>2 DEF HasLog, PhaseLog, LogsSound
  <2> HIDE DEF l
  <2>5. /\ Head(r.entries) = l[n] /\ m.entries = Backwards(l, n - 1)
        /\ n = 1 => m.entries = <<>>
    BY <1>3, <2>2, <2>4, BackwardsHeadTail
  <2>6. n \in DOMAIN l /\ tree' = tree \ Undone(l[n])
    BY <1>1, <2>2, <2>4, <2>5
  <2>7. Reversed(rollbackLog, r.run, q, n, tree')
    BY <1>1, <2>6, UndoneIsReversed DEF l
  <2>8. ASSUME NEW p \in DOMAIN Phases, HasLog(rollbackLog, r.run, p),
               NEW i \in DOMAIN PhaseLog(rollbackLog, r.run, p), p > q \/ (p = q /\ i > n - 1)
        PROVE  Reversed(rollbackLog, r.run, p, i, tree')
    <3>1. CASE p = q /\ i = n
      BY <2>7, <3>1
    <3>2. CASE p > q \/ (p = q /\ i > n)
      <4>1. Reversed(rollbackLog, r.run, p, i, tree)
        BY <2>3, <2>8, <3>2
      <4> QED
        BY <2>2, <2>6, <3>2, <4>1, ReversedStays DEF l
    <3>3. i \in Nat
      <4>1. PhaseLog(rollbackLog, r.run, p) \in Seq(LogEntry)
        BY <1>1, <2>8 DEF HasLog, PhaseLog, LogsSound
      <4> QED
        BY <2>8, <4>1
    <3> QED
      BY <2>8, <3>1, <3>2, <3>3
  <2>9. n - 1 # 0 => n - 1 \in 1..Len(l)
    BY <2>2, <2>4
  <2>10. Progress(m, rollbackLog, q, n - 1, tree')
    <3>1. n - 1 # 0 => /\ HasLog(rollbackLog, m.run, q)
                       /\ n - 1 \in 1..Len(PhaseLog(rollbackLog, m.run, q))
                       /\ m.entries = Backwards(PhaseLog(rollbackLog, m.run, q), n - 1)
      BY <1>3, <2>2, <2>5, <2>9 DEF l
    <3>2. n - 1 = 0 => m.entries = <<>>
      BY <2>2, <2>4, <2>5
    <3> QED
      BY <1>3, <2>3, <2>8, <3>1, <3>2 DEF Progress
  <2>11. n - 1 \in Nat
    BY <2>2, <2>4
  <2> QED
    BY <2>10, <2>11
<1>5. RollbackSound(m, rollbackLog', tree') /\ RunnerSound(m)
  BY <1>1, <1>3, <1>4 DEF RollbackSound, RunnerSound
<1>6. ReversalTree' /\ LogsSound(rollbackLog')
  BY <1>1 DEF ReversalTree
<1> QED
  BY <1>1, <1>2, <1>3, <1>5, <1>6, StepReversal DEF r

LEMMA ReversalStep == BatchInv /\ ReversalInv /\ [BatchNext]_batchVars => ReversalInv'
<1> SUFFICES ASSUME BatchInv, ReversalInv, [BatchNext]_batchVars PROVE ReversalInv'
  OBVIOUS
<1>1. CASE UNCHANGED batchVars
  BY <1>1 DEF batchVars, ReversalInv, ReversalTree
<1>2. ASSUME NEW b \in Batches, CreateQueuedBatch(b) PROVE ReversalInv'
  BY <1>2 DEF CreateQueuedBatch, ReversalInv, ReversalTree
<1>3. ASSUME NEW c \in Commands, NEW last \in LastRuns, NEW id \in 1..MaxQueued,
             CkApproveBatch(c, id, last)
      PROVE  ReversalInv'
  <2>1. id \in DOMAIN queue /\ queue \in Seq(Queued)
    BY <1>3 DEF CkApproveBatch, ApproveBatch, BatchInv
  <2>2. queue[id] \in Queued
    BY <2>1
  <2>3. queue[id].batch \in Batches
    BY <2>2 DEF Queued
  <2> QED
    BY <1>3, <2>3, RunnerReversal DEF CkApproveBatch, ApproveBatch
<1>4. ASSUME NEW c \in Commands, NEW last \in LastRuns, NEW b \in Batches, CkExecute(c, b, last)
      PROVE  ReversalInv'
  BY <1>4, RunnerReversal DEF CkExecute, Execute
<1>5. ASSUME NEW c \in Commands, NEW last \in LastRuns, CkRollback(c, last)
      PROVE  ReversalInv'
  BY <1>5, RollbackReversal DEF CkRollback
<1>6. ASSUME NEW c \in Commands, MarkExecuted(c) \/ RollbackEnds(c) \/ CommandDies(c)
      PROVE  ReversalInv'
  BY <1>6, EndReversal DEF MarkExecuted, RollbackEnds, CommandDies
<1> QED
  BY <1>1, <1>2, <1>3, <1>4, <1>5, <1>6, RunActionReversal, WriteLogsReversal, ReadLogReversal,
     UndoEntryReversal DEF BatchNext

\* LoneRollbackCleans, for any batches, paths, directories in directories and
\* phases: a rollback that no other command overlaps undoes every log of its
\* run from the end, the last name first, and what it leaves is a directory
\* that holds something, or held what it had yet to undo; whichever batches of
\* the run were executed, failed in part or died before it, and whatever their
\* commands did to the workspace.
THEOREM RollbackReverses == BatchSpec => []LoneRollbackCleans
<1>1. ReversalInv => LoneRollbackCleans
  <2> SUFFICES ASSUME ReversalInv, NEW c \in Commands, command[c].pc = "rollback",
                      command[c].entries = <<>>, command[c].logs = {}, command[c].alone,
                      NEW p \in LogsOf(command[c].run),
                      NEW i \in DOMAIN PhaseLog(rollbackLog, command[c].run, p)
               PROVE  Reversed(rollbackLog, command[c].run, p, i, tree)
    BY DEF LoneRollbackCleans, PhaseLog
  <2> DEFINE r == command[c].run
  <2>1. PICK q, n \in Nat : Progress(command[c], rollbackLog, q, n, tree)
    BY DEF ReversalInv, RollbackSound
  <2>2. p \in DOMAIN Phases /\ HasLog(rollbackLog, r, p) /\ DOMAIN Phases = 1..4
    BY DEF LogsOf, HasLog, Phases
  <2>3. n = 0
    <3>1. SUFFICES ASSUME n # 0 PROVE FALSE
      OBVIOUS
    <3>2. /\ HasLog(rollbackLog, r, q) /\ n \in 1..Len(PhaseLog(rollbackLog, r, q))
          /\ command[c].entries = Backwards(PhaseLog(rollbackLog, r, q), n)
      BY <2>1, <3>1 DEF Progress
    <3>3. PhaseLog(rollbackLog, r, q) \in Seq(LogEntry)
      BY <3>2 DEF ReversalInv, HasLog, PhaseLog, LogsSound
    <3> QED
      BY <3>2, <3>3, BackwardsHeadTail
  <2>4. ~(p < q)
    BY <2>1, <2>2 DEF Progress
  <2>5. PhaseLog(rollbackLog, r, p) \in Seq(LogEntry)
    BY <2>2 DEF ReversalInv, HasLog, PhaseLog, LogsSound
  <2>6. i \in Nat /\ i > 0
    BY <2>5
  <2>7. p > q \/ (p = q /\ i > n)
    BY <2>2, <2>3, <2>4, <2>6
  <2> QED
    BY <2>1, <2>2, <2>7 DEF Progress
<1>2. BatchInit => BatchInv /\ ReversalInv
  BY BatchStarts, ReversalStarts
<1>3. (BatchInv /\ ReversalInv) /\ [BatchNext]_batchVars => (BatchInv /\ ReversalInv)'
  BY BatchStep, ReversalStep
<1> QED
  BY <1>1, <1>2, <1>3, PTL DEF BatchSpec

=============================================================================
