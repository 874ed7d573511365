------------------------------ MODULE Requests ------------------------------
(***************************************************************************)
(* Requests over sessions: the JSON-RPC handlers and the attach endpoint   *)
(* (axp-transport/src/handlers.rs, attach.rs, router.rs), the session      *)
(* store and its tokens (axp-core/src/session.rs, auth.rs), and what the   *)
(* engine's request paths and drainers do to sessions.                     *)
(*                                                                         *)
(* Every client has one request under way.  A step is one look at or one   *)
(* change of the session map, one locked access to a session, or one       *)
(* locked section of the job store; between two of them other requests and *)
(* drainers run.  JobEngine merges the look-up of a session with the       *)
(* record on it; here they are apart, so a session may be closed between   *)
(* them.                                                                   *)
(*                                                                         *)
(* A Session object is named by its token: open makes both.  The map takes *)
(* an id to an object, which lives on for whoever holds a handle (an Arc). *)
(* Left out: the wire format, what a payload asks for (a request may be    *)
(* refused), and what status, cancel and attach do to a job they may see.  *)
(***************************************************************************)
EXTENDS Naturals, Sequences, FiniteSets, SequencesExt

CONSTANTS
    Client,
    Job,            \* job ids, bounding the jobs started
    MaxSessions     \* bound: sessions opened, and ids minted

ASSUME RequestsAssumption == MaxSessions \in Nat \ {0}

VARIABLES
    counter,    \* AppState.session_counter
    minted,     \* tokens generated so far
    store,      \* SessionStore.inner: the object an id leads to, or 0
    idOf,       \* Session.id of each object, 0 before it exists
    log,        \* Session.audit_events of each object
    owner,      \* Job.session_id, 0 before the job is in the store
    drainer,    \* per job: how far start and its drainer are
    held,       \* per job: the handle its drainer took to record JobFinished
    request,    \* per client: what it asks for
    pc,         \* per client: where the handler stands
    got,        \* per client: the handle the handler holds, or 0
    answer,     \* per client
    \* history
    starter,    \* per job: the token of the request that started it
    told,       \* closes and starts answered so far
    heard       \* per client: those of its session, when its request was sent

storeVars == <<store, idOf, log>>
jobVars == <<owner, drainer, held, starter>>
requestVars == <<request, pc, got, answer, told, heard>>
vars == <<counter, minted, storeVars, jobVars, requestVars>>

-----------------------------------------------------------------------------
(* Types *)

Id == 1..MaxSessions
Object == 1..MaxSessions

\* "query" is job.status, job.cancel and attach, which reach their job in one way.
Method == {"open", "close", "audit", "index", "start", "query"}

Code == {"none", "ok", "unauthorized", "notFound", "refused"}

\* "holding": the handler has looked the session up; "closing": it took it out of the
\* map; "inserted", "recording": in start, before and after the second look-up.
PC == {"idle", "arrived", "minted", "authorized", "holding", "closing", "inserted",
       "recording", "answered"}

AuditEvent == [kind : {"SessionOpened", "SessionClosed"}]
              \cup [kind : {"JobStarted", "JobFinished"}, job : Job]

NoJobNamed == [method |-> "open", id |-> 0, token |-> 0, job |-> {}]

\* job holds the job id of a request that names one.
Request == [method : Method, id : 0..MaxSessions, token : 0..MaxSessions,
            job : {{}} \cup {{j} : j \in Job}]

Told == [closed : SUBSET Object, started : SUBSET Job]

TypeOK ==
    /\ counter \in 1..(MaxSessions + 1)
    /\ minted \in 0..MaxSessions
    /\ store \in [Id -> 0..MaxSessions]
    /\ idOf \in [Object -> 0..MaxSessions]
    /\ log \in [Object -> Seq(AuditEvent)]
    /\ owner \in [Job -> 0..MaxSessions]
    /\ drainer \in [Job -> {"none", "starting", "running", "finishing", "recording", "done"}]
    /\ held \in [Job -> 0..MaxSessions]
    /\ request \in [Client -> Request]
    /\ pc \in [Client -> PC]
    /\ got \in [Client -> 0..MaxSessions]
    /\ answer \in [Client -> [code : Code, log : Seq(AuditEvent)]]
    /\ starter \in [Job -> 0..MaxSessions]
    /\ told \in Told
    /\ heard \in [Client -> Told]
    /\ \A c \in Client : pc[c] \in {"holding", "closing", "recording"} => got[c] # 0
    /\ \A j \in Job : drainer[j] = "recording" => held[j] # 0

NoAnswer == [code |-> "none", log |-> <<>>]
NothingTold == [closed |-> {}, started |-> {}]

Init ==
    /\ counter = 1
    /\ minted = 0
    /\ store = [i \in Id |-> 0]
    /\ idOf = [h \in Object |-> 0]
    /\ log = [h \in Object |-> <<>>]
    /\ owner = [j \in Job |-> 0]
    /\ drainer = [j \in Job |-> "none"]
    /\ held = [j \in Job |-> 0]
    /\ request = [c \in Client |-> NoJobNamed]
    /\ pc = [c \in Client |-> "idle"]
    /\ got = [c \in Client |-> 0]
    /\ answer = [c \in Client |-> NoAnswer]
    /\ starter = [j \in Job |-> 0]
    /\ told = NothingTold
    /\ heard = [c \in Client |-> NothingTold]

-----------------------------------------------------------------------------
(* Requests and answers *)

\* A client sends a request, with a token it was given or none that is good.
Send(c, r) ==
    /\ pc[c] \in {"idle", "answered"}
    /\ r.token # 0 => idOf[r.token] # 0
    /\ request' = [request EXCEPT ![c] = r]
    /\ pc' = [pc EXCEPT ![c] = "arrived"]
    /\ got' = [got EXCEPT ![c] = 0]
    /\ answer' = [answer EXCEPT ![c] = NoAnswer]
    /\ heard' = [heard EXCEPT ![c] =
                    [closed |-> told.closed \cap {r.token},
                     started |-> {j \in told.started : starter[j] = r.token}]]
    /\ UNCHANGED <<counter, minted, storeVars, jobVars, told>>

At(c, place, methods) == pc[c] = place /\ request[c].method \in methods

Goto(c, place) == pc' = [pc EXCEPT ![c] = place] /\ UNCHANGED <<answer, heard>>

Reply(c, code, data) ==
    /\ pc' = [pc EXCEPT ![c] = "answered"]
    /\ answer' = [answer EXCEPT ![c] = [code |-> code, log |-> data]]
    /\ UNCHANGED <<request, heard>>

Fail(c, code) ==
    /\ Reply(c, code, <<>>)
    /\ UNCHANGED <<counter, minted, storeVars, jobVars, got, told>>

\* CapToken::verify of the object h: a token names its object.
Verify(h, t) == h = t

\* Mutant of Authorized: the token is compared with the session that was opened with
\* it, closed or not.
AuthorizedEver(i, t) == t # 0 /\ idOf[t] = i

\* SessionStore::authorize.
Authorized(i, t) == i # 0 /\ store[i] # 0 /\ Verify(store[i], t)

\* require_authorized_session, before anything else.
Authorize(c) ==
    /\ At(c, "arrived", Method \ {"open"})
    /\ IF Authorized(request[c].id, request[c].token)
       THEN /\ Goto(c, "authorized")
            /\ UNCHANGED <<counter, minted, storeVars, jobVars, request, got, told>>
       ELSE Fail(c, "unauthorized")

-----------------------------------------------------------------------------
(* session.open *)

\* The workspace or a capability is not good, or there is no entropy for the token.
OpenRefused(c) ==
    /\ pc[c] = "minted" \/ At(c, "arrived", {"open"})
    /\ Fail(c, "refused")

\* Mutant of NextSessionId: the first id that no live session has.
NextSessionIdUnused(c) ==
    /\ At(c, "arrived", {"open"})
    /\ \E i \in Id :
          /\ store[i] = 0
          /\ \A k \in 1..(i - 1) : store[k] # 0
          /\ request' = [request EXCEPT ![c].id = i]
    /\ Goto(c, "minted")
    /\ UNCHANGED <<counter, minted, storeVars, jobVars, got, told>>

\* next_session_id.
NextSessionId(c) ==
    /\ At(c, "arrived", {"open"})
    /\ counter <= MaxSessions
    /\ counter' = counter + 1
    /\ request' = [request EXCEPT ![c].id = counter]
    /\ Goto(c, "minted")
    /\ UNCHANGED <<minted, storeVars, jobVars, got, told>>

\* CapToken::generate: a token nobody has.
Fresh == minted + 1

\* SessionStore::open, with the new token: the object has its first event before
\* anyone can reach it.
Open(c) ==
    /\ pc[c] = "minted"
    /\ minted < MaxSessions
    /\ LET h == Fresh
           i == request[c].id
       IN /\ minted' = h
          /\ store' = [store EXCEPT ![i] = h]
          /\ idOf' = [idOf EXCEPT ![h] = i]
          /\ log' = [log EXCEPT ![h] = <<[kind |-> "SessionOpened"]>>]
    /\ Reply(c, "ok", <<>>)
    /\ UNCHANGED <<counter, jobVars, got, told>>

-----------------------------------------------------------------------------
(* Sessions, once authorized *)

\* Mutant of RecordAudit: the log keeps the last three events.
RecordAuditCapped(h, event) ==
    log' = [log EXCEPT ![h] = Append(IF Len(@) > 2 THEN Tail(@) ELSE @, event)]

\* Session::record_audit, under the session's write lock.
RecordAudit(h, event) == log' = [log EXCEPT ![h] = Append(@, event)]

\* Mutant of TakeOut: the session is looked up, and left in the map.
TakeOutNothing(c) ==
    /\ At(c, "authorized", {"close"})
    /\ store[request[c].id] # 0
    /\ got' = [got EXCEPT ![c] = store[request[c].id]]
    /\ Goto(c, "closing")
    /\ UNCHANGED <<counter, minted, storeVars, jobVars, request, told>>

\* SessionStore::close takes the session out of the map, if it is still there ...
TakeOut(c) ==
    /\ At(c, "authorized", {"close"})
    /\ store[request[c].id] # 0
    /\ got' = [got EXCEPT ![c] = store[request[c].id]]
    /\ store' = [store EXCEPT ![request[c].id] = 0]
    /\ Goto(c, "closing")
    /\ UNCHANGED <<counter, minted, idOf, log, jobVars, request, told>>

\* ... and then records SessionClosed on it.
RecordClosed(c) ==
    /\ pc[c] = "closing"
    /\ RecordAudit(got[c], [kind |-> "SessionClosed"])
    /\ Reply(c, "ok", <<>>)
    /\ told' = [told EXCEPT !.closed = @ \cup {got[c]}]
    /\ UNCHANGED <<counter, minted, store, idOf, jobVars, got>>

\* SessionStore::get in session_audit, authenticated_session_capabilities, and start.
Lookup(c) ==
    /\ At(c, "authorized", {"audit", "index", "start"})
    /\ store[request[c].id] # 0
    /\ got' = [got EXCEPT ![c] = store[request[c].id]]
    /\ Goto(c, "holding")
    /\ UNCHANGED <<counter, minted, storeVars, jobVars, request, told>>

\* The session was closed since it was authorized; the engine has its own error.
Gone(c) ==
    /\ At(c, "authorized", {"close", "audit", "index", "start"})
    /\ store[request[c].id] = 0
    /\ Fail(c, IF request[c].method = "start" THEN "notFound" ELSE "unauthorized")

\* session_audit: the events are cloned under the read lock.
ReadAudit(c) ==
    /\ At(c, "holding", {"audit"})
    /\ Reply(c, "ok", log[got[c]])
    /\ UNCHANGED <<counter, minted, storeVars, jobVars, got, told>>

\* index and describe, within the grants of the session; a name may not be found.
ReadCatalog(c) ==
    /\ At(c, "holding", {"index"})
    /\ \E code \in {"ok", "notFound"} : Reply(c, code, <<>>)
    /\ UNCHANGED <<counter, minted, storeVars, jobVars, got, told>>

-----------------------------------------------------------------------------
(* Jobs *)

\* A check of start fails, or the spawn does.
StartRefused(c) == At(c, "holding", {"start"}) /\ Fail(c, "refused")

\* Mutant of StartInsert: the answer comes first.
StartInsertAnswers(c, j) ==
    /\ At(c, "holding", {"start"})
    /\ drainer[j] = "none"
    /\ owner' = [owner EXCEPT ![j] = request[c].id]
    /\ starter' = [starter EXCEPT ![j] = request[c].token]
    /\ drainer' = [drainer EXCEPT ![j] = "running"]
    /\ Reply(c, "ok", <<>>)
    /\ told' = [told EXCEPT !.started = @ \cup {j}]
    /\ UNCHANGED <<counter, minted, storeVars, held, got>>

\* The job is in the store, under an id of its own.
StartInsert(c, j) ==
    /\ At(c, "holding", {"start"})
    /\ drainer[j] = "none"
    /\ owner' = [owner EXCEPT ![j] = request[c].id]
    /\ starter' = [starter EXCEPT ![j] = request[c].token]
    /\ drainer' = [drainer EXCEPT ![j] = "starting"]
    /\ request' = [request EXCEPT ![c].job = {j}]
    /\ Goto(c, "inserted")
    /\ UNCHANGED <<counter, minted, storeVars, held, got, told>>

Launch(c) ==
    /\ \E j \in request[c].job :
          /\ drainer' = [drainer EXCEPT ![j] = "running"]
          /\ told' = [told EXCEPT !.started = @ \cup {j}]
    /\ Reply(c, "ok", <<>>)
    /\ UNCHANGED <<counter, minted, store, idOf, owner, held, starter, got>>

\* record_session_audit looks the session up again; if it is gone, JobStarted is
\* not recorded and the drainer is launched all the same.
StartGone(c) ==
    /\ pc[c] = "inserted"
    /\ store[request[c].id] = 0
    /\ Launch(c)
    /\ UNCHANGED log

StartLookup(c) ==
    /\ pc[c] = "inserted"
    /\ store[request[c].id] # 0
    /\ got' = [got EXCEPT ![c] = store[request[c].id]]
    /\ Goto(c, "recording")
    /\ UNCHANGED <<counter, minted, storeVars, jobVars, request, told>>

StartRecord(c) ==
    /\ pc[c] = "recording"
    /\ \E j \in request[c].job : RecordAudit(got[c], [kind |-> "JobStarted", job |-> j])
    /\ Launch(c)

\* Mutant of Owned: the session of the job is not compared.
OwnedByAnyone(i, j) == owner[j] # 0

\* lookup_owned.
Owned(i, j) == owner[j] # 0 /\ owner[j] = i

\* job.status, job.cancel and attach: the session is not looked at any more.
QueryJob(c) ==
    /\ At(c, "authorized", {"query"})
    /\ \E j \in request[c].job :
          Reply(c, IF Owned(request[c].id, j) THEN "ok" ELSE "notFound", <<>>)
    /\ UNCHANGED <<counter, minted, storeVars, jobVars, got, told>>

\* finish_job: the status is terminal, the audit comes later.
Finish(j) ==
    /\ drainer[j] = "running"
    /\ drainer' = [drainer EXCEPT ![j] = "finishing"]
    /\ UNCHANGED <<counter, minted, storeVars, owner, held, starter, requestVars>>

FinishLookup(j) ==
    /\ drainer[j] = "finishing"
    /\ held' = [held EXCEPT ![j] = store[owner[j]]]
    /\ drainer' = [drainer EXCEPT ![j] = IF store[owner[j]] = 0 THEN "done" ELSE "recording"]
    /\ UNCHANGED <<counter, minted, storeVars, owner, starter, requestVars>>

FinishRecord(j) ==
    /\ drainer[j] = "recording"
    /\ RecordAudit(held[j], [kind |-> "JobFinished", job |-> j])
    /\ drainer' = [drainer EXCEPT ![j] = "done"]
    /\ UNCHANGED <<counter, minted, store, idOf, owner, held, starter, requestVars>>

-----------------------------------------------------------------------------

\* What a client may ask for.  An open names no session, a job query names a job.
Asked ==
    {r \in Request :
        /\ (r.method = "open") = (r.id = 0)
        /\ r.method = "open" => r.token = 0
        /\ (r.method = "query") = (r.job # {})}

Handle(c) ==
    \/ \E r \in Asked : Send(c, r)
    \/ Authorize(c)
    \/ OpenRefused(c) \/ NextSessionId(c) \/ Open(c)
    \/ TakeOut(c) \/ RecordClosed(c)
    \/ Lookup(c) \/ Gone(c) \/ ReadAudit(c) \/ ReadCatalog(c)
    \/ StartRefused(c) \/ (\E j \in Job : StartInsert(c, j))
    \/ StartGone(c) \/ StartLookup(c) \/ StartRecord(c)
    \/ QueryJob(c)

Drain(j) == Finish(j) \/ FinishLookup(j) \/ FinishRecord(j)

Next == (\E c \in Client : Handle(c)) \/ (\E j \in Job : Drain(j))

Spec == Init /\ [][Next]_vars

-----------------------------------------------------------------------------
(* Properties *)

Answered(c, methods) == At(c, "answered", methods)

\* A request sent after a close was answered is refused (handlers.rs, session_close:
\* "subsequent authenticated calls with the same session id and token fail
\* authorization").
ClosedIsClosed ==
    \A c \in Client :
        Answered(c, Method \ {"open"}) /\ request[c].token \in heard[c].closed
            => answer[c].code = "unauthorized"

Opened == [kind |-> "SessionOpened"]
Closed == [kind |-> "SessionClosed"]

\* A client with the token of a session is refused only when somebody with that
\* token has closed the session (handlers.rs, require_authorized_session;
\* state.rs, next_session_id: no other open takes the id over).
RefusedOnlyAfterClose ==
    \A c \in Client, h \in Object :
        /\ Answered(c, Method \ {"open"})
        /\ answer[c].code = "unauthorized"
        /\ request[c].token = h
        /\ request[c].id = idOf[h]
        => \/ Closed \in ToSet(log[h])
           \/ \E d \in Client : pc[d] = "closing" /\ got[d] = h

\* Handlers authorize an id and look it up later: the object they get is that of the
\* token, and a job they answer about was started with it (handlers.rs, engine.rs,
\* lookup_owned).
SessionsKeepApart ==
    /\ \A c \in Client :
          /\ got[c] # 0 => got[c] = request[c].token
          /\ Answered(c, {"query"}) /\ answer[c].code = "ok"
                => \A j \in request[c].job : starter[j] = request[c].token
    /\ \A j \in Job : held[j] # 0 => held[j] = starter[j]

Positions(h, event) == {n \in DOMAIN log[h] : log[h][n] = event}
Started(j) == [kind |-> "JobStarted", job |-> j]
Finished(j) == [kind |-> "JobFinished", job |-> j]

\* The log of a session opens once, closes at most once however many close it at a
\* time, and tells of each of its jobs in order; behind the end is at most one late
\* event of a job (session.rs, close; engine.rs, record_session_audit).
LogIsOrdered ==
    \A h \in Object :
        /\ Positions(h, Opened) = (IF h <= minted THEN {1} ELSE {})
        /\ Cardinality(Positions(h, Closed)) <= 1
        /\ \A j \in Job :
              LET events == Positions(h, Started(j)) \cup Positions(h, Finished(j))
              IN /\ Cardinality(Positions(h, Started(j))) <= 1
                 /\ Cardinality(Positions(h, Finished(j))) <= 1
                 /\ \A m \in Positions(h, Finished(j)) :
                       \E n \in Positions(h, Started(j)) : n < m
                 /\ \A n \in Positions(h, Closed) :
                       Cardinality({m \in events : m > n}) <= 1
                 /\ events # {} => starter[j] = h

\* Once a start is answered, a later audit of the session has the job (engine.rs,
\* start: JobStarted before the drainer is launched).
StartedIsAudited ==
    \A c \in Client :
        Answered(c, {"audit"}) /\ answer[c].code = "ok"
            => \A j \in heard[c].started : Started(j) \in ToSet(answer[c].log)

=============================================================================
