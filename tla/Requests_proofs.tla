-------------------------- MODULE Requests_proofs --------------------------
(***************************************************************************)
(* Theorems about the requests over sessions, for any clients, jobs and    *)
(* number of sessions.                                                     *)
(*                                                                         *)
(* The invariant has eight parts: Names says which ids and tokens have     *)
(* been handed out, Handlers what a handler knows that has passed a check, *)
(* Jobs ties a job to the session that started it, Closes says what has    *)
(* become of a session that is not in the map any more, and Starts where   *)
(* the JobStarted of an answered start is; Logs says in what order events  *)
(* stand in a log, ClosesOnce why SessionClosed is new to it, and          *)
(* JobsInLog which events of a job are there as its drainer goes on.       *)
(***************************************************************************)
EXTENDS Requests, FiniteSetTheorems, TLAPS

NotStored(h) == \A i \in Id : store[i] # h

\* An id is that of one object at most, and of none while its open is under way.
Names ==
    /\ \A h \in Object : h <= minted <=> idOf[h] # 0
    /\ \A h \in Object : idOf[h] < counter
    /\ \A g, h \in Object : idOf[g] = idOf[h] /\ idOf[g] # 0 => g = h
    /\ \A i \in Id : store[i] # 0 => idOf[store[i]] = i
    /\ \A c \in Client : pc[c] = "minted" =>
          /\ request[c].method = "open"
          /\ request[c].id # 0 /\ request[c].id < counter
          /\ \A h \in Object : idOf[h] # request[c].id
    /\ \A c, d \in Client :
          pc[c] = "minted" /\ pc[d] = "minted" /\ request[c].id = request[d].id => c = d

Passed == {"authorized", "holding", "closing", "inserted", "recording"}

\* Past require_authorized_session, the token is that of the id for good.
Handlers ==
    \A c \in Client :
        /\ request[c].method = "open" => request[c].token = 0
        /\ request[c].token <= minted
        /\ pc[c] \in Passed => /\ request[c].method # "open"
                               /\ request[c].token # 0 /\ request[c].id # 0
                               /\ idOf[request[c].token] = request[c].id
        /\ got[c] # 0 => got[c] = request[c].token
        /\ pc[c] = "closing" => request[c].method = "close"
        /\ pc[c] \in {"inserted", "recording"} => request[c].method = "start"

Drainer == {"none", "starting", "running", "finishing", "recording", "done"}

Inserted(c) == pc[c] \in {"inserted", "recording"}

JobOwner(j) ==
    /\ owner[j] = 0 <=> drainer[j] = "none"
    /\ owner[j] # 0 => /\ starter[j] # 0
                       /\ starter[j] <= minted
                       /\ idOf[starter[j]] = owner[j]
    /\ held[j] # 0 => owner[j] # 0 /\ held[j] = starter[j]

Starting(c) ==
    \E j \in Job : /\ request[c].job = {j}
                   /\ drainer[j] = "starting"
                   /\ starter[j] = request[c].token

StartedBy(c) == \A j \in request[c].job : owner[j] # 0 /\ starter[j] = request[c].token

Jobs ==
    /\ \A j \in Job : JobOwner(j)
    /\ \A c \in Client : Inserted(c) => Starting(c)
    /\ \A c, d \in Client :
          Inserted(c) /\ Inserted(d) /\ request[c].job = request[d].job => c = d
    /\ \A c \in Client : Answered(c, {"query"}) /\ answer[c].code = "ok" => StartedBy(c)

Shut(h) ==
    \/ Closed \in ToSet(log[h])
    \/ \E d \in Client : pc[d] = "closing" /\ got[d] = h

\* A session that is not in the map has been closed, or is being closed.
Closes ==
    /\ \A h \in told.closed : h <= minted /\ NotStored(h)
    /\ \A c \in Client : pc[c] = "closing" => NotStored(got[c])
    /\ \A c \in Client : heard[c].closed \subseteq told.closed
    /\ \A c \in Client : request[c].token \in heard[c].closed =>
          pc[c] \in {"idle", "arrived", "answered"}
    /\ \A h \in 1..minted : store[idOf[h]] = h \/ Shut(h)

\* The JobStarted of an answered start is in the log of its session, unless the
\* session was closed before it could be recorded.
Starts ==
    /\ \A j \in told.started :
          /\ drainer[j] \notin {"none", "starting"}
          /\ Started(j) \in ToSet(log[starter[j]]) \/ NotStored(starter[j])
    /\ \A c \in Client : \A j \in heard[c].started :
          j \in told.started /\ starter[j] = request[c].token
    /\ \A c \in Client : At(c, "holding", {"audit"}) =>
          \A j \in heard[c].started : Started(j) \in ToSet(log[got[c]])

\* JobStarted of the job j is in the log s, before any SessionClosed.
InTime(s, j) ==
    \E n \in DOMAIN s : s[n] = Started(j) /\ \A k \in DOMAIN s : s[k] = Closed => n < k

\* No event is in a log twice, and what finished there had started there, in time.
WellOrdered(s) ==
    /\ \A m, n \in DOMAIN s : s[m] = s[n] => m = n
    /\ \A j \in Job : \A m \in DOMAIN s : s[m] = Finished(j) =>
          \E n \in DOMAIN s : /\ n < m /\ s[n] = Started(j)
                              /\ \A k \in DOMAIN s : s[k] = Closed => n < k

Logs ==
    /\ \A h \in Object : WellOrdered(log[h])
    /\ \A h \in Object : h > minted => log[h] = <<>>
    /\ \A h \in 1..minted : 1 \in DOMAIN log[h] /\ log[h][1] = Opened

\* A session is taken out of the map once, and its SessionClosed is yet to come.
ClosesOnce ==
    /\ \A c \in Client : pc[c] = "closing" => Closed \notin ToSet(log[got[c]])
    /\ \A c, d \in Client : pc[c] = "closing" /\ pc[d] = "closing" /\ got[c] = got[d] => c = d
    /\ \A i \in Id : store[i] # 0 => ~Shut(store[i])

\* The events of a job are in the log of its session, as far as its drainer is, and
\* a drainer that finds the session in the map finds JobStarted there.
Logged(j) ==
    /\ \A h \in Object : Started(j) \in ToSet(log[h]) =>
          starter[j] = h /\ drainer[j] \notin {"none", "starting"}
    /\ \A h \in Object : Finished(j) \in ToSet(log[h]) => starter[j] = h /\ drainer[j] = "done"
    /\ drainer[j] \in {"running", "finishing"} =>
          Started(j) \in ToSet(log[starter[j]]) \/ NotStored(starter[j])
    /\ drainer[j] = "recording" => InTime(log[starter[j]], j)

JobsInLog == \A j \in Job : Logged(j)

RequestsInv ==
    /\ Names /\ Handlers /\ Jobs
    /\ Closes /\ ClosedIsClosed /\ RefusedOnlyAfterClose
    /\ Starts /\ StartedIsAudited
    /\ Logs /\ ClosesOnce /\ JobsInLog

-----------------------------------------------------------------------------
(* The initial state *)

\* A server that has just come up has no sessions, and its clients have asked nothing.
LEMMA InitInv == Init => TypeOK /\ RequestsInv
  <1> SUFFICES ASSUME Init PROVE TypeOK /\ RequestsInv
    OBVIOUS
  <1>1. MaxSessions \in Nat /\ MaxSessions > 0
    BY RequestsAssumption
  <1>2. TypeOK
    <2>1. NoJobNamed \in Request
      BY <1>1 DEF NoJobNamed, Request, Method
    <2>2. NoAnswer \in [code : Code, log : Seq(AuditEvent)]
      BY DEF NoAnswer, Code
    <2>3. NothingTold \in Told
      BY DEF NothingTold, Told
    <2>4. counter \in 1..(MaxSessions + 1) /\ minted \in 0..MaxSessions
      BY <1>1 DEF Init
    <2>5. 0 \in 0..MaxSessions /\ <<>> \in Seq(AuditEvent)
      BY <1>1
    <2> QED
      BY <2>1, <2>2, <2>3, <2>4, <2>5 DEF Init, TypeOK, PC
  <1>3. Names
    BY <1>1 DEF Init, Names, Id, Object
  <1>4. Handlers
    BY DEF Init, Handlers, Passed, NoJobNamed
  <1>5. Jobs
    BY DEF Init, Jobs, JobOwner, Inserted, Answered, At
  <1>6. Closes /\ ClosedIsClosed /\ RefusedOnlyAfterClose
    BY DEF Init, Closes, ClosedIsClosed, RefusedOnlyAfterClose, NothingTold,
       Answered, At
  <1>7. Starts /\ StartedIsAudited
    BY DEF Init, Starts, StartedIsAudited, NothingTold, Answered, At
  <1>8. Logs /\ ClosesOnce /\ JobsInLog
    <2>1. /\ \A h \in Object : log[h] = <<>> /\ ToSet(log[h]) = {}
          /\ \A i \in Id : store[i] = 0
          /\ minted = 0 /\ 1..0 = {}
      BY DEF Init, ToSet
    <2>2. Logs
      BY <2>1 DEF Logs, WellOrdered
    <2>3. ClosesOnce
      BY <2>1 DEF Init, ClosesOnce
    <2>4. JobsInLog
      BY <2>1 DEF Init, JobsInLog, Logged
    <2> QED
      BY <2>2, <2>3, <2>4
  <1> QED
    BY <1>2, <1>3, <1>4, <1>5, <1>6, <1>7, <1>8 DEF RequestsInv

-----------------------------------------------------------------------------
(* Fields *)

\* The types of what a request is made of.
LEMMA Fields ==
    ASSUME TypeOK
    PROVE  /\ MaxSessions \in Nat /\ counter \in Nat \ {0}
           /\ minted \in Nat /\ minted <= MaxSessions
           /\ store \in [Id -> 0..MaxSessions] /\ idOf \in [Object -> 0..MaxSessions]
           /\ \A n \in 0..MaxSessions : n \in Nat /\ (n # 0 => n \in Id)
           /\ \A c \in Client :
                 /\ request[c].method \in Method
                 /\ request[c].id \in 0..MaxSessions
                 /\ request[c].token \in 0..MaxSessions
                 /\ request[c].job \in {{}} \cup {{j} : j \in Job}
                 /\ got[c] \in 0..MaxSessions
           /\ \A j \in Job : owner[j] \in 0..MaxSessions /\ starter[j] \in 0..MaxSessions
           /\ request \in [Client -> Request] /\ pc \in [Client -> PC]
           /\ got \in [Client -> 0..MaxSessions]
           /\ answer \in [Client -> [code : Code, log : Seq(AuditEvent)]]
           /\ drainer \in [Job -> Drainer]
           /\ owner \in [Job -> 0..MaxSessions] /\ starter \in [Job -> 0..MaxSessions]
           /\ held \in [Job -> 0..MaxSessions]
           /\ log \in [Object -> Seq(AuditEvent)] /\ heard \in [Client -> Told]
  <1>1. /\ MaxSessions \in Nat /\ counter \in Nat \ {0}
        /\ minted \in Nat /\ minted <= MaxSessions
    BY RequestsAssumption DEF TypeOK
  <1>2. \A n \in 0..MaxSessions : n \in Nat /\ (n # 0 => n \in Id)
    BY <1>1 DEF Id, Object
  <1>3. ASSUME NEW c \in Client
        PROVE  /\ request[c].method \in Method
               /\ request[c].id \in 0..MaxSessions
               /\ request[c].token \in 0..MaxSessions
               /\ request[c].job \in {{}} \cup {{j} : j \in Job}
    <2>1. request[c] \in Request
      BY DEF TypeOK
    <2> QED
      BY <2>1 DEF Request
  <1> QED
    BY <1>1, <1>2, <1>3 DEF TypeOK, Drainer

\* An id for a request leaves the rest of it alone.
LEMMA IdIsSet ==
    ASSUME TypeOK, NEW c \in Client, NEW i, request' = [request EXCEPT ![c].id = i]
    PROVE  \A d \in Client :
              /\ request'[d].method = request[d].method
              /\ request'[d].token = request[d].token
              /\ request'[d].job = request[d].job
              /\ request'[d].id = (IF d = c THEN i ELSE request[d].id)
              /\ d # c => request'[d] = request[d]
  BY DEF TypeOK, Request

\* A job for a request leaves the rest of it alone.
LEMMA JobIsSet ==
    ASSUME TypeOK, NEW c \in Client, NEW js, request' = [request EXCEPT ![c].job = js]
    PROVE  \A d \in Client :
              /\ request'[d].method = request[d].method
              /\ request'[d].token = request[d].token
              /\ request'[d].id = request[d].id
              /\ request'[d].job = (IF d = c THEN js ELSE request[d].job)
              /\ d # c => request'[d] = request[d]
  BY DEF TypeOK, Request

-----------------------------------------------------------------------------
(* Names *)

\* Every step keeps ids and tokens apart.
LEMMA NamesStep ==
    ASSUME TypeOK, RequestsInv, Next
    PROVE  Names'
  <1> USE DEF Id, Object
  <1>0. Names /\ Handlers /\ Jobs
    BY DEF RequestsInv
  <1>1. ASSUME NEW c \in Client, NextSessionId(c) PROVE Names'
    <2>1. /\ minted' = minted /\ store' = store /\ idOf' = idOf
          /\ counter' = counter + 1 /\ counter \in Nat /\ counter # 0
          /\ request[c].method = "open"
          /\ \A d \in Client : pc'[d] = "minted" => d = c \/ pc[d] = "minted"
      BY <1>1, Fields DEF NextSessionId, Goto, storeVars, At
    <2>2. \A d \in Client :
             /\ request'[d].method = request[d].method
             /\ request'[d].id = (IF d = c THEN counter ELSE request[d].id)
      <3>1. request' = [request EXCEPT ![c].id = counter]
        BY <1>1 DEF NextSessionId
      <3> QED
        BY <3>1, Fields, IdIsSet
    <2>3. /\ \A h \in Object : idOf[h] < counter /\ idOf[h] \in Nat
          /\ \A d \in Client : request[d].id \in Nat
      BY <1>0, Fields DEF Names
    <2>4. /\ \A d \in Client : pc'[d] = "minted" =>
                /\ request'[d].method = "open"
                /\ request'[d].id # 0 /\ request'[d].id < counter'
                /\ \A h \in Object : idOf'[h] # request'[d].id
      BY <1>0, <2>1, <2>2, <2>3 DEF Names
    <2>5. ASSUME NEW d \in Client, NEW e \in Client, pc'[d] = "minted", pc'[e] = "minted",
                 request'[d].id = request'[e].id
          PROVE  d = e
      BY <1>0, <2>1, <2>2, <2>3, <2>5 DEF Names
    <2>6. \A h \in Object : idOf[h] < counter'
      BY <2>1, <2>3
    <2> QED
      BY <1>0, <2>1, <2>4, <2>5, <2>6 DEF Names
  <1>2. ASSUME NEW c \in Client, Open(c) PROVE Names'
    <2> DEFINE h == minted + 1
               i == request[c].id
    <2>1. /\ h \in Object /\ i \in Id /\ minted' = h /\ counter' = counter
          /\ store' = [store EXCEPT ![i] = h] /\ idOf' = [idOf EXCEPT ![h] = i]
          /\ request' = request /\ i < counter /\ \A g \in Object : idOf[g] # i
          /\ pc' = [pc EXCEPT ![c] = "answered"]
      <3>1. /\ minted' = h /\ counter' = counter /\ minted < MaxSessions
            /\ store' = [store EXCEPT ![i] = h] /\ idOf' = [idOf EXCEPT ![h] = i]
            /\ request' = request /\ pc[c] = "minted"
            /\ pc' = [pc EXCEPT ![c] = "answered"]
        BY <1>2 DEF Open, Fresh, Reply
      <3>2. i # 0 /\ i < counter /\ \A g \in Object : idOf[g] # i
        BY <1>0, <3>1 DEF Names
      <3>3. h \in Object /\ i \in Id
        BY <3>1, <3>2, Fields
      <3> QED
        BY <3>1, <3>2, <3>3
    <2>2. \A d \in Client : pc'[d] = "minted" => d # c /\ pc[d] = "minted" /\ request[d].id # i
      BY <1>0, <1>2, <2>1, Fields DEF Names, Open
    <2> HIDE DEF i
    <2>3. \A g \in Object : idOf'[g] = IF g = h THEN i ELSE idOf[g]
      BY <2>1, Fields
    <2>4. i # 0 /\ i < counter /\ \A g \in Object : idOf[g] # i
      BY <2>1 DEF Id
    <2>5. \A g \in Object : g <= minted' <=> idOf'[g] # 0
      <3>1. \A g \in Object : g <= minted <=> idOf[g] # 0
        BY <1>0 DEF Names
      <3>2. \A g \in Object : g <= minted' <=> g = h \/ g <= minted
        BY <2>1, Fields DEF Object
      <3> QED
        BY <2>3, <2>4, <3>1, <3>2
    <2> HIDE DEF h
    <2>6. \A g \in Object : idOf'[g] < counter'
      <3>1. \A g \in Object : idOf[g] < counter
        BY <1>0 DEF Names
      <3> QED
        BY <2>1, <2>3, <2>4, <3>1
    <2>7. \A f, g \in Object : idOf'[f] = idOf'[g] /\ idOf'[f] # 0 => f = g
      <3>1. \A f, g \in Object : idOf[f] = idOf[g] /\ idOf[f] # 0 => f = g
        BY <1>0 DEF Names
      <3> QED
        BY <2>3, <2>4, <3>1
    <2>8. \A k \in Id : store'[k] # 0 => idOf'[store'[k]] = k
      <3>1. /\ \A k \in Id : store[k] # 0 => idOf[store[k]] = k
            /\ \A k \in Id : store[k] # 0 => store[k] \in Object
        BY <1>0, Fields DEF Names, Object
      <3>2. \A k \in Id : store'[k] = IF k = i THEN h ELSE store[k]
        BY <2>1, Fields
      <3>3. ASSUME NEW k \in Id, store'[k] # 0 PROVE idOf'[store'[k]] = k
        <4>1. CASE k = i
          BY <2>1, <2>3, <3>2, <4>1
        <4>2. CASE k # i
          <5>1. store'[k] = store[k] /\ store[k] \in Object /\ idOf[store[k]] = k
            BY <3>1, <3>2, <3>3, <4>2
          <5>2. k # 0 /\ idOf[h] = 0
            <6>1. ~(h <= minted)
              BY Fields DEF h
            <6> QED
              BY <1>0, <2>1, <6>1 DEF Names, Id
          <5> QED
            BY <2>3, <5>1, <5>2
        <4> QED
          BY <4>1, <4>2
      <3> QED
        BY <3>3
    <2>9. \A d \in Client : pc'[d] = "minted" =>
             /\ request'[d].method = "open"
             /\ request'[d].id # 0 /\ request'[d].id < counter'
             /\ \A g \in Object : idOf'[g] # request'[d].id
      BY <1>0, <2>1, <2>2, Fields DEF Names
    <2>10. \A d, e \in Client :
             pc'[d] = "minted" /\ pc'[e] = "minted" /\ request'[d].id = request'[e].id => d = e
      BY <1>0, <2>1, <2>2 DEF Names
    <2> QED
      BY <2>5, <2>6, <2>7, <2>8, <2>9, <2>10 DEF Names
  <1>3. ASSUME NEW c \in Client, TakeOut(c) PROVE Names'
    BY <1>0, <1>3, Fields DEF TakeOut, Names, Goto
  <1>4. ASSUME UNCHANGED <<counter, minted, store, idOf>>,
               \A c \in Client : pc'[c] = "minted" => pc[c] = "minted" /\ request'[c] = request[c]
        PROVE  Names'
    BY <1>0, <1>4 DEF Names
  <1>5. ASSUME NEW c \in Client, Handle(c), ~NextSessionId(c), ~Open(c), ~TakeOut(c)
        PROVE  Names'
    BY <1>4, <1>5, Fields DEF Handle, Send, Authorize, OpenRefused, RecordClosed,
       Lookup, Gone, ReadAudit, ReadCatalog, StartRefused, StartInsert, StartGone,
       StartLookup, StartRecord, QueryJob, Launch, Fail, Reply, Goto, storeVars
  <1>6. ASSUME NEW j \in Job, Drain(j) PROVE Names'
    BY <1>4, <1>6 DEF Drain, Finish, FinishLookup, FinishRecord, storeVars, requestVars
  <1> QED
    BY <1>1, <1>2, <1>3, <1>5, <1>6 DEF Next

-----------------------------------------------------------------------------
(* Handlers *)

\* Every step keeps a handler at the session of its token.
LEMMA HandlersStep ==
    ASSUME TypeOK, RequestsInv, Next
    PROVE  Handlers'
  <1> USE DEF Id, Object
  <1>0. Names /\ Handlers /\ Jobs
    BY DEF RequestsInv
  <1>1. ASSUME NEW c \in Client, NEW r \in Asked, Send(c, r) PROVE Handlers'
    BY <1>0, <1>1, Fields DEF Send, Handlers, Names, Asked, Request, Passed, storeVars
  <1>2. ASSUME NEW c \in Client, Authorize(c) PROVE Handlers'
    <2>1. /\ minted' = minted /\ idOf' = idOf /\ request' = request /\ got' = got
          /\ request[c].method # "open"
          /\ \/ pc' = [pc EXCEPT ![c] = "authorized"] /\ Authorized(request[c].id, request[c].token)
             \/ pc' = [pc EXCEPT ![c] = "answered"]
      BY <1>2 DEF Authorize, Fail, Reply, Goto, At, storeVars
    <2>2. Authorized(request[c].id, request[c].token) =>
             request[c].token # 0 /\ request[c].id # 0 /\ idOf[request[c].token] = request[c].id
      BY <1>0, Fields DEF Authorized, Verify, Names
    <2>3. pc \in [Client -> PC]
      BY Fields
    <2> QED
      BY <1>0, <2>1, <2>2, <2>3 DEF Handlers, Passed
  <1>3. ASSUME NEW c \in Client, NextSessionId(c) PROVE Handlers'
    <2>1. /\ request' = [request EXCEPT ![c].id = counter]
          /\ request[c].method = "open" /\ pc' = [pc EXCEPT ![c] = "minted"]
          /\ minted' = minted /\ idOf' = idOf /\ got' = got
      BY <1>3 DEF NextSessionId, Goto, At, storeVars
    <2>2. pc \in [Client -> PC]
      BY Fields
    <2>3. \A d \in Client :
             /\ request'[d].method = request[d].method
             /\ request'[d].token = request[d].token
             /\ d # c => request'[d].id = request[d].id
      BY <2>1, IdIsSet
    <2> QED
      BY <1>0, <2>1, <2>2, <2>3 DEF Handlers, Passed
  <1>4. ASSUME NEW c \in Client, Open(c) PROVE Handlers'
    <2> DEFINE h == minted + 1
               i == request[c].id
    <2>1. /\ h \in Object /\ minted' = h /\ request' = request /\ got' = got
          /\ idOf' = [idOf EXCEPT ![h] = i] /\ pc' = [pc EXCEPT ![c] = "answered"]
      BY <1>4, Fields DEF Open, Fresh, Reply, Object
    <2>2. ASSUME NEW d \in Client, pc'[d] # "answered" PROVE pc'[d] = pc[d]
      BY <2>1, <2>2, Fields
    <2>3. \A g \in Object : g <= minted => idOf'[g] = idOf[g]
      BY <2>1, Fields DEF Object
    <2>4. \A d \in Client : request[d].token # 0 /\ request[d].token <= minted
                             => request[d].token \in Object
      BY Fields DEF Object, Id
    <2>5. \A d \in Client : request[d].token <= minted => request[d].token <= h
      BY Fields
    <2> HIDE DEF h, i
    <2>6. \A d \in Client :
             pc'[d] \in Passed => /\ request[d].method # "open"
                                  /\ request[d].token # 0 /\ request[d].id # 0
                                  /\ idOf'[request[d].token] = request[d].id
      BY <1>0, <2>2, <2>3, <2>4 DEF Handlers, Passed
    <2> QED
      BY <1>0, <2>1, <2>2, <2>5, <2>6 DEF Handlers
  <1>5. ASSUME NEW c \in Client, TakeOut(c) \/ Lookup(c) \/ StartLookup(c) PROVE Handlers'
    <2>1. /\ minted' = minted /\ idOf' = idOf /\ request' = request
          /\ got' = [got EXCEPT ![c] = store[request[c].id]]
          /\ store[request[c].id] # 0
          /\ pc[c] \in {"authorized", "inserted"}
          /\ \/ pc' = [pc EXCEPT ![c] = "closing"] /\ request[c].method = "close"
             \/ pc' = [pc EXCEPT ![c] = "holding"]
             \/ pc' = [pc EXCEPT ![c] = "recording"] /\ pc[c] = "inserted"
      BY <1>5, Fields DEF TakeOut, Lookup, StartLookup, Goto, At, storeVars
    <2>2. store[request[c].id] = request[c].token
      <3> DEFINE i == request[c].id
      <3>0. /\ request[c].token # 0 /\ i # 0 /\ idOf[request[c].token] = i
            /\ i \in 0..MaxSessions /\ request[c].token \in 0..MaxSessions
        BY <1>0, <2>1, Fields DEF Handlers, Passed
      <3>1. i \in Id /\ request[c].token \in Object /\ idOf[request[c].token] = i
        BY <3>0, Fields
      <3>2. store[i] \in Object /\ idOf[store[i]] = i /\ i # 0
        <4>1. store[i] \in 0..MaxSessions /\ store[i] # 0
          BY <2>1, <3>1, Fields
        <4> QED
          BY <1>0, <3>0, <3>1, <4>1, Fields DEF Names
      <3> QED
        BY <1>0, <3>1, <3>2 DEF Names
    <2>3. pc \in [Client -> PC] /\ got \in [Client -> 0..MaxSessions]
      BY Fields
    <2> QED
      BY <1>0, <2>1, <2>2, <2>3 DEF Handlers, Passed
  <1>6. ASSUME NEW c \in Client, NEW j \in Job, StartInsert(c, j) PROVE Handlers'
    <2>1. /\ request' = [request EXCEPT ![c].job = {j}]
          /\ pc[c] = "holding" /\ request[c].method = "start"
          /\ pc' = [pc EXCEPT ![c] = "inserted"]
          /\ minted' = minted /\ idOf' = idOf /\ got' = got
      BY <1>6 DEF StartInsert, Goto, At, storeVars
    <2>2. pc \in [Client -> PC]
      BY Fields
    <2>3. \A d \in Client :
             /\ request'[d].method = request[d].method
             /\ request'[d].token = request[d].token
             /\ request'[d].id = request[d].id
      BY <2>1, JobIsSet
    <2> QED
      BY <1>0, <2>1, <2>2, <2>3 DEF Handlers, Passed
  <1>7. ASSUME UNCHANGED <<minted, idOf, request, got>>,
               \A c \in Client : pc'[c] = pc[c] \/ pc'[c] = "answered"
        PROVE  Handlers'
    BY <1>0, <1>7 DEF Handlers, Passed
  <1>8. ASSUME NEW c \in Client,
               \/ OpenRefused(c) \/ RecordClosed(c) \/ Gone(c) \/ ReadAudit(c)
               \/ ReadCatalog(c) \/ StartRefused(c) \/ StartGone(c) \/ StartRecord(c)
               \/ QueryJob(c)
        PROVE  Handlers'
    BY <1>7, <1>8, Fields DEF OpenRefused, RecordClosed, Gone, ReadAudit,
       ReadCatalog, StartRefused, StartGone, StartRecord, QueryJob, Launch, Fail, Reply,
       storeVars
  <1>9. ASSUME NEW j \in Job, Drain(j) PROVE Handlers'
    BY <1>7, <1>9, Fields DEF Drain, Finish, FinishLookup, FinishRecord, storeVars,
       requestVars
  <1> QED
    BY <1>1, <1>2, <1>3, <1>4, <1>5, <1>6, <1>8, <1>9 DEF Next, Handle

-----------------------------------------------------------------------------
(* Jobs *)

\* Every step keeps a job with the session that started it.
LEMMA JobsStep ==
    ASSUME TypeOK, RequestsInv, Next
    PROVE  Jobs'
  <1> USE DEF Id, Object
  <1>0. Names /\ Handlers /\ Jobs
    BY DEF RequestsInv
  <1> DEFINE QueryOk(c) == Answered(c, {"query"}) /\ answer[c].code = "ok"
  \* What changes neither jobs nor whom they belong to.
  <1>1. ASSUME UNCHANGED jobVars, minted <= minted', minted' \in Nat,
               \A h \in Object : h <= minted => idOf'[h] = idOf[h],
               \A c \in Client :
                  /\ Inserted(c)' => Inserted(c) /\ request'[c] = request[c]
                  /\ QueryOk(c)' =>
                        (QueryOk(c) /\ request'[c] = request[c]) \/ StartedBy(c)'
        PROVE  Jobs'
    <2>1. ASSUME NEW j \in Job PROVE JobOwner(j)'
      BY <1>0, <1>1, Fields DEF Jobs, JobOwner, jobVars
    <2>2. ASSUME NEW c \in Client, Inserted(c)' PROVE Starting(c)'
      BY <1>0, <1>1, <2>2 DEF Jobs, Starting, jobVars
    <2>3. ASSUME NEW c \in Client, NEW d \in Client, Inserted(c)', Inserted(d)',
                 request'[c].job = request'[d].job
          PROVE  c = d
      BY <1>0, <1>1, <2>3 DEF Jobs
    <2>4. ASSUME NEW c \in Client, QueryOk(c)' PROVE StartedBy(c)'
      BY <1>0, <1>1, <2>4 DEF Jobs, StartedBy, jobVars
    <2> QED
      BY <2>1, <2>2, <2>3, <2>4 DEF Jobs
  <1>2. ASSUME NEW c \in Client, NEW r \in Asked, Send(c, r) PROVE Jobs'
    <2>1. UNCHANGED <<jobVars, minted, idOf>> /\ pc'[c] = "arrived"
      BY <1>2, Fields DEF Send, storeVars
    <2>2. \A d \in Client : d # c => /\ pc'[d] = pc[d] /\ request'[d] = request[d]
                                     /\ answer'[d] = answer[d]
      BY <1>2 DEF Send
    <2> QED
      BY <1>1, <2>1, <2>2, Fields DEF Inserted, Answered, At
  <1>3. ASSUME NEW c \in Client, Open(c) PROVE Jobs'
    <2>1. /\ UNCHANGED <<jobVars, request>> /\ minted' = minted + 1
          /\ \A h \in Object : h <= minted => idOf'[h] = idOf[h]
          /\ request[c].method = "open" /\ pc'[c] = "answered"
          /\ \A d \in Client : d # c => pc'[d] = pc[d] /\ answer'[d] = answer[d]
      BY <1>0, <1>3, Fields DEF Open, Fresh, Reply, Names
    <2> QED
      BY <1>1, <2>1, Fields DEF Inserted, Answered, At
  <1>4. ASSUME NEW c \in Client, NextSessionId(c) PROVE Jobs'
    <2>1. UNCHANGED <<jobVars, minted, idOf, answer>> /\ pc'[c] = "minted"
      BY <1>4, Fields DEF NextSessionId, Goto, storeVars
    <2>2. \A d \in Client : d # c => pc'[d] = pc[d] /\ request'[d] = request[d]
      BY <1>4 DEF NextSessionId, Goto
    <2> QED
      BY <1>1, <2>1, <2>2, Fields DEF Inserted, Answered, At
  <1>5. ASSUME NEW c \in Client,
               \/ Authorize(c) \/ OpenRefused(c) \/ TakeOut(c) \/ RecordClosed(c)
               \/ Lookup(c) \/ Gone(c) \/ ReadAudit(c) \/ ReadCatalog(c) \/ StartRefused(c)
               \/ StartLookup(c)
        PROVE  Jobs'
    <2>1. /\ UNCHANGED <<jobVars, minted, idOf, request>>
          /\ pc'[c] # "inserted" /\ (pc'[c] = "recording" => pc[c] = "inserted")
          /\ pc'[c] = "answered" => request[c].method # "query" \/ answer'[c].code = "unauthorized"
          /\ \A d \in Client : d # c => pc'[d] = pc[d] /\ answer'[d] = answer[d]
      BY <1>0, <1>5, Fields DEF Authorize, OpenRefused, TakeOut, RecordClosed,
         Lookup, Gone, ReadAudit, ReadCatalog, StartRefused, StartLookup, Fail, Reply,
         Goto, At, storeVars, Names, Handlers
    <2>2. ASSUME NEW d \in Client
          PROVE  /\ Inserted(d)' => Inserted(d) /\ request'[d] = request[d]
                 /\ QueryOk(d)' => QueryOk(d) /\ request'[d] = request[d]
      <3>1. CASE d = c
        BY <2>1, <3>1 DEF Inserted, Answered, At
      <3>2. CASE d # c
        BY <2>1, <3>2 DEF Inserted, Answered, At
      <3> QED
        BY <3>1, <3>2
    <2> QED
      BY <1>1, <2>1, <2>2, Fields
  <1>6. ASSUME NEW c \in Client, QueryJob(c) PROVE Jobs'
    <2>1. /\ UNCHANGED <<jobVars, minted, idOf, request>> /\ pc'[c] = "answered"
          /\ pc[c] = "authorized"
          /\ \A d \in Client : d # c => pc'[d] = pc[d] /\ answer'[d] = answer[d]
          /\ \E j \in request[c].job :
                answer'[c].code = "ok" => owner[j] # 0 /\ owner[j] = request[c].id
      BY <1>6, Fields DEF QueryJob, Owned, Reply, At, storeVars
    <2>2. ASSUME NEW j \in Job, owner[j] # 0, owner[j] = request[c].id
          PROVE  starter[j] = request[c].token
      <3>1. request[c].token \in Object /\ idOf[request[c].token] = request[c].id
        BY <1>0, <2>1, Fields DEF Handlers, Passed
      <3>2. starter[j] \in Object /\ idOf[starter[j]] = request[c].id
        BY <1>0, <2>2, Fields DEF Jobs, JobOwner
      <3> QED
        BY <1>0, <2>2, <3>1, <3>2 DEF Names
    <2>3. answer'[c].code = "ok" => StartedBy(c)'
      <3>1. PICK j \in request[c].job :
               answer'[c].code = "ok" => owner[j] # 0 /\ owner[j] = request[c].id
        BY <2>1
      <3>2. request[c].job = {j} /\ j \in Job
        <4>1. request[c].job \in {{}} \cup {{k} : k \in Job}
          BY Fields
        <4> QED
          BY <3>1, <4>1
      <3>3. answer'[c].code = "ok" => owner[j] # 0 /\ starter[j] = request[c].token
        BY <2>2, <3>1, <3>2
      <3> QED
        BY <2>1, <3>2, <3>3 DEF StartedBy, jobVars
    <2>4. ASSUME NEW d \in Client
          PROVE  /\ Inserted(d)' => Inserted(d) /\ request'[d] = request[d]
                 /\ QueryOk(d)' => (QueryOk(d) /\ request'[d] = request[d]) \/ StartedBy(d)'
      <3>1. CASE d = c
        BY <2>1, <2>3, <3>1 DEF Inserted, Answered, At
      <3>2. CASE d # c
        BY <2>1, <3>2 DEF Inserted, Answered, At
      <3> QED
        BY <3>1, <3>2
    <2> QED
      BY <1>1, <2>1, <2>4, Fields
  <1>7. ASSUME NEW c \in Client, NEW j \in Job, StartInsert(c, j) PROVE Jobs'
    <2>1. /\ minted' = minted /\ idOf' = idOf /\ held' = held /\ answer' = answer
          /\ owner' = [owner EXCEPT ![j] = request[c].id]
          /\ starter' = [starter EXCEPT ![j] = request[c].token]
          /\ drainer' = [drainer EXCEPT ![j] = "starting"]
          /\ pc' = [pc EXCEPT ![c] = "inserted"]
          /\ pc[c] = "holding" /\ drainer[j] = "none"
      BY <1>7 DEF StartInsert, Goto, At, storeVars
    <2>2. /\ \A d \in Client : d # c => request'[d] = request[d]
          /\ request'[c].job = {j} /\ request'[c].token = request[c].token
      <3>1. request' = [request EXCEPT ![c].job = {j}]
        BY <1>7 DEF StartInsert
      <3> QED
        BY <3>1, Fields, JobIsSet
    <2>3. /\ owner[j] = 0 /\ held[j] = 0 /\ request[c].id # 0 /\ request[c].token # 0
          /\ request[c].token <= minted /\ idOf[request[c].token] = request[c].id
      BY <1>0, <2>1, Fields DEF Jobs, JobOwner, Handlers, Passed
    <2>4. ASSUME NEW k \in Job PROVE JobOwner(k)'
      BY <1>0, <2>1, <2>3, Fields DEF Jobs, JobOwner
    <2>5. ASSUME NEW d \in Client, d # c, Inserted(d)'
          PROVE  Inserted(d) /\ Starting(d) /\ Starting(d)' /\ request'[d].job # {j}
      <3>1. Inserted(d) /\ request'[d] = request[d]
        BY <2>1, <2>2, <2>5, Fields DEF Inserted
      <3>2. PICK k \in Job : /\ request[d].job = {k}
                             /\ drainer[k] = "starting"
                             /\ starter[k] = request[d].token
        BY <1>0, <3>1 DEF Jobs, Starting
      <3>3. k # j
        BY <2>1, <3>2
      <3>4. starter'[k] = starter[k] /\ drainer'[k] = drainer[k]
        BY <2>1, <3>3, Fields
      <3> QED
        BY <3>1, <3>2, <3>3, <3>4 DEF Starting
    <2>6. Starting(c)'
      BY <2>1, <2>2, Fields DEF Starting
    <2>7. ASSUME NEW d \in Client, QueryOk(d)' PROVE StartedBy(d)'
      <3>1. d # c /\ QueryOk(d) /\ request'[d] = request[d]
        BY <2>1, <2>2, <2>7, Fields DEF Answered, At
      <3>2. StartedBy(d)
        BY <1>0, <3>1 DEF Jobs
      <3> QED
        BY <2>1, <2>3, <3>1, <3>2, Fields DEF StartedBy
    <2>8. ASSUME NEW d \in Client, NEW e \in Client, Inserted(d)', Inserted(e)',
                 request'[d].job = request'[e].job
          PROVE  d = e
      BY <1>0, <2>2, <2>5, <2>8 DEF Jobs
    <2> QED
      BY <2>4, <2>5, <2>6, <2>7, <2>8 DEF Jobs
  <1>8. ASSUME NEW c \in Client, StartGone(c) \/ StartRecord(c) PROVE Jobs'
    <2>1. PICK j \in Job : /\ request[c].job = {j}
                           /\ drainer[j] = "starting"
                           /\ starter[j] = request[c].token
      BY <1>0, <1>8 DEF Jobs, Starting, Inserted, StartGone, StartRecord, At
    <2>2. /\ UNCHANGED <<minted, idOf, held, request, owner, starter>>
          /\ drainer' = [drainer EXCEPT ![j] = "running"]
          /\ pc' = [pc EXCEPT ![c] = "answered"]
          /\ \A d \in Client : d # c => answer'[d] = answer[d]
          /\ request[c].method = "start" /\ Inserted(c)
      BY <1>0, <1>8, <2>1, Fields DEF StartGone, StartRecord, Launch, Reply, At,
         Inserted, Handlers
    <2>3. ASSUME NEW k \in Job PROVE JobOwner(k)'
      BY <1>0, <2>1, <2>2, Fields DEF Jobs, JobOwner
    <2>4. ASSUME NEW d \in Client, Inserted(d)'
          PROVE  Inserted(d) /\ Starting(d)'
      <3>1. d # c /\ Inserted(d)
        BY <2>2, <2>4, Fields DEF Inserted
      <3>2. Starting(d) /\ request[d].job # {j}
        BY <1>0, <2>1, <2>2, <3>1 DEF Jobs
      <3> QED
        BY <2>2, <3>1, <3>2, Fields DEF Starting
    <2>5. ASSUME NEW d \in Client, QueryOk(d)' PROVE StartedBy(d)'
      BY <1>0, <2>2, <2>5, Fields DEF Jobs, StartedBy, Answered, At
    <2>6. ASSUME NEW d \in Client, NEW e \in Client, Inserted(d)', Inserted(e)',
                 request'[d].job = request'[e].job
          PROVE  d = e
      BY <1>0, <2>2, <2>4, <2>6 DEF Jobs
    <2> QED
      BY <2>3, <2>4, <2>5, <2>6 DEF Jobs
  <1>9. ASSUME NEW j \in Job, Drain(j) PROVE Jobs'
    <2>1. /\ UNCHANGED <<minted, idOf, owner, starter, requestVars>>
          /\ drainer[j] \in {"running", "finishing", "recording"}
          /\ \E p \in {"finishing", "recording", "done"} : drainer' = [drainer EXCEPT ![j] = p]
          /\ held' = held \/ held' = [held EXCEPT ![j] = store[owner[j]]]
      BY <1>9 DEF Drain, Finish, FinishLookup, FinishRecord, storeVars
    <2>2. owner[j] # 0 /\ (store[owner[j]] # 0 => store[owner[j]] = starter[j])
      <3>1. /\ owner[j] \in Id /\ starter[j] \in Object /\ idOf[starter[j]] = owner[j]
            /\ store[owner[j]] \in 0..MaxSessions
        BY <1>0, <2>1, Fields DEF Jobs, JobOwner
      <3>2. ASSUME store[owner[j]] # 0 PROVE store[owner[j]] = starter[j]
        <4>1. store[owner[j]] \in Object
          BY <3>1, <3>2, Fields
        <4>2. idOf[store[owner[j]]] = owner[j] /\ owner[j] # 0
          BY <1>0, <3>1, <3>2 DEF Names
        <4> QED
          BY <1>0, <3>1, <4>1, <4>2 DEF Names
      <3> QED
        BY <3>1, <3>2
    <2>3. ASSUME NEW k \in Job PROVE JobOwner(k)'
      BY <1>0, <2>1, <2>2, Fields DEF Jobs, JobOwner
    <2>4. ASSUME NEW d \in Client, Inserted(d)' PROVE Inserted(d) /\ Starting(d)'
      <3>1. Inserted(d) /\ Starting(d) /\ request' = request
        BY <1>0, <2>1, <2>4 DEF Jobs, Inserted, requestVars
      <3>2. PICK k \in Job : /\ request[d].job = {k}
                             /\ drainer[k] = "starting"
                             /\ starter[k] = request[d].token
        BY <3>1 DEF Starting
      <3>3. k # j /\ drainer'[k] = drainer[k]
        BY <2>1, <3>2, Fields
      <3> QED
        BY <2>1, <3>1, <3>2, <3>3 DEF Starting
    <2>5. ASSUME NEW d \in Client, QueryOk(d)' PROVE StartedBy(d)'
      BY <1>0, <2>1, <2>5, Fields DEF Jobs, StartedBy, Answered, At, requestVars
    <2> QED
      BY <1>0, <2>1, <2>3, <2>4, <2>5 DEF Jobs, requestVars
  <1> QED
    BY <1>2, <1>3, <1>4, <1>5, <1>6, <1>7, <1>8, <1>9 DEF Next, Handle

-----------------------------------------------------------------------------
(* What a step leaves as it was *)

\* A handler's step is its own.
LEMMA OthersStay ==
    ASSUME TypeOK, NEW c \in Client, Handle(c), NEW d \in Client, d # c
    PROVE  /\ pc'[d] = pc[d] /\ request'[d] = request[d] /\ got'[d] = got[d]
           /\ answer'[d] = answer[d] /\ heard'[d] = heard[d]
  <1>1. CASE \E r \in Asked : Send(c, r)
    BY <1>1, Fields DEF Send
  <1>2. CASE Authorize(c) \/ OpenRefused(c) \/ NextSessionId(c) \/ Open(c)
    BY <1>2, Fields DEF Authorize, OpenRefused, NextSessionId, Open, Fail, Reply, Goto
  <1>3. CASE TakeOut(c) \/ RecordClosed(c) \/ Lookup(c) \/ Gone(c) \/ ReadAudit(c) \/ ReadCatalog(c)
    BY <1>3, Fields DEF TakeOut, RecordClosed, Lookup, Gone, ReadAudit, ReadCatalog,
       Fail, Reply, Goto
  <1>4. CASE StartRefused(c) \/ \E j \in Job : StartInsert(c, j)
    BY <1>4, Fields DEF StartRefused, StartInsert, Fail, Reply, Goto
  <1>5. CASE StartGone(c) \/ StartLookup(c) \/ StartRecord(c) \/ QueryJob(c)
    BY <1>5, Fields DEF StartGone, StartLookup, StartRecord, QueryJob, Launch, Reply,
       Goto
  <1> QED
    BY <1>1, <1>2, <1>3, <1>4, <1>5 DEF Handle

\* Recording an event adds it to the log, and changes nothing else.
LEMMA RecordAdds ==
    ASSUME TypeOK, NEW h \in Object, NEW event \in AuditEvent, RecordAudit(h, event)
    PROVE  /\ log' \in [Object -> Seq(AuditEvent)]
           /\ \A g \in Object : g # h => log'[g] = log[g]
           /\ ToSet(log'[h]) = ToSet(log[h]) \cup {event}
  <1>1. log \in [Object -> Seq(AuditEvent)] /\ log[h] \in Seq(AuditEvent)
    BY DEF TypeOK
  <1>2. log' = [log EXCEPT ![h] = Append(log[h], event)]
    BY DEF RecordAudit
  <1>3. Append(log[h], event) \in Seq(AuditEvent)
    BY <1>1
  <1>4. ToSet(Append(log[h], event)) = ToSet(log[h]) \cup {event}
    <2>1. DOMAIN Append(log[h], event) = DOMAIN log[h] \cup {Len(log[h]) + 1}
      BY <1>1
    <2>2. \A i \in DOMAIN log[h] : Append(log[h], event)[i] = log[h][i]
      BY <1>1
    <2>3. Append(log[h], event)[Len(log[h]) + 1] = event
      BY <1>1
    <2> QED
      BY <2>1, <2>2, <2>3, Zenon DEF ToSet
  <1> QED
    BY <1>1, <1>2, <1>3, <1>4

\* What is kept of the sessions, whoever makes the step.
LEMMA SessionsStay ==
    ASSUME TypeOK, RequestsInv, Next, NEW h \in 1..minted
    PROVE  /\ h \in Object /\ minted' \in Nat /\ minted <= minted' /\ idOf'[h] = idOf[h]
           /\ ToSet(log[h]) \subseteq ToSet(log'[h])
           /\ NotStored(h) => NotStored(h)'
  <1> USE DEF Id, Object
  <1>0. Names /\ Handlers /\ Jobs
    BY DEF RequestsInv
  <1>1. h \in Object /\ h # 0 /\ h # minted + 1
    BY Fields
  <1>2. ASSUME UNCHANGED <<minted, store, idOf, log>>
        PROVE  /\ minted' \in Nat
               /\ minted <= minted'
               /\ idOf'[h] = idOf[h]
               /\ ToSet(log[h]) \subseteq ToSet(log'[h])
               /\ NotStored(h) => NotStored(h)'
    BY <1>2, Fields DEF NotStored
  <1>3. ASSUME NEW c \in Client, Open(c)
        PROVE  /\ minted' \in Nat
               /\ minted <= minted'
               /\ idOf'[h] = idOf[h]
               /\ ToSet(log[h]) \subseteq ToSet(log'[h])
               /\ NotStored(h) => NotStored(h)'
    <2>1. minted' = minted + 1 /\ idOf'[h] = idOf[h] /\ log'[h] = log[h]
      BY <1>1, <1>3, Fields DEF Open, Fresh
    <2>2. \A i \in Id : store'[i] = store[i] \/ store'[i] = minted + 1
      BY <1>3, Fields DEF Open, Fresh
    <2> QED
      BY <1>1, <2>1, <2>2, Fields DEF NotStored
  <1>4. ASSUME NEW c \in Client, TakeOut(c)
        PROVE  /\ minted' \in Nat
               /\ minted <= minted'
               /\ idOf'[h] = idOf[h]
               /\ ToSet(log[h]) \subseteq ToSet(log'[h])
               /\ NotStored(h) => NotStored(h)'
    <2>1. minted' = minted /\ idOf' = idOf /\ log' = log
      BY <1>4 DEF TakeOut
    <2>2. \A i \in Id : store'[i] = store[i] \/ store'[i] = 0
      BY <1>4, Fields DEF TakeOut
    <2> QED
      BY <1>1, <2>1, <2>2, Fields DEF NotStored
  <1>5. ASSUME UNCHANGED <<minted, store, idOf>>, NEW g \in Object, NEW event \in AuditEvent,
               RecordAudit(g, event)
        PROVE  /\ minted' \in Nat
               /\ minted <= minted'
               /\ idOf'[h] = idOf[h]
               /\ ToSet(log[h]) \subseteq ToSet(log'[h])
               /\ NotStored(h) => NotStored(h)'
    <2>1. /\ \A f \in Object : f # g => log'[f] = log[f]
          /\ ToSet(log'[g]) = ToSet(log[g]) \cup {event}
      BY <1>5, RecordAdds
    <2>2. ToSet(log[h]) \subseteq ToSet(log'[h])
      BY <1>1, <2>1
    <2> QED
      BY <1>5, <2>2, Fields DEF NotStored
  <1>6. ASSUME NEW c \in Client, RecordClosed(c)
        PROVE  \E g \in Object : \E event \in AuditEvent : RecordAudit(g, event)
    <2>1. got[c] # 0
      BY <1>6 DEF RecordClosed, TypeOK
    <2> QED
      BY <1>6, <2>1, Fields DEF RecordClosed, AuditEvent
  <1>7. ASSUME NEW c \in Client, StartRecord(c)
        PROVE  \E g \in Object : \E event \in AuditEvent : RecordAudit(g, event)
    <2>1. got[c] # 0 /\ request[c].job \in {{}} \cup {{k} : k \in Job}
      BY <1>7, Fields DEF StartRecord, TypeOK
    <2>2. PICK j \in Job : RecordAudit(got[c], [kind |-> "JobStarted", job |-> j])
      BY <1>7, <2>1 DEF StartRecord
    <2>3. [kind |-> "JobStarted", job |-> j] \in AuditEvent
      BY DEF AuditEvent
    <2> QED
      BY <2>1, <2>2, <2>3, Fields
  <1>8. ASSUME NEW j \in Job, FinishRecord(j)
        PROVE  \E g \in Object : \E event \in AuditEvent : RecordAudit(g, event)
    <2>1. held[j] # 0
      BY <1>8 DEF FinishRecord, TypeOK
    <2>2. [kind |-> "JobFinished", job |-> j] \in AuditEvent
      BY DEF AuditEvent
    <2> QED
      BY <1>8, <2>1, <2>2, Fields DEF FinishRecord
  <1>9. \/ UNCHANGED <<minted, store, idOf, log>>
        \/ \E c \in Client : Open(c) \/ TakeOut(c)
        \/ /\ UNCHANGED <<minted, store, idOf>>
           /\ \/ \E c \in Client : RecordClosed(c) \/ StartRecord(c)
              \/ \E j \in Job : FinishRecord(j)
    <2>1. ASSUME NEW j \in Job, Drain(j)
          PROVE  UNCHANGED <<minted, store, idOf>> /\ (FinishRecord(j) \/ log' = log)
      BY <2>1 DEF Drain, Finish, FinishLookup, FinishRecord, storeVars
    <2>2. ASSUME NEW c \in Client, Handle(c), ~Open(c), ~TakeOut(c)
          PROVE  UNCHANGED <<minted, store, idOf>> /\ (RecordClosed(c) \/ StartRecord(c) \/ log' = log)
      BY <2>2 DEF Handle, Send, Authorize, OpenRefused, NextSessionId, RecordClosed,
         Lookup, Gone, ReadAudit, ReadCatalog, StartRefused, StartInsert, StartGone,
         StartLookup, StartRecord, QueryJob, Launch, Fail, storeVars
    <2> QED
      BY <2>1, <2>2 DEF Next
  <1> QED
    BY <1>1, <1>2, <1>3, <1>4, <1>5, <1>6, <1>7, <1>8, <1>9

\* SessionsStay, of an object that is named by a state.
LEMMA StoredNoMore ==
    ASSUME TypeOK, RequestsInv, Next, NEW STATE h, h \in 1..minted, NotStored(h)
    PROVE  \A i \in Id : store'[i] # h
  <1> DEFINE P(g) == NotStored(g) => \A i \in Id : store'[i] # g
  <1>1. \A g \in 1..minted : P(g)
    BY SessionsStay DEF NotStored
  <1> HIDE DEF P
  <1>2. P(h)
    BY <1>1
  <1> QED
    BY <1>2 DEF P

\* A session that is being closed or was closed stays so.
LEMMA ShutStays ==
    ASSUME TypeOK, RequestsInv, Next, NEW h \in 1..minted, Shut(h)
    PROVE  Shut(h)'
  <1> USE DEF Id, Object
  <1>1. ToSet(log[h]) \subseteq ToSet(log'[h])
    BY SessionsStay
  <1>2. CASE Closed \in ToSet(log[h])
    BY <1>1, <1>2 DEF Shut
  <1>3. ASSUME NEW d \in Client, pc[d] = "closing", got[d] = h PROVE Shut(h)'
    <2>1. ASSUME Handle(d), ~RecordClosed(d) PROVE FALSE
      BY <1>3, <2>1 DEF Handle, Send, Authorize, OpenRefused, NextSessionId, Open,
         TakeOut, Lookup, Gone, ReadAudit, ReadCatalog, StartRefused, StartInsert,
         StartGone, StartLookup, StartRecord, QueryJob, At
    <2>2. CASE RecordClosed(d)
      <3>1. h \in Object /\ Closed \in AuditEvent /\ RecordAudit(h, Closed)
        BY <1>3, <2>2, Fields DEF RecordClosed, Closed, AuditEvent
      <3> QED
        BY <3>1, RecordAdds DEF Shut
    <2>3. ASSUME NEW c \in Client, c # d, Handle(c) PROVE Shut(h)'
      BY <1>3, <2>3, OthersStay DEF Shut
    <2>4. ASSUME NEW j \in Job, Drain(j) PROVE Shut(h)'
      BY <1>3, <2>4 DEF Drain, Finish, FinishLookup, FinishRecord, requestVars, Shut
    <2> QED
      BY <2>1, <2>2, <2>3, <2>4 DEF Next
  <1> QED
    BY <1>2, <1>3 DEF Shut

\* What was answered stays answered, and there is more of it only by a close or a start.
LEMMA TellsMore ==
    ASSUME TypeOK, Next
    PROVE  /\ told'.closed = told.closed
              \/ \E c \in Client : RecordClosed(c) /\ told'.closed = told.closed \cup {got[c]}
           /\ told'.started = told.started
              \/ \E c \in Client : /\ StartGone(c) \/ StartRecord(c)
                                   /\ \E j \in Job : /\ request[c].job = {j}
                                                     /\ told'.started = told.started \cup {j}
  <1>1. ASSUME NEW c \in Client, RecordClosed(c)
        PROVE  told'.closed = told.closed \cup {got[c]} /\ told'.started = told.started
    BY <1>1 DEF RecordClosed, TypeOK, Told
  <1>2. ASSUME NEW c \in Client, StartGone(c) \/ StartRecord(c)
        PROVE  /\ told'.closed = told.closed
               /\ \E j \in Job : request[c].job = {j} /\ told'.started = told.started \cup {j}
    <2>1. request[c].job \in {{}} \cup {{k} : k \in Job}
      BY Fields
    <2>2. PICK j \in request[c].job : told' = [told EXCEPT !.started = @ \cup {j}]
      BY <1>2 DEF StartGone, StartRecord, Launch
    <2>3. j \in Job /\ request[c].job = {j}
      BY <2>1, <2>2
    <2>4. told'.closed = told.closed /\ told'.started = told.started \cup {j}
      BY <2>2 DEF TypeOK, Told
    <2> QED
      BY <2>3, <2>4
  <1>3. ASSUME NEW j \in Job, Drain(j) PROVE told' = told
    BY <1>3 DEF Drain, Finish, FinishLookup, FinishRecord, requestVars
  <1>4. ASSUME NEW c \in Client, Handle(c), ~RecordClosed(c), ~StartGone(c), ~StartRecord(c)
        PROVE  told' = told
    BY <1>4 DEF Handle, Send, Authorize, OpenRefused, NextSessionId, Open, TakeOut,
       Lookup, Gone, ReadAudit, ReadCatalog, StartRefused, StartInsert, StartLookup,
       QueryJob, Fail
  <1> QED
    BY <1>1, <1>2, <1>3, <1>4 DEF Next

-----------------------------------------------------------------------------
(* Closes *)

\* Every step keeps what is said of closed sessions.
LEMMA ClosesStep ==
    ASSUME TypeOK, RequestsInv, Next
    PROVE  Closes'
  <1> USE DEF Id, Object
  <1>0. Names /\ Handlers /\ Closes
    BY DEF RequestsInv
  <1>1. \A h \in 1..minted : /\ h \in Object /\ minted' \in Nat /\ minted <= minted' /\ idOf'[h] = idOf[h]
                             /\ NotStored(h) => NotStored(h)'
                             /\ Shut(h) => Shut(h)'
    BY SessionsStay, ShutStays
  <1>2. \A c \in Client : pc[c] = "closing" => got[c] \in 1..minted /\ NotStored(got[c])
    <2>1. ASSUME NEW c \in Client, pc[c] = "closing" PROVE got[c] \in 1..minted
      <3>1. got[c] # 0 /\ got[c] = request[c].token /\ request[c].token <= minted
        BY <1>0, <2>1 DEF Handlers, TypeOK
      <3> QED
        BY <3>1, Fields
    <2> QED
      BY <1>0, <2>1 DEF Closes
  <1>3. told.closed \subseteq told'.closed
    BY TellsMore
  <1>4. ASSUME NEW h \in told'.closed PROVE h <= minted' /\ NotStored(h)'
    <2>1. told.closed \in SUBSET Object
      BY DEF TypeOK, Told
    <2>2. CASE h \in told.closed
      BY <1>0, <1>1, <2>1, <2>2, Fields DEF Closes
    <2>3. CASE \E c \in Client : RecordClosed(c) /\ h = got[c]
      BY <1>1, <1>2, <2>3, Fields DEF RecordClosed
    <2> QED
      BY <2>2, <2>3, TellsMore
  <1>5. ASSUME NEW c \in Client, pc'[c] = "closing" PROVE NotStored(got[c])'
    <2>1. CASE TakeOut(c)
      <3> DEFINE i == request[c].id
      <3>1. /\ i \in Id /\ got'[c] = store[i] /\ store[i] # 0
            /\ store' = [store EXCEPT ![i] = 0]
        BY <1>0, <2>1, Fields DEF TakeOut, At, Handlers, Passed
      <3>2. store[i] \in Object /\ \A k \in Id : store[k] = store[i] => k = i
        BY <1>0, <3>1, Fields DEF Names
      <3> HIDE DEF i
      <3> QED
        BY <3>1, <3>2, Fields DEF NotStored
    <2>2. ASSUME Handle(c), ~TakeOut(c) PROVE FALSE
      BY <1>5, <2>2, Fields DEF Handle, Send, Authorize, OpenRefused, NextSessionId,
         Open, RecordClosed, Lookup, Gone, ReadAudit, ReadCatalog, StartRefused,
         StartInsert, StartGone, StartLookup, StartRecord, QueryJob, Launch, Fail,
         Reply, Goto
    <2>3. CASE pc'[c] = pc[c] /\ got'[c] = got[c]
      BY <1>1, <1>2, <1>5, <2>3 DEF NotStored
    <2>4. ASSUME NEW d \in Client, d # c, Handle(d) PROVE pc'[c] = pc[c] /\ got'[c] = got[c]
      BY <2>4, OthersStay
    <2>5. ASSUME NEW j \in Job, Drain(j) PROVE pc'[c] = pc[c] /\ got'[c] = got[c]
      BY <2>5 DEF Drain, Finish, FinishLookup, FinishRecord, requestVars
    <2> QED
      BY <2>1, <2>2, <2>3, <2>4, <2>5 DEF Next
  <1>6. ASSUME NEW c \in Client
        PROVE  /\ heard'[c].closed \subseteq told'.closed
               /\ request'[c].token \in heard'[c].closed => pc'[c] \in {"idle", "arrived", "answered"}
    <2>1. /\ heard[c].closed \subseteq told.closed
          /\ request[c].token \in heard[c].closed => pc[c] \in {"idle", "arrived", "answered"}
          /\ told.closed \subseteq Object
      BY <1>0 DEF Closes, TypeOK, Told
    <2>2. CASE \E r \in Asked : Send(c, r)
      BY <1>3, <2>2, Fields DEF Send
    <2>3. CASE Authorize(c)
      <3>1. heard'[c] = heard[c] /\ request' = request
        BY <2>3 DEF Authorize, Fail, Reply, Goto
      <3>2. ASSUME request[c].token \in heard[c].closed PROVE pc'[c] = "answered"
        <4>1. NotStored(request[c].token)
          BY <1>0, <2>1, <3>2 DEF Closes
        <4>2. ~Authorized(request[c].id, request[c].token)
          BY <4>1, Fields DEF Authorized, Verify, NotStored
        <4> QED
          BY <2>3, <4>2, Fields DEF Authorize, Fail, Reply
      <3> QED
        BY <1>3, <2>1, <3>1, <3>2
    <2>4. CASE NextSessionId(c)
      <3>1. request[c].method = "open" /\ heard'[c] = heard[c]
        BY <2>4 DEF NextSessionId, Goto, At
      <3>2. request'[c].token = request[c].token
        <4>1. request' = [request EXCEPT ![c].id = counter]
          BY <2>4 DEF NextSessionId
        <4> QED
          BY <4>1, Fields, IdIsSet
      <3>3. request[c].token \notin heard[c].closed
        BY <1>0, <2>1, <3>1 DEF Handlers
      <3> QED
        BY <1>3, <2>1, <3>1, <3>2, <3>3
    <2>5. CASE \E j \in Job : StartInsert(c, j)
      <3>1. heard'[c] = heard[c] /\ pc[c] = "holding"
        BY <2>5 DEF StartInsert, Goto, At
      <3>2. request'[c].token = request[c].token
        <4>1. PICK j \in Job : request' = [request EXCEPT ![c].job = {j}]
          BY <2>5 DEF StartInsert
        <4> QED
          BY <4>1, Fields, JobIsSet
      <3> QED
        BY <1>3, <2>1, <3>1, <3>2
    <2>6. CASE /\ request'[c] = request[c] /\ heard'[c] = heard[c]
               /\ \/ pc'[c] = pc[c]
                  \/ pc[c] \notin {"idle", "arrived", "answered"}
                  \/ pc'[c] = "answered"
      BY <1>3, <2>1, <2>6
    <2>7. ASSUME Handle(c), ~Authorize(c), ~NextSessionId(c),
                 ~\E r \in Asked : Send(c, r), ~\E j \in Job : StartInsert(c, j)
          PROVE  /\ request'[c] = request[c] /\ heard'[c] = heard[c]
                 /\ pc[c] \notin {"idle", "arrived", "answered"} \/ pc'[c] = "answered"
      BY <2>7, Fields DEF Handle, OpenRefused, Open, TakeOut, RecordClosed, Lookup,
         Gone, ReadAudit, ReadCatalog, StartRefused, StartGone, StartLookup,
         StartRecord, QueryJob, Launch, Fail, Reply, Goto, At
    <2>8. ASSUME NEW d \in Client, d # c, Handle(d)
          PROVE  request'[c] = request[c] /\ heard'[c] = heard[c] /\ pc'[c] = pc[c]
      BY <2>8, OthersStay
    <2>9. ASSUME NEW j \in Job, Drain(j)
          PROVE  request'[c] = request[c] /\ heard'[c] = heard[c] /\ pc'[c] = pc[c]
      BY <2>9 DEF Drain, Finish, FinishLookup, FinishRecord, requestVars
    <2> QED
      BY <2>2, <2>3, <2>4, <2>5, <2>6, <2>7, <2>8, <2>9 DEF Next
  <1>7. ASSUME NEW h \in 1..minted' PROVE store'[idOf'[h]] = h \/ Shut(h)'
    <2>1. ASSUME NEW c \in Client, Open(c) PROVE store'[idOf'[h]] = h \/ Shut(h)'
      <3> DEFINE g == minted + 1
                 i == request[c].id
      <3>1. /\ minted' = g /\ store' = [store EXCEPT ![i] = g] /\ idOf' = [idOf EXCEPT ![g] = i]
            /\ minted < MaxSessions /\ pc[c] = "minted"
        BY <2>1 DEF Open, Fresh
      <3>2. i \in Id /\ g \in Object /\ \A k \in Object : idOf[k] # i
        BY <1>0, <3>1, Fields DEF Names
      <3> HIDE DEF i
      <3>3. CASE h = g
        BY <3>1, <3>2, <3>3, Fields
      <3>4. CASE h # g
        <4>1. h \in 1..minted
          <5>1. h \in 1..minted + 1
            BY <3>1
          <5>2. minted \in Nat
            BY Fields
          <5> QED
            BY <3>4, <5>1, <5>2
        <4>2. idOf'[h] = idOf[h] /\ store'[idOf[h]] = store[idOf[h]]
          BY <1>1, <3>1, <3>2, <4>1, Fields
        <4> QED
          BY <1>0, <1>1, <4>1, <4>2 DEF Closes
      <3> QED
        BY <3>3, <3>4
    <2>2. ASSUME NEW c \in Client, TakeOut(c) PROVE store'[idOf'[h]] = h \/ Shut(h)'
      <3> DEFINE i == request[c].id
      <3>1. /\ minted' = minted /\ store' = [store EXCEPT ![i] = 0] /\ idOf' = idOf
            /\ got'[c] = store[i] /\ pc'[c] = "closing" /\ h \in 1..minted
        BY <2>2, Fields DEF TakeOut, Goto
      <3>2. CASE Shut(h)
        BY <1>1, <3>1, <3>2
      <3>3. CASE store[idOf[h]] = h /\ idOf[h] = i
        BY <3>1, <3>3 DEF Shut
      <3>4. CASE store[idOf[h]] = h /\ idOf[h] # i
        BY <3>1, <3>4, Fields
      <3> QED
        BY <1>0, <3>1, <3>2, <3>3, <3>4 DEF Closes
    <2>3. CASE UNCHANGED <<minted, store, idOf>>
      BY <1>0, <1>1, <2>3 DEF Closes
    <2>4. ASSUME NEW c \in Client, Handle(c), ~Open(c), ~TakeOut(c)
          PROVE  UNCHANGED <<minted, store, idOf>>
      BY <2>4 DEF Handle, Send, Authorize, OpenRefused, NextSessionId, RecordClosed,
         Lookup, Gone, ReadAudit, ReadCatalog, StartRefused, StartInsert, StartGone,
         StartLookup, StartRecord, QueryJob, Launch, Fail, storeVars
    <2>5. ASSUME NEW j \in Job, Drain(j) PROVE UNCHANGED <<minted, store, idOf>>
      BY <2>5 DEF Drain, Finish, FinishLookup, FinishRecord, storeVars
    <2> QED
      BY <2>1, <2>2, <2>3, <2>4, <2>5 DEF Next
  <1> QED
    BY <1>4, <1>5, <1>6, <1>7 DEF Closes

\* What a step answers, other than a failed authorization, is not "unauthorized" but
\* for a session that is not there any more.
LEMMA Unauthorized ==
    ASSUME TypeOK, RequestsInv, Next, NEW c \in Client,
           Answered(c, Method \ {"open"})', ~Answered(c, Method \ {"open"})
    PROVE  /\ request'[c] = request[c] /\ heard'[c] = heard[c]
           /\ \/ Authorize(c) /\ answer'[c].code = "unauthorized"
              \/ Gone(c) /\ pc[c] = "authorized"
              \/ answer'[c].code # "unauthorized" /\ pc[c] \in Passed
  <1>1. Handlers
    BY DEF RequestsInv
  <1>2. ASSUME NEW d \in Client, d # c, Handle(d) PROVE FALSE
    BY <1>2, OthersStay DEF Answered, At
  <1>3. ASSUME NEW j \in Job, Drain(j) PROVE FALSE
    BY <1>3 DEF Drain, Finish, FinishLookup, FinishRecord, requestVars, Answered, At
  <1>4. Handle(c)
    BY <1>2, <1>3 DEF Next
  <1>5. pc'[c] = "answered" /\ request'[c].method # "open"
    BY DEF Answered, At
  <1>6. CASE \E r \in Asked : Send(c, r)
    BY <1>5, <1>6, Fields DEF Send
  <1>7. CASE NextSessionId(c) \/ TakeOut(c) \/ Lookup(c) \/ StartLookup(c)
             \/ \E j \in Job : StartInsert(c, j)
    BY <1>5, <1>7, Fields DEF NextSessionId, TakeOut, Lookup, StartLookup,
       StartInsert, Goto
  <1>8. CASE Authorize(c)
    BY <1>5, <1>8, Fields DEF Authorize, Goto, Fail, Reply
  <1>9. CASE Gone(c)
    BY <1>9, Fields DEF Gone, Fail, Reply, At
  <1>10. CASE OpenRefused(c) \/ Open(c)
    <2>1. request' = request /\ (pc[c] = "minted" \/ request[c].method = "open")
      BY <1>10 DEF OpenRefused, Open, Fail, Reply, At
    <2>2. pc[c] = "minted" => request[c].method = "open"
      BY DEF RequestsInv, Names
    <2> QED
      BY <1>5, <2>1, <2>2
  <1>11. CASE RecordClosed(c) \/ ReadAudit(c) \/ ReadCatalog(c) \/ StartRefused(c)
              \/ StartGone(c) \/ StartRecord(c) \/ QueryJob(c)
    BY <1>11, Fields DEF RecordClosed, ReadAudit, ReadCatalog, StartRefused,
       StartGone, StartRecord, QueryJob, Launch, Fail, Reply, At, Passed
  <1> QED
    BY <1>4, <1>6, <1>7, <1>8, <1>9, <1>10, <1>11 DEF Handle

\* An answer does not change until the next request is sent.
LEMMA AnswerStays ==
    ASSUME TypeOK, Next, NEW c \in Client, pc[c] = "answered", pc'[c] = "answered"
    PROVE  request'[c] = request[c] /\ heard'[c] = heard[c] /\ answer'[c] = answer[c]
  <1>1. ASSUME Handle(c) PROVE FALSE
    BY <1>1, Fields DEF Handle, Send, Authorize, OpenRefused, NextSessionId, Open,
       TakeOut, RecordClosed, Lookup, Gone, ReadAudit, ReadCatalog, StartRefused,
       StartInsert, StartGone, StartLookup, StartRecord, QueryJob, At
  <1>2. ASSUME NEW d \in Client, d # c, Handle(d)
        PROVE  request'[c] = request[c] /\ heard'[c] = heard[c] /\ answer'[c] = answer[c]
    BY <1>2, OthersStay
  <1>3. ASSUME NEW j \in Job, Drain(j)
        PROVE  request'[c] = request[c] /\ heard'[c] = heard[c] /\ answer'[c] = answer[c]
    BY <1>3 DEF Drain, Finish, FinishLookup, FinishRecord, requestVars
  <1> QED
    BY <1>1, <1>2, <1>3 DEF Next

\* An answered close stands between a session and every request sent after it.
LEMMA ClosedStep ==
    ASSUME TypeOK, RequestsInv, Next
    PROVE  ClosedIsClosed'
  <1>1. Closes /\ ClosedIsClosed
    BY DEF RequestsInv
  <1> SUFFICES ASSUME NEW c \in Client, Answered(c, Method \ {"open"})',
                      request'[c].token \in heard'[c].closed
               PROVE  answer'[c].code = "unauthorized"
    BY DEF ClosedIsClosed
  <1>2. CASE pc[c] = "answered"
    BY <1>1, <1>2, AnswerStays DEF ClosedIsClosed, Answered, At
  <1>3. CASE pc[c] # "answered"
    <2>1. ~Answered(c, Method \ {"open"})
      BY <1>3 DEF Answered, At
    <2>2. pc[c] \notin Passed
      BY <1>1, <2>1, Unauthorized DEF Closes, Passed
    <2> QED
      BY <2>1, <2>2, Unauthorized DEF Passed
  <1> QED
    BY <1>2, <1>3

\* Who is refused with a good token finds the session shut.
LEMMA RefusedStep ==
    ASSUME TypeOK, RequestsInv, Next
    PROVE  RefusedOnlyAfterClose'
  <1> USE DEF Id, Object
  <1>1. Names /\ Handlers /\ Closes /\ RefusedOnlyAfterClose
    BY DEF RequestsInv
  <1> SUFFICES ASSUME NEW c \in Client, NEW h \in Object, Answered(c, Method \ {"open"})',
                      answer'[c].code = "unauthorized", request'[c].token = h,
                      request'[c].id = idOf'[h]
               PROVE  Shut(h)'
    BY DEF RefusedOnlyAfterClose, Shut
  <1>2. request'[c] = request[c]
    BY AnswerStays, Unauthorized DEF Answered, At
  <1>3. h \in 1..minted /\ h # 0
    BY <1>1, <1>2, Fields DEF Handlers
  <1>4. request[c].id = idOf[h] /\ request[c].token = h
    BY <1>2, <1>3, SessionsStay
  <1>5. Shut(h)
    <2>1. CASE pc[c] = "answered"
      <3>1. answer'[c] = answer[c] /\ Answered(c, Method \ {"open"})
        BY <1>2, <2>1, AnswerStays DEF Answered, At
      <3> QED
        BY <1>1, <1>4, <3>1 DEF RefusedOnlyAfterClose, Shut
    <2>2. CASE pc[c] # "answered"
      <3>1. Authorize(c) \/ (Gone(c) /\ pc[c] = "authorized")
        BY <2>2, Unauthorized DEF Answered, At
      <3>2. store[idOf[h]] # h
        <4>1. idOf[h] # 0
          BY <1>1, <1>3, Fields DEF Names
        <4>2. CASE Authorize(c)
          <5>1. pc'[c] # "authorized"
            BY DEF Answered, At
          <5>2. ~Authorized(request[c].id, request[c].token)
            BY <4>2, <5>1, Fields DEF Authorize, Goto
          <5> QED
            BY <1>3, <1>4, <4>1, <5>2 DEF Authorized, Verify
        <4>3. CASE Gone(c)
          BY <1>3, <1>4, <4>3 DEF Gone
        <4> QED
          BY <3>1, <4>2, <4>3
      <3> QED
        BY <1>1, <1>3, <3>2 DEF Closes
    <2> QED
      BY <2>1, <2>2
  <1> QED
    BY <1>3, <1>5, ShutStays

-----------------------------------------------------------------------------
(* Starts *)

\* A job in the store belongs to the request that started it, and its drainer, once
\* launched, is not launched again.
LEMMA JobsStay ==
    ASSUME TypeOK, Next, NEW j \in Job, drainer[j] \notin {"none", "starting"}, Jobs
    PROVE  starter'[j] = starter[j] /\ drainer'[j] \notin {"none", "starting"}
  <1>1. ASSUME NEW c \in Client, NEW k \in Job, StartInsert(c, k)
        PROVE  starter'[j] = starter[j] /\ drainer'[j] = drainer[j]
    BY <1>1, Fields DEF StartInsert, At
  <1>2. ASSUME NEW c \in Client, StartGone(c) \/ StartRecord(c)
        PROVE  starter'[j] = starter[j] /\ (drainer'[j] = drainer[j] \/ drainer'[j] = "running")
    BY <1>2, Fields DEF StartGone, StartRecord, Launch
  <1>3. ASSUME NEW k \in Job, Drain(k)
        PROVE  /\ starter'[j] = starter[j]
               /\ drainer'[j] = drainer[j] \/ drainer'[j] \in {"finishing", "recording", "done"}
    BY <1>3, Fields DEF Drain, Finish, FinishLookup, FinishRecord
  <1>4. ASSUME NEW c \in Client, Handle(c), ~StartGone(c), ~StartRecord(c),
               ~\E k \in Job : StartInsert(c, k)
        PROVE  starter'[j] = starter[j] /\ drainer'[j] = drainer[j]
    BY <1>4 DEF Handle, Send, Authorize, OpenRefused, NextSessionId, Open, TakeOut,
       RecordClosed, Lookup, Gone, ReadAudit, ReadCatalog, StartRefused, StartLookup,
       QueryJob, Fail, jobVars
  <1> QED
    BY <1>1, <1>2, <1>3, <1>4 DEF Next

\* Every step keeps the JobStarted of answered starts where they can be read.
LEMMA StartsStep ==
    ASSUME TypeOK, RequestsInv, Next
    PROVE  Starts' /\ StartedIsAudited'
  <1> USE DEF Id, Object
  <1>0. Names /\ Handlers /\ Jobs /\ Starts /\ StartedIsAudited
    BY DEF RequestsInv
  <1>1. \A h \in 1..minted : /\ ToSet(log[h]) \subseteq ToSet(log'[h])
                             /\ NotStored(h) => NotStored(h)'
    BY SessionsStay
  <1>2. told.started \subseteq told'.started /\ told.started \subseteq Job
    BY TellsMore DEF TypeOK, Told
  <1>3. ASSUME NEW j \in Job, drainer[j] \notin {"none", "starting"}
        PROVE  starter[j] \in 1..minted
    BY <1>0, <1>3, Fields DEF Jobs, JobOwner
  \* A start that is answered was recorded, or its session was gone.
  <1>4. ASSUME NEW c \in Client, StartGone(c) \/ StartRecord(c),
               NEW j \in Job, request[c].job = {j}
        PROVE  /\ drainer'[j] \notin {"none", "starting"}
               /\ Started(j) \in ToSet(log'[starter'[j]]) \/ NotStored(starter[j])'
    <2>1. starter[j] = request[c].token
      BY <1>0, <1>4 DEF Jobs, Starting, Inserted, StartGone, StartRecord
    <2>2. starter' = starter /\ store' = store /\ drainer' = [drainer EXCEPT ![j] = "running"]
      BY <1>4 DEF StartGone, StartRecord, Launch
    <2>3. CASE StartGone(c)
      <3> DEFINE i == request[c].id
                 h == starter[j]
      <3>1. i \in Id /\ h \in Object /\ idOf[h] = i /\ store[i] = 0
        BY <1>0, <2>1, <2>3, Fields DEF StartGone, Handlers, Passed
      <3>2. NotStored(h)
        BY <1>0, <3>1 DEF NotStored, Names
      <3> QED
        BY <2>2, <3>2, Fields DEF NotStored
    <2>4. CASE StartRecord(c)
      <3>1. got[c] \in Object /\ got[c] = starter[j]
        BY <1>0, <2>1, <2>4, Fields DEF StartRecord, Handlers, TypeOK
      <3>2. RecordAudit(got[c], Started(j)) /\ Started(j) \in AuditEvent
        <4>1. PICK k \in request[c].job : RecordAudit(got[c], [kind |-> "JobStarted", job |-> k])
          BY <2>4 DEF StartRecord
        <4>2. k = j
          BY <1>4, <4>1
        <4> QED
          BY <4>1, <4>2 DEF Started, AuditEvent
      <3>3. Started(j) \in ToSet(log'[got[c]])
        <4>1. PICK g \in Object : g = got[c]
          BY <3>1
        <4>2. PICK event \in AuditEvent : event = Started(j)
          BY <3>2
        <4>3. RecordAudit(g, event)
          BY <3>2, <4>1, <4>2
        <4>4. ToSet(log'[g]) = ToSet(log[g]) \cup {event}
          BY <4>3, RecordAdds
        <4> QED
          BY <4>1, <4>2, <4>4
      <3> QED
        BY <2>2, <3>1, <3>3, Fields
    <2> QED
      BY <1>4, <2>3, <2>4
  <1>5. ASSUME NEW j \in told'.started
        PROVE  /\ drainer'[j] \notin {"none", "starting"}
               /\ Started(j) \in ToSet(log'[starter'[j]]) \/ NotStored(starter[j])'
    <2>1. CASE j \in told.started
      <3>1. j \in Job /\ drainer[j] \notin {"none", "starting"}
        BY <1>0, <1>2, <2>1 DEF Starts
      <3>2. starter'[j] = starter[j] /\ drainer'[j] \notin {"none", "starting"}
        BY <1>0, <3>1, JobsStay
      <3>3. Started(j) \in ToSet(log[starter[j]]) \/ NotStored(starter[j])
        BY <1>0, <2>1 DEF Starts
      <3> DEFINE h == starter[j]
      <3>4. h \in 1..minted
        BY <1>3, <3>1
      <3> HIDE DEF h
      <3>5. Started(j) \in ToSet(log'[h]) \/ \A i \in Id : store'[i] # h
        <4>1. CASE Started(j) \in ToSet(log[h])
          BY <1>1, <3>4, <4>1
        <4>2. CASE NotStored(h)
          BY <3>4, <4>2, StoredNoMore
        <4> QED
          BY <3>3, <4>1, <4>2 DEF h
      <3> QED
        BY <3>2, <3>5 DEF NotStored, h
    <2>2. CASE \E c \in Client : (StartGone(c) \/ StartRecord(c)) /\ j \in Job /\ request[c].job = {j}
      BY <1>4, <2>2
    <2> QED
      BY <2>1, <2>2, TellsMore
  \* What a client has heard of.
  <1>6. ASSUME NEW c \in Client, NEW j \in heard'[c].started
        PROVE  j \in told'.started /\ starter'[j] = request'[c].token
    <2>1. ASSUME NEW r \in Asked, Send(c, r)
          PROVE  j \in told.started /\ starter'[j] = starter[j] /\ starter[j] = request'[c].token
      BY <1>6, <2>1, Fields DEF Send, jobVars
    <2>2. ASSUME heard'[c] = heard[c], request'[c].token = request[c].token
          PROVE  j \in told'.started /\ starter'[j] = request'[c].token
      <3>1. j \in told.started /\ starter[j] = request[c].token
        BY <1>0, <1>6, <2>2 DEF Starts
      <3>2. j \in Job /\ drainer[j] \notin {"none", "starting"}
        BY <1>0, <1>2, <3>1 DEF Starts
      <3> QED
        BY <1>0, <1>2, <2>2, <3>1, <3>2, JobsStay
    <2>3. ASSUME NEW d \in Client, d # c, Handle(d)
          PROVE  heard'[c] = heard[c] /\ request'[c] = request[c]
      BY <2>3, OthersStay
    <2>4. ASSUME NEW k \in Job, Drain(k) PROVE heard'[c] = heard[c] /\ request'[c] = request[c]
      BY <2>4 DEF Drain, Finish, FinishLookup, FinishRecord, requestVars
    <2>5. ASSUME NextSessionId(c)
          PROVE  heard'[c] = heard[c] /\ request'[c].token = request[c].token
      <3>1. request' = [request EXCEPT ![c].id = counter] /\ heard' = heard
        BY <2>5 DEF NextSessionId, Goto
      <3> QED
        BY <3>1, Fields, IdIsSet
    <2>6. ASSUME NEW k \in Job, StartInsert(c, k)
          PROVE  heard'[c] = heard[c] /\ request'[c].token = request[c].token
      <3>1. request' = [request EXCEPT ![c].job = {k}] /\ heard' = heard
        BY <2>6 DEF StartInsert, Goto
      <3> QED
        BY <3>1, Fields, JobIsSet
    <2>7. ASSUME Handle(c), ~NextSessionId(c),
                 ~\E r \in Asked : Send(c, r), ~\E k \in Job : StartInsert(c, k)
          PROVE  heard'[c] = heard[c] /\ request'[c] = request[c]
      BY <2>7 DEF Handle, Authorize, OpenRefused, Open, TakeOut, RecordClosed,
         Lookup, Gone, ReadAudit, ReadCatalog, StartRefused, StartGone, StartLookup,
         StartRecord, QueryJob, Launch, Fail, Reply, Goto
    <2> QED
      BY <1>2, <2>1, <2>2, <2>3, <2>4, <2>5, <2>6, <2>7 DEF Next
  <1>7. ASSUME NEW c \in Client, At(c, "holding", {"audit"})', NEW j \in heard'[c].started
        PROVE  Started(j) \in ToSet(log'[got'[c]])
    <2>1. CASE Lookup(c)
      <3> DEFINE h == store[request[c].id]
      <3>1. /\ heard' = heard /\ log' = log /\ request' = request /\ got'[c] = h
            /\ h # 0 /\ pc[c] = "authorized"
        BY <2>1, Fields DEF Lookup, Goto, storeVars, At
      <3>2. /\ request[c].id \in Id /\ request[c].token \in Object
            /\ idOf[request[c].token] = request[c].id
        BY <1>0, <3>1, Fields DEF Handlers, Passed
      <3>3. h \in Object /\ idOf[h] = request[c].id
        BY <1>0, <3>1, <3>2, Fields DEF Names
      <3>4. h = request[c].token
        BY <1>0, <3>2, <3>3 DEF Names
      <3>5. j \in told.started /\ starter[j] = h
        BY <1>0, <1>7, <3>1, <3>4 DEF Starts
      <3>6. ~NotStored(h)
        BY <3>2 DEF NotStored
      <3>7. Started(j) \in ToSet(log[h])
        BY <1>0, <3>5, <3>6 DEF Starts
      <3> HIDE DEF h
      <3> QED
        BY <3>1, <3>7
    <2>2. CASE At(c, "holding", {"audit"}) /\ got'[c] = got[c] /\ heard'[c] = heard[c]
      <3>1. Started(j) \in ToSet(log[got[c]])
        BY <1>0, <1>7, <2>2 DEF Starts
      <3>2. got[c] \in 1..minted
        <4>1. got[c] # 0
          BY <2>2 DEF At, TypeOK
        <4>2. got[c] = request[c].token /\ request[c].token <= minted
          BY <1>0, <4>1 DEF Handlers
        <4> QED
          BY <4>1, <4>2, Fields
      <3> QED
        BY <1>1, <2>2, <3>1, <3>2
    <2>3. ASSUME NEW d \in Client, d # c, Handle(d)
          PROVE  At(c, "holding", {"audit"}) /\ got'[c] = got[c] /\ heard'[c] = heard[c]
      BY <1>7, <2>3, OthersStay DEF At
    <2>4. ASSUME NEW k \in Job, Drain(k)
          PROVE  At(c, "holding", {"audit"}) /\ got'[c] = got[c] /\ heard'[c] = heard[c]
      BY <1>7, <2>4 DEF Drain, Finish, FinishLookup, FinishRecord, requestVars, At
    <2>5. ASSUME Handle(c), ~Lookup(c) PROVE FALSE
      <3>1. pc'[c] = "holding"
        BY <1>7 DEF At
      <3> QED
        BY <2>5, <3>1, Fields DEF Handle, Send, Authorize, OpenRefused,
           NextSessionId, Open, TakeOut, RecordClosed, Gone, ReadAudit, ReadCatalog,
           StartRefused, StartInsert, StartGone, StartLookup, StartRecord, QueryJob,
           Launch, Fail, Reply, Goto
    <2> QED
      BY <2>1, <2>2, <2>3, <2>4, <2>5 DEF Next
  <1>8. ASSUME NEW c \in Client, NEW j \in heard'[c].started,
               Answered(c, {"audit"})', answer'[c].code = "ok"
        PROVE  Started(j) \in ToSet(answer'[c].log)
    <2>1. CASE pc[c] = "answered"
      BY <1>0, <1>8, <2>1, AnswerStays DEF StartedIsAudited, Answered, At
    <2>2. CASE ReadAudit(c)
      <3>1. answer'[c].log = log[got[c]] /\ heard'[c] = heard[c] /\ At(c, "holding", {"audit"})
        BY <2>2, Fields DEF ReadAudit, Reply
      <3> QED
        BY <1>0, <1>8, <3>1 DEF Starts
    <2>3. ASSUME pc[c] # "answered", ~ReadAudit(c) PROVE FALSE
      <3>1. ASSUME NEW d \in Client, d # c, Handle(d) PROVE FALSE
        BY <1>8, <2>3, <3>1, OthersStay DEF Answered, At
      <3>2. ASSUME NEW k \in Job, Drain(k) PROVE FALSE
        BY <1>8, <2>3, <3>2 DEF Drain, Finish, FinishLookup, FinishRecord,
           requestVars, Answered, At
      <3>3. Handle(c) /\ pc'[c] = "answered" /\ request'[c].method = "audit"
        BY <1>8, <3>1, <3>2 DEF Next, Answered, At
      <3>4. pc[c] = "minted" => request[c].method = "open"
        BY <1>0 DEF Names
      <3>5. pc[c] = "closing" => request[c].method = "close"
        BY <1>0 DEF Handlers
      <3>6. pc[c] \in {"inserted", "recording"} => request[c].method = "start"
        BY <1>0 DEF Handlers
      <3>7. CASE NextSessionId(c) \/ (\E r \in Asked : Send(c, r)) \/ TakeOut(c) \/ Lookup(c)
                 \/ StartLookup(c) \/ \E k \in Job : StartInsert(c, k)
        BY <3>3, <3>7, Fields DEF NextSessionId, Send, TakeOut, Lookup, StartLookup,
           StartInsert, Goto
      <3>8. CASE Authorize(c) \/ Gone(c)
        BY <1>8, <3>3, <3>8, Fields DEF Authorize, Gone, Fail, Reply, Goto
      <3>9. CASE OpenRefused(c) \/ Open(c) \/ RecordClosed(c)
        BY <3>3, <3>4, <3>5, <3>9 DEF OpenRefused, Open, RecordClosed, Fail, Reply, At
      <3>10. CASE ReadCatalog(c) \/ StartRefused(c) \/ StartGone(c) \/ StartRecord(c) \/ QueryJob(c)
        BY <3>3, <3>6, <3>10 DEF ReadCatalog, StartRefused, StartGone, StartRecord,
           QueryJob, Launch, Fail, Reply, At
      <3> QED
        BY <2>3, <3>3, <3>7, <3>8, <3>9, <3>10 DEF Handle
    <2> QED
      BY <2>1, <2>2, <2>3
  <1>9. Starts'
    BY <1>5, <1>6, <1>7 DEF Starts
  <1>10. StartedIsAudited'
    BY <1>8 DEF StartedIsAudited
  <1> QED
    BY <1>9, <1>10

-----------------------------------------------------------------------------
(* Types *)

Answer == [code : Code, log : Seq(AuditEvent)]

\* What a reply does to the client's state.
LEMMA ReplyType ==
    ASSUME TypeOK, NEW c \in Client, NEW code \in Code, NEW data \in Seq(AuditEvent),
           Reply(c, code, data)
    PROVE  /\ pc' \in [Client -> PC] /\ answer' \in [Client -> Answer]
           /\ request' = request /\ heard' = heard
           /\ \A d \in Client : pc'[d] \in {"holding", "closing", "recording"} => pc'[d] = pc[d]
  <1>1. [code |-> code, log |-> data] \in Answer
    BY DEF Answer
  <1>2. "answered" \in PC
    BY DEF PC
  <1> QED
    BY <1>1, <1>2, Fields DEF Reply, Answer

\* A step that changes the sessions and the handlers only in their types' bounds.
LEMMA TypeFrame ==
    ASSUME TypeOK,
           counter' \in 1..(MaxSessions + 1), minted' \in 0..MaxSessions,
           store' \in [Id -> 0..MaxSessions], idOf' \in [Object -> 0..MaxSessions],
           log' \in [Object -> Seq(AuditEvent)],
           UNCHANGED jobVars,
           request' \in [Client -> Request], pc' \in [Client -> PC],
           got' \in [Client -> 0..MaxSessions], answer' \in [Client -> Answer],
           told' \in Told, heard' \in [Client -> Told],
           \A d \in Client : pc'[d] \in {"holding", "closing", "recording"} => got'[d] # 0
    PROVE  TypeOK'
  BY DEF TypeOK, jobVars, Answer

\* Every step keeps the types.
LEMMA TypeStep ==
    ASSUME TypeOK, RequestsInv, Next
    PROVE  TypeOK'
  <1>0. /\ Names /\ Handlers /\ Jobs
        /\ \A d \in Client : pc[d] \in {"holding", "closing", "recording"} => got[d] # 0
        /\ told \in Told /\ heard \in [Client -> Told] /\ log \in [Object -> Seq(AuditEvent)]
        /\ answer \in [Client -> Answer]
        /\ counter \in 1..(MaxSessions + 1) /\ minted \in 0..MaxSessions
    BY DEF RequestsInv, TypeOK, Answer
  <1>1. {"arrived", "minted", "authorized", "holding", "closing", "inserted",
         "recording", "answered"} \subseteq PC
    BY DEF PC
  <1>2. <<>> \in Seq(AuditEvent) /\ {"ok", "unauthorized", "notFound", "refused"} \subseteq Code
    BY DEF Code
  \* Requests that end with an answer and change nothing else.
  <1>3. ASSUME NEW c \in Client, NEW code \in Code, Fail(c, code) PROVE TypeOK'
    BY <1>0, <1>2, <1>3, ReplyType, TypeFrame, Fields DEF Fail, storeVars
  <1>4. ASSUME NEW c \in Client, NEW r \in Asked, Send(c, r) PROVE TypeOK'
    <2>1. r \in Request
      BY DEF Asked
    <2>2. NoAnswer \in Answer
      BY DEF NoAnswer, Answer, Code
    <2>3. [closed |-> told.closed \cap {r.token},
           started |-> {j \in told.started : starter[j] = r.token}] \in Told
      BY <1>0 DEF Told
    <2>4. /\ request' \in [Client -> Request] /\ pc' \in [Client -> PC]
          /\ got' \in [Client -> 0..MaxSessions] /\ answer' \in [Client -> Answer]
          /\ heard' \in [Client -> Told]
      BY <1>0, <1>1, <1>4, <2>1, <2>2, <2>3, Fields DEF Send
    <2>5. \A d \in Client : pc'[d] \in {"holding", "closing", "recording"} => got'[d] # 0
      BY <1>0, <1>4, Fields DEF Send
    <2> QED
      BY <1>0, <1>4, <2>4, <2>5, TypeFrame, Fields DEF Send, storeVars
  <1>5. ASSUME NEW c \in Client, Authorize(c) PROVE TypeOK'
    <2>1. CASE Fail(c, "unauthorized")
      BY <1>2, <1>3, <2>1
    <2>2. CASE /\ Goto(c, "authorized")
               /\ UNCHANGED <<counter, minted, storeVars, jobVars, request, got, told>>
      BY <1>0, <1>1, <2>2, TypeFrame, Fields DEF Goto, storeVars
    <2> QED
      BY <1>5, <2>1, <2>2 DEF Authorize
  <1>6. ASSUME NEW c \in Client, NextSessionId(c) PROVE TypeOK'
    <2>1. request' \in [Client -> Request]
      <3>1. request[c] \in Request /\ counter \in 0..MaxSessions
        BY <1>0, <1>6, Fields DEF NextSessionId
      <3>2. [request[c] EXCEPT !.id = counter] \in Request
        BY <3>1 DEF Request
      <3>3. request' = [request EXCEPT ![c] = [request[c] EXCEPT !.id = counter]]
        BY <1>6 DEF NextSessionId
      <3> QED
        BY <3>2, <3>3, Fields
    <2>2. counter' \in 1..(MaxSessions + 1)
      BY <1>6, Fields DEF NextSessionId
    <2> QED
      BY <1>0, <1>1, <1>6, <2>1, <2>2, TypeFrame, Fields DEF NextSessionId, Goto,
         storeVars
  <1>7. ASSUME NEW c \in Client, Open(c) PROVE TypeOK'
    <2>1. <<Opened>> \in Seq(AuditEvent)
      BY DEF Opened, AuditEvent
    <2>2. log' \in [Object -> Seq(AuditEvent)]
      BY <1>0, <1>7, <2>1 DEF Open, Opened
    <2>3. minted' \in 0..MaxSessions /\ minted' = minted + 1
      BY <1>7, Fields DEF Open, Fresh
    <2>4. store' \in [Id -> 0..MaxSessions] /\ idOf' \in [Object -> 0..MaxSessions]
      BY <1>7, <2>3, Fields DEF Open, Fresh
    <2> QED
      BY <1>0, <1>2, <1>7, <2>2, <2>3, <2>4, ReplyType, TypeFrame, Fields DEF Open
  <1>8. ASSUME NEW c \in Client, TakeOut(c) \/ Lookup(c) \/ StartLookup(c) PROVE TypeOK'
    <2>1. pc[c] \in Passed
      BY <1>8 DEF TakeOut, Lookup, StartLookup, At, Passed
    <2>2. request[c].id \in Id
      BY <1>0, <2>1, Fields DEF Handlers
    <2>3. /\ got' = [got EXCEPT ![c] = store[request[c].id]] /\ store[request[c].id] # 0
          /\ store' = store \/ store' = [store EXCEPT ![request[c].id] = 0]
          /\ UNCHANGED <<counter, minted, idOf, log, jobVars, request, told>>
          /\ \E p \in {"closing", "holding", "recording"} : Goto(c, p)
      BY <1>8 DEF TakeOut, Lookup, StartLookup, storeVars
    <2>4. got' \in [Client -> 0..MaxSessions] /\ store' \in [Id -> 0..MaxSessions]
      <3>1. /\ store \in [Id -> 0..MaxSessions] /\ got \in [Client -> 0..MaxSessions]
            /\ 0 \in 0..MaxSessions
        BY Fields
      <3>2. PICK h \in 0..MaxSessions : h = store[request[c].id]
        BY <2>2, <3>1
      <3>3. got' = [got EXCEPT ![c] = h]
        BY <2>3, <3>2
      <3> QED
        BY <2>2, <2>3, <3>1, <3>3
    <2>5. pc' \in [Client -> PC] /\ heard' = heard /\ answer' = answer
      BY <1>1, <2>3, Fields DEF Goto
    <2>6. \A d \in Client : pc'[d] \in {"holding", "closing", "recording"} => got'[d] # 0
      BY <1>0, <2>3, Fields DEF Goto
    <2>7. UNCHANGED <<counter, minted, idOf, log, jobVars, request, told>>
      BY <2>3
    <2> QED
      BY <1>0, <2>4, <2>5, <2>6, <2>7, TypeFrame, Fields
  <1>9. ASSUME NEW c \in Client, RecordClosed(c) PROVE TypeOK'
    <2>1. PICK h \in Object : h = got[c]
      BY <1>0, <1>9, Fields DEF RecordClosed, Object
    <2>2. PICK event \in AuditEvent : RecordAudit(h, event)
      BY <1>9, <2>1 DEF RecordClosed, AuditEvent
    <2>3. log' \in [Object -> Seq(AuditEvent)]
      BY <2>2, RecordAdds
    <2>4. told' \in Told
      BY <1>0, <1>9, <2>1 DEF RecordClosed, Told
    <2> QED
      BY <1>0, <1>2, <1>9, <2>3, <2>4, ReplyType, TypeFrame, Fields DEF RecordClosed
  <1>10. ASSUME NEW c \in Client, ReadAudit(c) PROVE TypeOK'
    <2>1. log[got[c]] \in Seq(AuditEvent)
      BY <1>0, <1>10, Fields DEF ReadAudit, At, Id, Object
    <2> QED
      BY <1>0, <1>2, <1>10, <2>1, ReplyType, TypeFrame, Fields DEF ReadAudit, storeVars
  <1>11. ASSUME NEW c \in Client, ReadCatalog(c) \/ QueryJob(c) PROVE TypeOK'
    <2>1. PICK code \in Code : Reply(c, code, <<>>)
      BY <1>2, <1>11 DEF ReadCatalog, QueryJob
    <2> QED
      BY <1>0, <1>2, <1>11, <2>1, ReplyType, TypeFrame, Fields DEF ReadCatalog,
         QueryJob, storeVars
  <1>12. ASSUME NEW c \in Client, NEW j \in Job, StartInsert(c, j) PROVE TypeOK'
    <2>1. request' \in [Client -> Request]
      <3>1. request[c] \in Request
        BY Fields
      <3>2. [request[c] EXCEPT !.job = {j}] \in Request
        BY <3>1 DEF Request
      <3>3. request' = [request EXCEPT ![c] = [request[c] EXCEPT !.job = {j}]]
        BY <1>12 DEF StartInsert
      <3> QED
        BY <3>2, <3>3, Fields
    <2>2. /\ owner' \in [Job -> 0..MaxSessions] /\ starter' \in [Job -> 0..MaxSessions]
          /\ drainer' \in [Job -> Drainer] /\ held' = held
          /\ \A k \in Job : drainer'[k] = "recording" => drainer[k] = "recording"
      BY <1>12, Fields DEF StartInsert, Drainer
    <2>3. /\ pc' \in [Client -> PC] /\ answer' = answer /\ heard' = heard
          /\ UNCHANGED <<counter, minted, store, idOf, log, got, told>>
          /\ \A d \in Client : pc'[d] \in {"holding", "closing", "recording"} => pc[d] = pc'[d]
      BY <1>1, <1>12, Fields DEF StartInsert, Goto, storeVars
    <2> QED
      BY <2>1, <2>2, <2>3 DEF TypeOK, Drainer
  <1>13. ASSUME NEW c \in Client, Launch(c), StartGone(c) \/ StartRecord(c) PROVE TypeOK'
    <2>1. log' \in [Object -> Seq(AuditEvent)]
      <3>1. CASE log' = log
        BY <1>0, <3>1
      <3>2. CASE StartRecord(c)
        <4>1. PICK h \in Object : h = got[c]
          BY <1>0, <3>2, Fields DEF StartRecord, Object, Id
        <4>2. request[c].job \in {{}} \cup {{k} : k \in Job}
          BY Fields
        <4>3. PICK j \in Job : RecordAudit(h, [kind |-> "JobStarted", job |-> j])
          BY <3>2, <4>1, <4>2 DEF StartRecord
        <4>4. [kind |-> "JobStarted", job |-> j] \in AuditEvent
          BY DEF AuditEvent
        <4> QED
          BY <4>3, <4>4, RecordAdds
      <3> QED
        BY <1>13, <3>1, <3>2 DEF StartGone
    <2>2. PICK j \in request[c].job : /\ drainer' = [drainer EXCEPT ![j] = "running"]
                                      /\ told' = [told EXCEPT !.started = @ \cup {j}]
      BY <1>13 DEF Launch
    <2>3. request[c].job \in {{}} \cup {{k} : k \in Job} /\ j \in Job
      <3>1. request[c].job \in {{}} \cup {{k} : k \in Job}
        BY Fields
      <3> QED
        BY <2>2, <3>1
    <2>4. told' \in Told
      BY <1>0, <2>2, <2>3 DEF Told
    <2>5. /\ drainer' \in [Job -> Drainer]
          /\ \A k \in Job : drainer'[k] = "recording" => drainer[k] = "recording"
      BY <2>2, <2>3, Fields DEF Drainer
    <2>6. /\ Reply(c, "ok", <<>>)
          /\ UNCHANGED <<counter, minted, store, idOf, owner, held, starter, got>>
      BY <1>13 DEF Launch
    <2>7. /\ pc' \in [Client -> PC] /\ answer' \in [Client -> Answer]
          /\ request' = request /\ heard' = heard
          /\ \A d \in Client : pc'[d] \in {"holding", "closing", "recording"} => pc'[d] = pc[d]
      BY <1>2, <2>6, ReplyType
    <2> QED
      BY <2>1, <2>4, <2>5, <2>6, <2>7 DEF TypeOK, Drainer, Answer
  <1>14. ASSUME NEW j \in Job, Drain(j) PROVE TypeOK'
    <2>1. log' \in [Object -> Seq(AuditEvent)]
      <3>1. CASE log' = log
        BY <1>0, <3>1
      <3>2. CASE FinishRecord(j)
        <4>1. held[j] # 0
          BY <3>2 DEF FinishRecord, TypeOK
        <4>2. PICK h \in Object : h = held[j]
          BY <4>1, Fields DEF Object, Id
        <4>3. [kind |-> "JobFinished", job |-> j] \in AuditEvent
          BY DEF AuditEvent
        <4>4. RecordAudit(h, [kind |-> "JobFinished", job |-> j])
          BY <3>2, <4>2 DEF FinishRecord
        <4> QED
          BY <4>3, <4>4, RecordAdds
      <3> QED
        BY <1>14, <3>1, <3>2 DEF Drain, Finish, FinishLookup, storeVars
    <2>2. drainer[j] # "none"
      BY <1>14 DEF Drain, Finish, FinishLookup, FinishRecord
    <2>3. owner[j] \in Id
      BY <1>0, <2>2, Fields DEF Jobs, JobOwner
    <2>4. /\ drainer' \in [Job -> Drainer] /\ held' \in [Job -> 0..MaxSessions]
          /\ \A k \in Job : drainer'[k] = "recording" => held'[k] # 0
      <3>1. \A k \in Job : drainer[k] = "recording" => held[k] # 0
        BY DEF TypeOK
      <3>2. CASE Finish(j)
        BY <3>1, <3>2, Fields DEF Finish, Drainer
      <3>3. CASE FinishLookup(j)
        <4>1. PICK h \in 0..MaxSessions : h = store[owner[j]]
          BY <2>3, Fields
        <4>2. /\ held' = [held EXCEPT ![j] = h]
              /\ drainer' = [drainer EXCEPT ![j] = IF h = 0 THEN "done" ELSE "recording"]
          BY <3>3, <4>1 DEF FinishLookup
        <4>3. \A k \in Job : /\ held'[k] = IF k = j THEN h ELSE held[k]
                             /\ drainer'[k] = IF k = j
                                   THEN (IF h = 0 THEN "done" ELSE "recording")
                                   ELSE drainer[k]
          BY <4>2, Fields
        <4>4. held' \in [Job -> 0..MaxSessions] /\ drainer' \in [Job -> Drainer]
          BY <4>2, Fields DEF Drainer
        <4> QED
          BY <3>1, <4>3, <4>4
      <3>4. CASE FinishRecord(j)
        BY <3>1, <3>4, Fields DEF FinishRecord, Drainer
      <3> QED
        BY <1>14, <3>2, <3>3, <3>4 DEF Drain
    <2>5. UNCHANGED <<counter, minted, store, idOf, owner, starter, requestVars>>
      BY <1>14 DEF Drain, Finish, FinishLookup, FinishRecord, storeVars
    <2> QED
      BY <2>1, <2>4, <2>5 DEF TypeOK, Drainer, requestVars
  <1>15. ASSUME NEW c \in Client, Handle(c) PROVE TypeOK'
    <2>1. CASE OpenRefused(c) \/ Gone(c) \/ StartRefused(c)
      BY <1>2, <1>3, <2>1 DEF OpenRefused, Gone, StartRefused
    <2>2. CASE StartGone(c) \/ StartRecord(c)
      BY <1>13, <2>2 DEF StartGone, StartRecord
    <2> QED
      BY <1>4, <1>5, <1>6, <1>7, <1>8, <1>9, <1>10, <1>11, <1>12, <1>15, <2>1, <2>2
         DEF Handle
  <1> QED
    BY <1>14, <1>15 DEF Next

-----------------------------------------------------------------------------
(* Logs *)

\* No two events are taken for one another.
LEMMA Events ==
    /\ Opened \in AuditEvent /\ Closed \in AuditEvent /\ Opened # Closed
    /\ \A j \in Job : /\ Started(j) \in AuditEvent /\ Finished(j) \in AuditEvent
                      /\ Started(j) \notin {Opened, Closed}
                      /\ Finished(j) \notin {Opened, Closed}
    /\ \A j, k \in Job : /\ Started(j) # Finished(k)
                         /\ Started(j) = Started(k) => j = k
                         /\ Finished(j) = Finished(k) => j = k
  <1>1. /\ Opened.kind = "SessionOpened" /\ Closed.kind = "SessionClosed"
        /\ \A j \in Job : /\ Started(j).kind = "JobStarted" /\ Started(j).job = j
                          /\ Finished(j).kind = "JobFinished" /\ Finished(j).job = j
    BY DEF Opened, Closed, Started, Finished
  <1>2. /\ Opened \in AuditEvent /\ Closed \in AuditEvent
        /\ \A j \in Job : Started(j) \in AuditEvent /\ Finished(j) \in AuditEvent
    BY DEF Opened, Closed, Started, Finished, AuditEvent
  <1> QED
    BY <1>1, <1>2

\* A sequence with one more element.
LEMMA OneMore ==
    ASSUME NEW s \in Seq(AuditEvent), NEW e \in AuditEvent
    PROVE  /\ Append(s, e) \in Seq(AuditEvent)
           /\ DOMAIN Append(s, e) = DOMAIN s \cup {Len(s) + 1}
           /\ \A n \in DOMAIN s : Append(s, e)[n] = s[n] /\ n \in Nat /\ n < Len(s) + 1
           /\ Append(s, e)[Len(s) + 1] = e /\ Len(s) + 1 \in Nat
           /\ ToSet(Append(s, e)) = ToSet(s) \cup {e}
  <1>1. /\ Append(s, e) \in Seq(AuditEvent)
        /\ DOMAIN Append(s, e) = DOMAIN s \cup {Len(s) + 1}
        /\ \A n \in DOMAIN s : Append(s, e)[n] = s[n] /\ n \in Nat /\ n < Len(s) + 1
        /\ Append(s, e)[Len(s) + 1] = e /\ Len(s) + 1 \in Nat
    OBVIOUS
  <1>2. ToSet(Append(s, e)) = ToSet(s) \cup {e}
    BY <1>1, Zenon DEF ToSet
  <1> QED
    BY <1>1, <1>2

\* What comes later does not make a start late.
LEMMA InTimeStays ==
    ASSUME NEW s \in Seq(AuditEvent), NEW e \in AuditEvent, NEW j \in Job, InTime(s, j)
    PROVE  InTime(Append(s, e), j)
  <1> DEFINE t == Append(s, e)
  <1>1. PICK n \in DOMAIN s : s[n] = Started(j) /\ \A k \in DOMAIN s : s[k] = Closed => n < k
    BY DEF InTime
  <1>2. n \in DOMAIN t /\ t[n] = Started(j) /\ \A k \in DOMAIN t : t[k] = Closed => n < k
    BY <1>1, OneMore
  <1> QED
    BY <1>2 DEF InTime

\* A new event goes to the end of a log that has it not, a JobFinished only after its
\* JobStarted.
LEMMA WellOrderedStays ==
    ASSUME NEW s \in Seq(AuditEvent), WellOrdered(s),
           NEW e \in AuditEvent, e \notin ToSet(s),
           \A j \in Job : e = Finished(j) => InTime(s, j)
    PROVE  WellOrdered(Append(s, e))
  <1> DEFINE t == Append(s, e)
  <1>1. \A n \in DOMAIN s : s[n] # e
    BY DEF ToSet
  <1>2. ASSUME NEW m \in DOMAIN t, NEW n \in DOMAIN t, t[m] = t[n] PROVE m = n
    BY <1>1, <1>2, OneMore DEF WellOrdered
  <1>3. ASSUME NEW j \in Job, NEW m \in DOMAIN t, t[m] = Finished(j)
        PROVE  \E n \in DOMAIN t : /\ n < m /\ t[n] = Started(j)
                                   /\ \A k \in DOMAIN t : t[k] = Closed => n < k
    <2>1. PICK n \in DOMAIN s : /\ n < m /\ s[n] = Started(j)
                                /\ \A k \in DOMAIN s : s[k] = Closed => n < k
      <3>1. CASE m \in DOMAIN s
        BY <1>3, <3>1, OneMore DEF WellOrdered
      <3>2. CASE m = Len(s) + 1
        <4>1. InTime(s, j)
          BY <1>3, <3>2, OneMore
        <4> QED
          BY <3>2, <4>1, OneMore DEF InTime
      <3> QED
        BY <3>1, <3>2, OneMore
    <2>2. n \in DOMAIN t /\ t[n] = Started(j) /\ \A k \in DOMAIN t : t[k] = Closed => n < k
      BY <2>1, OneMore
    <2> QED
      BY <2>1, <2>2
  <1> QED
    BY <1>2, <1>3 DEF WellOrdered

\* The handle that a handler or a drainer has is that of an object there is.
LEMMA HandleIsKnown ==
    ASSUME TypeOK, RequestsInv
    PROVE  /\ \A c \in Client : pc[c] \in {"holding", "closing", "recording"} =>
                 got[c] \in 1..minted /\ got[c] \in Object
           /\ \A j \in Job : drainer[j] # "none" => /\ starter[j] \in 1..minted
                                                    /\ starter[j] \in Object
           /\ \A j \in Job : drainer[j] = "recording" => held[j] = starter[j]
  <1>1. Handlers /\ Jobs
    BY DEF RequestsInv
  <1>2. ASSUME NEW c \in Client, pc[c] \in {"holding", "closing", "recording"}
        PROVE  got[c] \in 1..minted /\ got[c] \in Object
    <2>1. got[c] # 0
      BY <1>2 DEF TypeOK
    <2>2. got[c] = request[c].token /\ request[c].token <= minted
      BY <1>1, <2>1 DEF Handlers
    <2> QED
      BY <2>1, <2>2, Fields DEF Object
  <1>3. ASSUME NEW j \in Job, drainer[j] # "none"
        PROVE  starter[j] \in 1..minted /\ starter[j] \in Object
    BY <1>1, <1>3, Fields DEF Jobs, JobOwner, Object
  <1>4. ASSUME NEW j \in Job, drainer[j] = "recording" PROVE held[j] = starter[j]
    BY <1>1, <1>4 DEF Jobs, JobOwner, TypeOK
  <1> QED
    BY <1>2, <1>3, <1>4

Logging(h, e) == log' = [log EXCEPT ![h] = Append(log[h], e)]

\* What is logged: SessionClosed by who took the session out of the map, JobStarted
\* by who started the job, JobFinished by its drainer.
LEMMA WhatIsLogged ==
    ASSUME TypeOK, RequestsInv, Next
    PROVE  \/ log' = log
           \/ \E c \in Client : Open(c)
           \/ \E c \in Client : RecordClosed(c) /\ Logging(got[c], Closed)
           \/ \E c \in Client : \E j \in Job :
                 /\ StartRecord(c) /\ request[c].job = {j}
                 /\ drainer[j] = "starting" /\ drainer' = [drainer EXCEPT ![j] = "running"]
                 /\ starter[j] = got[c] /\ Logging(got[c], Started(j))
           \/ \E j \in Job : FinishRecord(j) /\ Logging(starter[j], Finished(j))
  <1>1. ASSUME NEW c \in Client, StartRecord(c)
        PROVE  \E j \in Job :
                 /\ request[c].job = {j}
                 /\ drainer[j] = "starting" /\ drainer' = [drainer EXCEPT ![j] = "running"]
                 /\ starter[j] = got[c] /\ Logging(got[c], Started(j))
    <2>1. PICK j \in Job : request[c].job = {j} /\ drainer[j] = "starting"
                           /\ starter[j] = request[c].token
      BY <1>1 DEF RequestsInv, Jobs, Inserted, Starting, StartRecord
    <2>2. got[c] # 0 /\ got[c] = request[c].token
      BY <1>1 DEF StartRecord, TypeOK, RequestsInv, Handlers
    <2>3. RecordAudit(got[c], Started(j)) /\ drainer' = [drainer EXCEPT ![j] = "running"]
      BY <1>1, <2>1 DEF StartRecord, Launch, Started
    <2> QED
      BY <2>1, <2>2, <2>3 DEF RecordAudit, Logging
  <1>2. ASSUME NEW c \in Client, RecordClosed(c) PROVE Logging(got[c], Closed)
    BY <1>2 DEF RecordClosed, RecordAudit, Logging, Closed
  <1>3. ASSUME NEW j \in Job, FinishRecord(j) PROVE Logging(starter[j], Finished(j))
    <2>1. held[j] = starter[j]
      BY <1>3, HandleIsKnown DEF FinishRecord
    <2> QED
      BY <1>3, <2>1 DEF FinishRecord, RecordAudit, Logging, Finished
  <1>4. ASSUME NEW c \in Client, Handle(c), ~Open(c), ~RecordClosed(c), ~StartRecord(c)
        PROVE  log' = log
    BY <1>4 DEF Handle, Send, Authorize, OpenRefused, NextSessionId, TakeOut,
       Lookup, Gone, ReadAudit, ReadCatalog, StartRefused, StartInsert, StartGone,
       StartLookup, QueryJob, Fail, storeVars
  <1>5. ASSUME NEW j \in Job, Drain(j), ~FinishRecord(j) PROVE log' = log
    BY <1>5 DEF Drain, Finish, FinishLookup, storeVars
  <1> QED
    BY <1>1, <1>2, <1>3, <1>4, <1>5 DEF Next

\* A new event is not in the log yet, and a JobFinished comes in order.
LEMMA NewEvent ==
    ASSUME TypeOK, RequestsInv, Next, log' # log, ~\E c \in Client : Open(c)
    PROVE  \E h \in 1..minted : \E e \in AuditEvent :
              /\ h \in Object /\ Logging(h, e) /\ e \notin ToSet(log[h])
              /\ minted' = minted
              /\ \A j \in Job : e = Finished(j) => InTime(log[h], j)
  <1>0. ClosesOnce /\ JobsInLog
    BY DEF RequestsInv
  <1>1. ASSUME NEW c \in Client, RecordClosed(c), Logging(got[c], Closed)
        PROVE  /\ got[c] \in 1..minted /\ got[c] \in Object /\ Closed \notin ToSet(log[got[c]])
               /\ minted' = minted
    BY <1>0, <1>1, HandleIsKnown DEF RecordClosed, ClosesOnce
  <1>2. ASSUME NEW c \in Client, NEW j \in Job, StartRecord(c), drainer[j] = "starting",
               starter[j] = got[c]
        PROVE  /\ got[c] \in 1..minted /\ got[c] \in Object
               /\ Started(j) \notin ToSet(log[got[c]])
               /\ minted' = minted
    BY <1>0, <1>2, HandleIsKnown DEF StartRecord, Launch, JobsInLog, Logged
  <1>3. ASSUME NEW j \in Job, FinishRecord(j)
        PROVE  /\ starter[j] \in 1..minted /\ starter[j] \in Object
               /\ Finished(j) \notin ToSet(log[starter[j]])
               /\ InTime(log[starter[j]], j) /\ minted' = minted
    BY <1>0, <1>3, HandleIsKnown DEF FinishRecord, JobsInLog, Logged
  <1> QED
    BY <1>1, <1>2, <1>3, WhatIsLogged, Events

\* Every step keeps the logs in order.
LEMMA LogsStep ==
    ASSUME TypeOK, RequestsInv, Next
    PROVE  Logs'
  <1>0. Logs /\ Names
    BY DEF RequestsInv
  <1>1. CASE log' = log /\ minted' = minted
    BY <1>0, <1>1 DEF Logs, WellOrdered
  <1>2. ASSUME NEW c \in Client, Open(c) PROVE Logs'
    <2> DEFINE h == minted + 1
    <2>1. minted' = h /\ log' = [log EXCEPT ![h] = <<Opened>>] /\ h \in Object
      BY <1>2, Fields DEF Open, Fresh, Opened, Object
    <2>2. WellOrdered(<<Opened>>)
      BY Events DEF WellOrdered
    <2>3. \A g \in Object : log'[g] = IF g = h THEN <<Opened>> ELSE log[g]
      BY <2>1, Fields
    <2>4. \A g \in Object : WellOrdered(log'[g])
      BY <1>0, <2>2, <2>3 DEF Logs
    <2>5. \A g \in Object : g > minted' => log'[g] = <<>>
      BY <1>0, <2>1, <2>3, Fields DEF Logs, Object
    <2>6. \A g \in 1..minted' : 1 \in DOMAIN log'[g] /\ log'[g][1] = Opened
      <3>1. 1 \in DOMAIN <<Opened>> /\ <<Opened>>[1] = Opened
        OBVIOUS
      <3>2. \A g \in 1..minted' : g \in Object /\ (g # h => g \in 1..minted)
        BY <2>1, Fields DEF Object
      <3> QED
        BY <1>0, <2>3, <3>1, <3>2 DEF Logs
    <2> QED
      BY <2>4, <2>5, <2>6 DEF Logs, WellOrdered
  <1>3. CASE log' # log /\ ~\E c \in Client : Open(c)
    <2>1. PICK h \in 1..minted, e \in AuditEvent :
              /\ h \in Object /\ Logging(h, e) /\ e \notin ToSet(log[h])
              /\ minted' = minted
              /\ \A j \in Job : e = Finished(j) => InTime(log[h], j)
      BY <1>3, NewEvent
    <2>2. log[h] \in Seq(AuditEvent)
      BY <2>1, Fields
    <2>3. \A g \in Object : log'[g] = IF g = h THEN Append(log[h], e) ELSE log[g]
      BY <2>1, Fields DEF Logging
    <2>4. \A g \in Object : WellOrdered(log'[g])
      BY <1>0, <2>1, <2>2, <2>3, WellOrderedStays DEF Logs
    <2>5. \A g \in Object : g > minted' => log'[g] = <<>>
      BY <1>0, <2>1, <2>3, Fields DEF Logs, Object
    <2>6. \A g \in 1..minted' : 1 \in DOMAIN log'[g] /\ log'[g][1] = Opened
      <3>1. \A g \in 1..minted' : g \in Object /\ g \in 1..minted
        BY <2>1, Fields DEF Object
      <3>2. 1 \in DOMAIN Append(log[h], e) /\ Append(log[h], e)[1] = Opened
        BY <1>0, <2>2, OneMore DEF Logs
      <3>3. ASSUME NEW g \in 1..minted' PROVE 1 \in DOMAIN log'[g] /\ log'[g][1] = Opened
        <4>1. CASE g = h
          BY <2>1, <2>3, <3>2, <4>1
        <4>2. CASE g # h
          BY <1>0, <2>3, <3>1, <4>2 DEF Logs
        <4> QED
          BY <4>1, <4>2
      <3> QED
        BY <3>3
    <2> QED
      BY <2>4, <2>5, <2>6 DEF Logs, WellOrdered
  <1>4. (\E c \in Client : Open(c)) \/ minted' = minted
    <2>1. ASSUME NEW c \in Client, Handle(c), ~Open(c) PROVE minted' = minted
      BY <2>1 DEF Handle, Send, Authorize, OpenRefused, NextSessionId, TakeOut,
         RecordClosed, Lookup, Gone, ReadAudit, ReadCatalog, StartRefused, StartInsert,
         StartGone, StartLookup, StartRecord, QueryJob, Launch, Fail
    <2>2. ASSUME NEW j \in Job, Drain(j) PROVE minted' = minted
      BY <2>2 DEF Drain, Finish, FinishLookup, FinishRecord
    <2> QED
      BY <2>1, <2>2 DEF Next
  <1> QED
    BY <1>1, <1>2, <1>3, <1>4

\* Every step keeps a close to itself.
LEMMA ClosesOnceStep ==
    ASSUME TypeOK, RequestsInv, Next
    PROVE  ClosesOnce'
  <1> USE DEF Id, Object
  <1>0. Names /\ Handlers /\ Closes /\ ClosesOnce /\ Logs
    BY DEF RequestsInv
  <1>1. ASSUME NEW c \in Client, TakeOut(c) PROVE ClosesOnce'
    <2> DEFINE i == request[c].id
               h == store[i]
    <2>1. /\ i \in Id /\ h # 0 /\ log' = log
          /\ got' = [got EXCEPT ![c] = h] /\ pc' = [pc EXCEPT ![c] = "closing"]
          /\ store' = [store EXCEPT ![i] = 0]
      BY <1>0, <1>1, Fields DEF TakeOut, Goto, At, Handlers, Passed
    <2>2. /\ ~Shut(h) /\ h \in Object /\ idOf[h] = i
      BY <1>0, <2>1, Fields DEF ClosesOnce, Names
    <2>3. \A d \in Client : pc'[d] = "closing" =>
            \/ d = c /\ got'[d] = h
            \/ d # c /\ pc[d] = "closing" /\ got'[d] = got[d] /\ got[d] # h
      BY <2>1, <2>2, Fields DEF Shut
    <2>4. Closed \notin ToSet(log[h])
      BY <2>2 DEF Shut
    <2>5. ASSUME NEW k \in Id, store'[k] # 0 PROVE ~Shut(store[k])'
      <3>1. k # i /\ store'[k] = store[k] /\ ~Shut(store[k])
        BY <1>0, <2>1, <2>5, Fields DEF ClosesOnce
      <3>2. store[k] # h
        BY <1>0, <2>2, <3>1, <2>5 DEF Names
      <3> QED
        BY <2>1, <2>3, <3>1, <3>2 DEF Shut
    <2> HIDE DEF h, i
    <2>6. \A d \in Client : pc'[d] = "closing" => Closed \notin ToSet(log'[got'[d]])
      BY <1>0, <2>1, <2>3, <2>4 DEF ClosesOnce
    <2>7. \A d, e \in Client :
             pc'[d] = "closing" /\ pc'[e] = "closing" /\ got'[d] = got'[e] => d = e
      BY <1>0, <2>3 DEF ClosesOnce
    <2> QED
      BY <2>5, <2>6, <2>7 DEF ClosesOnce
  \* Who is closing was closing before, unless it took the session out just now.
  <1>2. ASSUME NEW c \in Client, pc'[c] = "closing", ~TakeOut(c)
        PROVE  pc[c] = "closing" /\ got'[c] = got[c]
    <2>1. ASSUME Handle(c) PROVE FALSE
      BY <1>2, <2>1, Fields DEF Handle, Send, Authorize, OpenRefused, NextSessionId,
         Open, RecordClosed, Lookup, Gone, ReadAudit, ReadCatalog, StartRefused,
         StartInsert, StartGone, StartLookup, StartRecord, QueryJob, Launch, Fail,
         Reply, Goto
    <2>2. ASSUME NEW d \in Client, d # c, Handle(d) PROVE pc'[c] = pc[c] /\ got'[c] = got[c]
      BY <2>2, OthersStay
    <2>3. ASSUME NEW j \in Job, Drain(j) PROVE pc'[c] = pc[c] /\ got'[c] = got[c]
      BY <2>3 DEF Drain, Finish, FinishLookup, FinishRecord, requestVars
    <2> QED
      BY <1>2, <2>1, <2>2, <2>3 DEF Next
  <1>3. ASSUME \A c \in Client : ~TakeOut(c)
        PROVE  \A c, d \in Client :
                  pc'[c] = "closing" /\ pc'[d] = "closing" /\ got'[c] = got'[d] => c = d
    BY <1>0, <1>2, <1>3 DEF ClosesOnce
  \* No log has a SessionClosed that it had not.
  <1>4. ASSUME \A c \in Client : ~TakeOut(c),
               \A h \in Object : h <= minted => (Closed \in ToSet(log'[h]) => Closed \in ToSet(log[h]))
        PROVE  /\ \A c \in Client : pc'[c] = "closing" => Closed \notin ToSet(log'[got'[c]])
               /\ \A h \in 1..minted : Shut(h)' => Shut(h)
    <2>1. ASSUME NEW c \in Client, pc'[c] = "closing" PROVE Closed \notin ToSet(log'[got'[c]])
      <3>1. pc[c] = "closing" /\ got'[c] = got[c]
        BY <1>2, <1>4, <2>1
      <3>2. got[c] \in 1..minted /\ got[c] \in Object
        BY <3>1, HandleIsKnown
      <3> QED
        BY <1>0, <1>4, <3>1, <3>2 DEF ClosesOnce
    <2>2. ASSUME NEW h \in 1..minted, Shut(h)' PROVE Shut(h)
      BY <1>2, <1>4, <2>2, Fields DEF Shut
    <2> QED
      BY <2>1, <2>2
  <1>5. \A i \in Id : store[i] # 0 => store[i] \in 1..minted /\ store[i] \in Object
    BY <1>0, Fields DEF Names
  <1>6. ASSUME NEW c \in Client, Open(c) PROVE ClosesOnce'
    <2>0. PICK h \in Object : h = minted + 1 /\ minted < MaxSessions
      BY <1>6, Fields DEF Open
    <2>1. /\ h \in Object /\ minted < MaxSessions
          /\ \A i \in Id : store'[i] = store[i] \/ store'[i] = h
          /\ log' = [log EXCEPT ![h] = <<Opened>>]
          /\ \A d \in Client : ~TakeOut(d)
      <3>1. ASSUME NEW d \in Client, TakeOut(d) PROVE FALSE
        BY <1>6, <3>1, Fields DEF Open, TakeOut, Fresh
      <3> QED
        BY <1>6, <2>0, <3>1, Fields DEF Open, Fresh, Opened
    <2>2. \A g \in Object : g <= minted => log'[g] = log[g]
      BY <2>0, <2>1, Fields
    <2>3. /\ \A d \in Client : pc'[d] = "closing" => Closed \notin ToSet(log'[got'[d]])
          /\ \A g \in 1..minted : Shut(g)' => Shut(g)
      BY <1>4, <2>1, <2>2
    <2>4. ~Shut(h)'
      <3>1. log'[h] = <<Opened>>
        BY <2>1, Fields
      <3>2. Closed \notin ToSet(<<Opened>>)
        BY Events DEF ToSet
      <3>3. ASSUME NEW d \in Client, pc'[d] = "closing", got'[d] = h PROVE FALSE
        <4>1. pc[d] = "closing" /\ got[d] = h
          BY <1>2, <2>1, <3>3
        <4> QED
          BY <2>0, <4>1, HandleIsKnown, Fields
      <3> QED
        BY <3>1, <3>2, <3>3 DEF Shut
    <2>5. ASSUME NEW i \in Id, store'[i] # 0 PROVE ~Shut(store[i])'
      <3>1. CASE store'[i] = h
        BY <2>4, <3>1 DEF Shut
      <3>2. CASE store'[i] = store[i] /\ store[i] # 0
        <4>1. ~Shut(store[i]) /\ store[i] \in 1..minted
          BY <1>0, <1>5, <3>2 DEF ClosesOnce
        <4> QED
          BY <2>3, <3>2, <4>1 DEF Shut
      <3> QED
        BY <2>1, <2>5, <3>1, <3>2
    <2> QED
      BY <1>3, <2>1, <2>3, <2>5 DEF ClosesOnce
  <1>7. ASSUME NEW c \in Client, RecordClosed(c), Logging(got[c], Closed) PROVE ClosesOnce'
    <2> DEFINE h == got[c]
    <2>1. /\ store' = store /\ pc[c] = "closing" /\ pc' = [pc EXCEPT ![c] = "answered"]
          /\ got' = got
      BY <1>7 DEF RecordClosed, Reply
    <2>2. h \in 1..minted /\ h \in Object
      BY <2>1, HandleIsKnown
    <2>3. \A g \in Object : g # h => log'[g] = log[g]
      BY <1>7, <2>2, Fields DEF Logging
    <2>4. \A d \in Client : pc'[d] = "closing" => pc[d] = "closing" /\ got[d] # h /\ d # c
      BY <1>0, <2>1, Fields DEF ClosesOnce
    <2>5. ASSUME NEW d \in Client, pc'[d] = "closing" PROVE Closed \notin ToSet(log'[got'[d]])
      <3>1. got[d] \in Object /\ got[d] # h /\ pc[d] = "closing"
        BY <2>4, <2>5, HandleIsKnown
      <3> QED
        BY <1>0, <2>1, <2>3, <3>1 DEF ClosesOnce
    <2>6. ASSUME NEW i \in Id, store'[i] # 0 PROVE ~Shut(store[i])'
      <3>1. ~Shut(store[i]) /\ store[i] \in Object /\ store'[i] = store[i]
        BY <1>0, <1>5, <2>1, <2>6 DEF ClosesOnce
      <3>2. store[i] # h
        BY <2>1, <3>1 DEF Shut
      <3>3. log'[store[i]] = log[store[i]]
        BY <2>3, <3>1, <3>2
      <3> QED
        BY <2>1, <2>4, <3>1, <3>3 DEF Shut
    <2>7. \A d, e \in Client :
             pc'[d] = "closing" /\ pc'[e] = "closing" /\ got'[d] = got'[e] => d = e
      BY <1>0, <2>1, <2>4 DEF ClosesOnce
    <2> QED
      BY <2>5, <2>6, <2>7 DEF ClosesOnce
  <1>8. ASSUME store' = store, \A c \in Client : ~TakeOut(c),
               \A h \in Object : Closed \in ToSet(log'[h]) => Closed \in ToSet(log[h])
        PROVE  ClosesOnce'
    <2>1. /\ \A c \in Client : pc'[c] = "closing" => Closed \notin ToSet(log'[got'[c]])
          /\ \A h \in 1..minted : Shut(h)' => Shut(h)
      BY <1>4, <1>8
    <2>2. ASSUME NEW i \in Id, store'[i] # 0 PROVE ~Shut(store[i])'
      <3>1. ~Shut(store[i]) /\ store[i] \in 1..minted /\ store'[i] = store[i]
        BY <1>0, <1>5, <1>8, <2>2 DEF ClosesOnce
      <3> QED
        BY <2>1, <3>1 DEF Shut
    <2> QED
      BY <1>3, <1>8, <2>1, <2>2 DEF ClosesOnce
  <1>9. ASSUME NEW h \in Object, NEW e \in AuditEvent, e # Closed, Logging(h, e)
        PROVE  \A g \in Object : Closed \in ToSet(log'[g]) => Closed \in ToSet(log[g])
    <2>1. log[h] \in Seq(AuditEvent)
      BY Fields
    <2>2. \A g \in Object : log'[g] = IF g = h THEN Append(log[h], e) ELSE log[g]
      BY <1>9, Fields DEF Logging
    <2>3. ToSet(Append(log[h], e)) = ToSet(log[h]) \cup {e}
      BY <2>1, OneMore
    <2> QED
      BY <1>9, <2>2, <2>3
  <1>10. ASSUME \A c \in Client : ~TakeOut(c) /\ ~Open(c) PROVE store' = store
    <2>1. ASSUME NEW c \in Client, Handle(c) PROVE store' = store
      BY <1>10, <2>1 DEF Handle, Send, Authorize, OpenRefused, NextSessionId,
         RecordClosed, Lookup, Gone, ReadAudit, ReadCatalog, StartRefused, StartInsert,
         StartGone, StartLookup, StartRecord, QueryJob, Launch, Fail, storeVars
    <2>2. ASSUME NEW j \in Job, Drain(j) PROVE store' = store
      BY <2>2 DEF Drain, Finish, FinishLookup, FinishRecord, storeVars
    <2> QED
      BY <2>1, <2>2 DEF Next
  <1>11. CASE \A c \in Client : ~TakeOut(c) /\ ~Open(c)
    <2>1. CASE log' = log
      BY <1>8, <1>10, <1>11, <2>1
    <2>2. ASSUME NEW c \in Client, NEW j \in Job, StartRecord(c), Logging(got[c], Started(j))
          PROVE  ClosesOnce'
      <3>1. got[c] \in Object
        BY <2>2, HandleIsKnown DEF StartRecord
      <3> QED
        BY <1>8, <1>9, <1>10, <1>11, <2>2, <3>1, Events
    <2>3. ASSUME NEW j \in Job, FinishRecord(j), Logging(starter[j], Finished(j))
          PROVE  ClosesOnce'
      <3>1. starter[j] \in Object
        BY <2>3, HandleIsKnown DEF FinishRecord
      <3> QED
        BY <1>8, <1>9, <1>10, <1>11, <2>3, <3>1, Events
    <2> QED
      BY <1>7, <1>11, <2>1, <2>2, <2>3, WhatIsLogged
  <1> QED
    BY <1>1, <1>6, <1>11

\* How the step of a handler or a drainer shows on a job.
LEMMA JobSteps ==
    ASSUME TypeOK, RequestsInv, Next, NEW j \in Job
    PROVE  \/ starter'[j] = starter[j] /\ drainer'[j] = drainer[j]
           \/ drainer[j] = "none" /\ drainer'[j] = "starting"
           \/ /\ starter'[j] = starter[j] /\ drainer[j] = "starting" /\ drainer'[j] = "running"
              /\ \E c \in Client : /\ StartGone(c) \/ StartRecord(c)
                                   /\ request[c].job = {j} /\ starter[j] = request[c].token
           \/ starter'[j] = starter[j] /\ drainer[j] = "running" /\ drainer'[j] = "finishing"
           \/ starter'[j] = starter[j] /\ drainer[j] = "finishing" /\ FinishLookup(j)
           \/ starter'[j] = starter[j] /\ FinishRecord(j)
  <1>1. ASSUME NEW c \in Client, NEW k \in Job, StartInsert(c, k)
        PROVE  \/ starter'[j] = starter[j] /\ drainer'[j] = drainer[j]
               \/ drainer[j] = "none" /\ drainer'[j] = "starting"
    BY <1>1, Fields DEF StartInsert
  <1>2. ASSUME NEW c \in Client, StartGone(c) \/ StartRecord(c)
        PROVE  /\ starter'[j] = starter[j]
               /\ \/ drainer'[j] = drainer[j]
                  \/ /\ drainer[j] = "starting" /\ drainer'[j] = "running"
                     /\ request[c].job = {j} /\ starter[j] = request[c].token
    <2>1. PICK k \in Job : /\ request[c].job = {k} /\ drainer[k] = "starting"
                           /\ starter[k] = request[c].token
      BY <1>2 DEF RequestsInv, Jobs, Inserted, Starting, StartGone, StartRecord
    <2>2. starter' = starter /\ drainer' = [drainer EXCEPT ![k] = "running"]
      BY <1>2, <2>1 DEF StartGone, StartRecord, Launch
    <2> QED
      BY <2>1, <2>2, Fields
  <1>3. ASSUME NEW c \in Client, Handle(c), ~StartGone(c), ~StartRecord(c),
               ~\E k \in Job : StartInsert(c, k)
        PROVE  starter' = starter /\ drainer' = drainer
    BY <1>3 DEF Handle, Send, Authorize, OpenRefused, NextSessionId, Open, TakeOut,
       RecordClosed, Lookup, Gone, ReadAudit, ReadCatalog, StartRefused, StartLookup,
       QueryJob, Fail, jobVars
  <1>4. ASSUME NEW k \in Job, Drain(k)
        PROVE  /\ starter'[j] = starter[j]
               /\ \/ drainer'[j] = drainer[j]
                  \/ drainer[j] = "running" /\ drainer'[j] = "finishing"
                  \/ drainer[j] = "finishing" /\ FinishLookup(j)
                  \/ FinishRecord(j)
    <2>1. CASE k = j
      BY <1>4, <2>1, Fields DEF Drain, Finish, FinishLookup, FinishRecord
    <2>2. CASE k # j
      BY <1>4, <2>2, Fields DEF Drain, Finish, FinishLookup, FinishRecord
    <2> QED
      BY <2>1, <2>2
  <1> QED
    BY <1>1, <1>2, <1>3, <1>4 DEF Next

\* Every step keeps the logs in line with the drainers.
LEMMA JobsInLogStep ==
    ASSUME TypeOK, RequestsInv, Next
    PROVE  JobsInLog'
  <1> USE DEF Id, Object
  <1>0. Names /\ Handlers /\ Jobs /\ ClosesOnce /\ Logs /\ JobsInLog
    BY DEF RequestsInv
  <1> SUFFICES ASSUME NEW j \in Job PROVE Logged(j)'
    BY DEF JobsInLog
  <1>1. Logged(j)
    BY <1>0 DEF JobsInLog
  \* An event of the job that was not there was recorded just now.
  <1>2. ASSUME NEW h \in Object, NEW e \in {Started(j), Finished(j)}, e \in ToSet(log'[h])
        PROVE  \/ e \in ToSet(log[h])
               \/ /\ e = Started(j) /\ starter[j] = h /\ drainer[j] = "starting"
                  /\ drainer'[j] = "running"
               \/ e = Finished(j) /\ starter[j] = h /\ FinishRecord(j)
    <2>1. ASSUME NEW g \in Object, NEW f \in AuditEvent, Logging(g, f)
          PROVE  e \in ToSet(log[h]) \/ (e = f /\ g = h)
      <3>1. log[g] \in Seq(AuditEvent)
        BY Fields
      <3>2. log'[h] = IF g = h THEN Append(log[g], f) ELSE log[h]
        BY <2>1, Fields DEF Logging
      <3>3. ToSet(Append(log[g], f)) = ToSet(log[g]) \cup {f}
        BY <3>1, OneMore
      <3> QED
        BY <1>2, <3>2, <3>3
    <2>2. CASE log' = log
      BY <1>2, <2>2
    <2>3. CASE \E c \in Client : Open(c)
      <3>1. log' = [log EXCEPT ![minted + 1] = <<Opened>>]
        BY <2>3 DEF Open, Fresh, Opened
      <3>2. log'[h] = log[h] \/ log'[h] = <<Opened>>
        BY <3>1, Fields
      <3>3. e \notin ToSet(<<Opened>>)
        BY Events DEF ToSet
      <3> QED
        BY <1>2, <3>2, <3>3
    <2>4. ASSUME NEW c \in Client, RecordClosed(c), Logging(got[c], Closed)
          PROVE  e \in ToSet(log[h])
      <3>1. got[c] \in Object
        BY <2>4, HandleIsKnown DEF RecordClosed
      <3> QED
        BY <2>1, <2>4, <3>1, Events
    <2>5. ASSUME NEW c \in Client, NEW k \in Job, StartRecord(c), drainer[k] = "starting",
                 drainer' = [drainer EXCEPT ![k] = "running"],
                 starter[k] = got[c], Logging(got[c], Started(k))
          PROVE  \/ e \in ToSet(log[h])
                 \/ /\ e = Started(j) /\ starter[j] = h /\ drainer[j] = "starting"
                    /\ drainer'[j] = "running"
      <3>1. got[c] \in Object
        BY <2>5, HandleIsKnown DEF StartRecord
      <3>2. e \in ToSet(log[h]) \/ (e = Started(k) /\ got[c] = h)
        BY <2>1, <2>5, <3>1, Events
      <3>3. e = Started(k) => k = j
        BY Events
      <3> QED
        BY <2>5, <3>2, <3>3, Fields
    <2>6. ASSUME NEW k \in Job, FinishRecord(k), Logging(starter[k], Finished(k))
          PROVE  \/ e \in ToSet(log[h])
                 \/ e = Finished(j) /\ starter[j] = h /\ FinishRecord(j)
      <3>1. starter[k] \in Object
        BY <2>6, HandleIsKnown DEF FinishRecord
      <3>2. e \in ToSet(log[h]) \/ (e = Finished(k) /\ starter[k] = h)
        BY <2>1, <2>6, <3>1, Events
      <3>3. e = Finished(k) => k = j
        BY Events
      <3> QED
        BY <2>6, <3>2, <3>3
    <2> QED
      BY <2>2, <2>3, <2>4, <2>5, <2>6, WhatIsLogged
  <1>3. ASSUME NEW h \in Object, Started(j) \in ToSet(log'[h])
        PROVE  starter'[j] = h /\ drainer'[j] \notin {"none", "starting"}
    <2>1. CASE Started(j) \in ToSet(log[h])
      BY <1>0, <1>1, <2>1, JobsStay DEF Logged
    <2>2. CASE starter[j] = h /\ drainer[j] = "starting" /\ drainer'[j] = "running"
      BY <2>2, JobSteps
    <2> QED
      BY <1>2, <1>3, <2>1, <2>2, Events
  <1>4. ASSUME NEW h \in Object, Finished(j) \in ToSet(log'[h])
        PROVE  starter'[j] = h /\ drainer'[j] = "done"
    <2>1. CASE Finished(j) \in ToSet(log[h])
      <3>1. starter[j] = h /\ drainer[j] = "done"
        BY <1>1, <2>1 DEF Logged
      <3> QED
        BY <3>1, JobSteps DEF FinishLookup, FinishRecord
    <2>2. CASE starter[j] = h /\ FinishRecord(j)
      BY <2>2, JobSteps, Fields DEF FinishRecord
    <2> QED
      BY <1>2, <1>4, <2>1, <2>2, Events
  <1>5. ASSUME NEW h \in 1..minted
        PROVE  /\ h \in Object /\ ToSet(log[h]) \subseteq ToSet(log'[h])
               /\ NotStored(h) => NotStored(h)'
               /\ InTime(log[h], j) => InTime(log'[h], j)
    <2>1. /\ h \in Object /\ ToSet(log[h]) \subseteq ToSet(log'[h])
          /\ NotStored(h) => NotStored(h)'
      BY SessionsStay
    <2>2. log'[h] = log[h] \/ \E e \in AuditEvent : log'[h] = Append(log[h], e)
      <3>1. CASE log' = log
        BY <3>1
      <3>2. CASE \E c \in Client : Open(c)
        BY <2>1, <3>2, Fields DEF Open, Fresh
      <3>3. CASE log' # log /\ ~\E c \in Client : Open(c)
        BY <2>1, <3>3, NewEvent, Fields DEF Logging
      <3> QED
        BY <3>1, <3>2, <3>3
    <2>3. log[h] \in Seq(AuditEvent)
      BY <2>1, Fields
    <2> QED
      BY <2>1, <2>2, <2>3, InTimeStays
  <1>6. ASSUME drainer'[j] \in {"running", "finishing"}
        PROVE  Started(j) \in ToSet(log'[starter'[j]]) \/ NotStored(starter[j])'
    <2> DEFINE h == starter[j]
    <2>1. CASE drainer[j] \in {"running", "finishing"}
      <3>1. starter'[j] = starter[j] /\ h \in 1..minted
        BY <1>6, <2>1, JobSteps, HandleIsKnown
      <3>2. Started(j) \in ToSet(log[h]) \/ NotStored(h)
        BY <1>1, <2>1 DEF Logged
      <3> HIDE DEF h
      <3>3. Started(j) \in ToSet(log'[h]) \/ \A i \in Id : store'[i] # h
        BY <1>5, <3>1, <3>2 DEF NotStored
      <3> QED
        BY <3>1, <3>3 DEF NotStored, h
    <2>2. ASSUME NEW c \in Client, StartGone(c) \/ StartRecord(c), request[c].job = {j},
                 starter[j] = request[c].token, starter'[j] = starter[j]
          PROVE  Started(j) \in ToSet(log'[starter'[j]]) \/ NotStored(starter[j])'
      <3>1. CASE StartGone(c)
        <4> DEFINE i == request[c].id
        <4>1. /\ i \in Id /\ h \in Object /\ idOf[h] = i /\ store[i] = 0
              /\ store' = store
          BY <1>0, <2>2, <3>1, Fields DEF StartGone, Launch, Handlers, Passed
        <4>2. NotStored(h)
          BY <1>0, <4>1 DEF NotStored, Names
        <4> QED
          BY <2>2, <4>1, <4>2 DEF NotStored
      <3>2. CASE StartRecord(c)
        <4>1. got[c] \in Object /\ got[c] = starter[j]
          BY <1>0, <2>2, <3>2, HandleIsKnown, Fields DEF StartRecord, Handlers
        <4>2. Logging(got[c], Started(j))
          BY <2>2, <3>2 DEF StartRecord, RecordAudit, Logging, Started
        <4>3. log[got[c]] \in Seq(AuditEvent) /\ log'[got[c]] = Append(log[got[c]], Started(j))
          BY <4>1, <4>2, Fields DEF Logging
        <4> QED
          BY <2>2, <4>1, <4>3, OneMore, Events
      <3> QED
        BY <2>2, <3>1, <3>2
    <2> QED
      BY <1>6, <2>1, <2>2, JobSteps, Fields DEF FinishLookup, FinishRecord
  <1>7. ASSUME drainer'[j] = "recording" PROVE InTime(log'[starter'[j]], j)
    <2> DEFINE h == starter[j]
    <2>1. CASE drainer[j] = "recording"
      <3>1. starter'[j] = starter[j] /\ h \in 1..minted
        BY <1>7, <2>1, JobSteps, HandleIsKnown
      <3>2. InTime(log[h], j)
        BY <1>1, <2>1 DEF Logged
      <3> HIDE DEF h
      <3>3. InTime(log'[h], j)
        BY <1>5, <3>1, <3>2
      <3> QED
        BY <3>1, <3>3 DEF h
    <2>2. CASE FinishLookup(j) /\ starter'[j] = starter[j] /\ drainer[j] = "finishing"
      <3>1. store[owner[j]] # 0 /\ log' = log
        BY <1>7, <2>2, Fields DEF FinishLookup, storeVars
      <3>2. owner[j] \in Id /\ h \in Object /\ idOf[h] = owner[j]
        BY <1>0, <2>2, Fields DEF Jobs, JobOwner
      <3>3. store[owner[j]] = h
        <4>1. store[owner[j]] \in Object /\ idOf[store[owner[j]]] = owner[j]
          BY <1>0, <3>1, <3>2, Fields DEF Names
        <4> QED
          BY <1>0, <3>2, <4>1 DEF Names
      <3>4. ~NotStored(h) /\ ~Shut(h)
        BY <1>0, <3>1, <3>2, <3>3 DEF NotStored, ClosesOnce
      <3>5. Started(j) \in ToSet(log[h]) /\ Closed \notin ToSet(log[h])
        BY <1>1, <2>2, <3>4 DEF Logged, Shut
      <3>6. InTime(log[h], j)
        BY <3>5 DEF InTime, ToSet
      <3> QED
        BY <2>2, <3>1, <3>6
    <2> QED
      BY <1>7, <2>1, <2>2, JobSteps, Fields DEF FinishRecord
  <1> QED
    BY <1>3, <1>4, <1>6, <1>7 DEF Logged

-----------------------------------------------------------------------------
(* The theorems *)

\* A step that changes nothing keeps everything.
LEMMA StutterInv ==
    ASSUME TypeOK, RequestsInv, UNCHANGED vars
    PROVE  TypeOK' /\ RequestsInv'
  <1> USE DEF vars, storeVars, jobVars, requestVars
  <1>1. TypeOK'
    BY DEF TypeOK
  <1>2. Names'
    BY DEF RequestsInv, Names
  <1>3. Handlers'
    BY DEF RequestsInv, Handlers
  <1>4. Jobs'
    BY DEF RequestsInv, Jobs, JobOwner, Inserted, Starting, StartedBy, Answered, At
  <1>5. Closes'
    BY DEF RequestsInv, Closes, NotStored, Shut
  <1>6. ClosedIsClosed'
    BY DEF RequestsInv, ClosedIsClosed, Answered, At
  <1>7. RefusedOnlyAfterClose'
    BY DEF RequestsInv, RefusedOnlyAfterClose, Answered, At
  <1>8. Starts' /\ StartedIsAudited'
    BY DEF RequestsInv, Starts, StartedIsAudited, NotStored, Answered, At
  <1>9. Logs' /\ ClosesOnce' /\ JobsInLog'
    BY DEF RequestsInv, Logs, WellOrdered, ClosesOnce, Shut, JobsInLog, Logged, InTime, NotStored
  <1> QED
    BY <1>1, <1>2, <1>3, <1>4, <1>5, <1>6, <1>7, <1>8, <1>9 DEF RequestsInv

\* The invariant is inductive.
LEMMA NextInv ==
    ASSUME TypeOK, RequestsInv, [Next]_vars
    PROVE  TypeOK' /\ RequestsInv'
  <1>1. CASE Next
    <2>1. TypeOK' /\ Names' /\ Handlers' /\ Jobs'
      BY <1>1, TypeStep, NamesStep, HandlersStep, JobsStep
    <2>2. Closes' /\ ClosedIsClosed' /\ RefusedOnlyAfterClose'
      BY <1>1, ClosesStep, ClosedStep, RefusedStep
    <2>3. Starts' /\ StartedIsAudited'
      BY <1>1, StartsStep
    <2>4. Logs' /\ ClosesOnce' /\ JobsInLog'
      BY <1>1, LogsStep, ClosesOnceStep, JobsInLogStep
    <2> QED
      BY <2>1, <2>2, <2>3, <2>4 DEF RequestsInv
  <1>2. CASE UNCHANGED vars
    BY <1>2, StutterInv
  <1> QED
    BY <1>1, <1>2

\* Nothing that is reachable is outside the invariant.
THEOREM Invariant == Spec => [](TypeOK /\ RequestsInv)
  BY InitInv, NextInv, PTL DEF Spec

\* Type correctness: ids and tokens within what was handed out, and a handle where a
\* handler or a drainer needs one (session.rs, state.rs).
THEOREM TypeCorrect == Spec => []TypeOK
  BY Invariant, PTL

\* Handlers authorize an id and look it up later, and yet never act for another session
\* than that of the token (handlers.rs; engine.rs, lookup_owned).
THEOREM SessionsStayApart == Spec => []SessionsKeepApart
  <1>1. TypeOK /\ RequestsInv => SessionsKeepApart
    BY DEF RequestsInv, Handlers, Jobs, JobOwner, StartedBy, SessionsKeepApart
  <1> QED
    BY <1>1, Invariant, PTL

\* After an answered close every request with that token fails authorization, whatever
\* was under way (handlers.rs, session_close).
THEOREM ClosedStaysClosed == Spec => []ClosedIsClosed
  <1>1. RequestsInv => ClosedIsClosed
    BY DEF RequestsInv
  <1> QED
    BY <1>1, Invariant, PTL

\* Nobody with a good token is refused while the session is open: ids are not handed
\* out twice, and no other open replaces a session (state.rs, next_session_id).
THEOREM RefusalMeansClose == Spec => []RefusedOnlyAfterClose
  <1>1. RequestsInv => RefusedOnlyAfterClose
    BY DEF RequestsInv
  <1> QED
    BY <1>1, Invariant, PTL

\* An audit that was asked for after a start was answered has its JobStarted
\* (engine.rs, start).
THEOREM StartsAreAudited == Spec => []StartedIsAudited
  <1>1. RequestsInv => StartedIsAudited
    BY DEF RequestsInv
  <1> QED
    BY <1>1, Invariant, PTL

\* A set of which any two elements are one has at most one.
LEMMA AtMostOne ==
    ASSUME NEW S, \A m, n \in S : m = n
    PROVE  Cardinality(S) <= 1
  <1>1. CASE S = {}
    BY <1>1, FS_EmptySet
  <1>2. CASE S # {}
    <2>1. PICK m \in S : S = {m}
      BY <1>2
    <2>2. Cardinality({m}) = 1
      BY FS_Singleton
    <2> QED
      BY <2>1, <2>2
  <1> QED
    BY <1>1, <1>2

\* LogIsOrdered of the events of one job.
EventsInOrder(h, j) ==
    LET events == Positions(h, Started(j)) \cup Positions(h, Finished(j))
    IN /\ Cardinality(Positions(h, Started(j))) <= 1
       /\ Cardinality(Positions(h, Finished(j))) <= 1
       /\ \A m \in Positions(h, Finished(j)) :
             \E n \in Positions(h, Started(j)) : n < m
       /\ \A n \in Positions(h, Closed) :
             Cardinality({m \in events : m > n}) <= 1
       /\ events # {} => starter[j] = h

\* The log of a session tells its story in order, whatever closes it and however many
\* at a time (session.rs, close; engine.rs, record_session_audit).
THEOREM LogsAreOrdered == Spec => []LogIsOrdered
  <1>1. TypeOK /\ RequestsInv => LogIsOrdered
    <2> SUFFICES ASSUME TypeOK, RequestsInv, NEW h \in Object
                 PROVE  /\ Positions(h, Opened) = (IF h <= minted THEN {1} ELSE {})
                        /\ Cardinality(Positions(h, Closed)) <= 1
                        /\ \A j \in Job : EventsInOrder(h, j)
      BY DEF LogIsOrdered, EventsInOrder
    <2>1. Logs /\ JobsInLog
      BY DEF RequestsInv
    <2>2. WellOrdered(log[h]) /\ log[h] \in Seq(AuditEvent)
      BY <2>1, Fields DEF Logs
    <2>3. Positions(h, Opened) = (IF h <= minted THEN {1} ELSE {})
      <3>1. CASE h <= minted
        <4>1. 1 \in DOMAIN log[h] /\ log[h][1] = Opened
          BY <2>1, <3>1, Fields DEF Logs, Object
        <4> QED
          BY <2>2, <3>1, <4>1 DEF Positions, WellOrdered
      <3>2. CASE ~(h <= minted)
        <4>1. log[h] = <<>>
          BY <2>1, <3>2, Fields DEF Logs, Object
        <4> QED
          BY <3>2, <4>1 DEF Positions
      <3> QED
        BY <3>1, <3>2
    <2>4. ASSUME NEW e PROVE Cardinality(Positions(h, e)) <= 1
      <3>1. \A m, n \in Positions(h, e) : m = n
        BY <2>2 DEF Positions, WellOrdered
      <3> QED
        BY <3>1, AtMostOne
    <2>5. ASSUME NEW j \in Job PROVE EventsInOrder(h, j)
      <3> DEFINE S == Positions(h, Started(j))
                 F == Positions(h, Finished(j))
      <3>1. \A m \in F : \E n \in S : n < m /\ \A k \in Positions(h, Closed) : n < k
        BY <2>2 DEF WellOrdered, Positions
      <3>2. S \cup F # {} => starter[j] = h
        BY <2>1 DEF JobsInLog, Logged, Positions, ToSet
      <3>3. ASSUME NEW k \in Positions(h, Closed)
            PROVE  Cardinality({m \in S \cup F : m > k}) <= 1
        <4>1. /\ \A m, n \in S : m = n
              /\ \A m, n \in F : m = n
              /\ \A m \in S \cup F : m \in Nat
              /\ k \in Nat
          BY <2>2 DEF WellOrdered, Positions
        <4>2. \A m, n \in {i \in S \cup F : i > k} : m = n
          BY <3>1, <3>3, <4>1
        <4> QED
          BY <4>2, AtMostOne
      <3> HIDE DEF S, F
      <3>4. /\ \A m \in F : \E n \in S : n < m
            /\ \A n \in Positions(h, Closed) : Cardinality({m \in S \cup F : m > n}) <= 1
        BY <3>1, <3>3
      <3> QED
        BY <2>4, <3>2, <3>4 DEF EventsInOrder, S, F
    <2> QED
      BY <2>3, <2>4, <2>5
  <1> QED
    BY <1>1, Invariant, PTL

=============================================================================
