---------------------------- MODULE BackendProofs ----------------------------
(***************************************************************************)
(* Proofs about Backend, for any finite or infinite sets of runtimes,      *)
(* requests, jobs and cache keys.                                          *)
(***************************************************************************)
EXTENDS Backend, FiniteSetTheorems, TLAPS

RequestType ==
  [at: {"idle", "found"} \cup Inside, rt: Runtime \cup {NoRuntime}, key: Key \cup {NoKey},
   job: Job \cup {NoJob}, answer: {"none", "ok", "denied", "failed"}]
WorkType ==
  [at: {"free", "running", "over", "unslotted", "unlisted"}, rt: Runtime \cup {NoRuntime},
   key: Key \cup {NoKey}, owner: Req \cup {NoReq}, err: {"none", "denied", "failed"}]

\* The lease belongs to the current runtime, or to the one that Configure or
\* Close has in hand, and a runtime without it is closed.
LifeExact ==
  /\ current # NoRuntime => life.at = "idle"
  /\ lease = IF life.at \in {"stop", "drain", "publish"} THEN life.rt ELSE current
  /\ \A r \in Runtime :
       status[r] = IF r # lease THEN "closed" ELSE IF life.at = "drain" THEN "stopping" ELSE "live"

\* What is in a request's record where, and that only readers hold a page.
Keyed == {"knows", "missed", "waiting", "ready", "again", "reading"}
RequestFits(q, w, h) ==
  /\ w.at = "idle" <=> w.rt = NoRuntime
  /\ w.at \in Keyed => w.key \in Key
  /\ w.at = "waiting" <=> w.job # NoJob
  /\ w.at = "reading" <=> h # NoKey
RequestsFit == \A q \in Req : RequestFits(q, req[q], held[q])

JobsFit == \A j \in Job : job[j].at # "free" => job[j].rt \in Runtime /\ job[j].key \in Key

\* OneExtraction without counting.
Extracting == {j \in Job : job[j].at \in {"running", "over"}}
AtMostOne == \A i, j \in Extracting : i = j
SlotExact == slot = {job[j].rt : j \in Extracting}

ShelfEmpty == lease = NoRuntime => \A k \in Key : stock[k] = "absent"

IInv ==
  /\ TypeOK /\ LifeExact /\ OwnCacheOnly
  /\ RequestsFit /\ WaitersHaveJob
  /\ JobsFit /\ AtMostOne /\ SlotExact /\ MapExact
  /\ ShelfEmpty

\* The backend without a runtime satisfies the invariant.
LEMMA InitialBackend == Init => IInv
<1> SUFFICES ASSUME Init PROVE IInv
  OBVIOUS
<1> USE NobodyAssumption DEF Init, NoLife, NoWork, Idle, Cache!Init
<1>1. TypeOK
  BY DEF TypeOK, Inside
<1>2. LifeExact
  BY DEF LifeExact
<1>3. OwnCacheOnly
  BY DEF OwnCacheOnly, Inside
<1>4. RequestsFit /\ WaitersHaveJob
  BY DEF RequestsFit, RequestFits, WaitersHaveJob, Keyed
<1>5. JobsFit /\ AtMostOne
  BY DEF JobsFit, AtMostOne, Extracting
<1>6. SlotExact /\ MapExact /\ ShelfEmpty
  BY DEF SlotExact, Extracting, MapExact, ShelfEmpty
<1> QED
  BY <1>1, <1>2, <1>3, <1>4, <1>5, <1>6 DEF IInv

\* IInv from its parts, in the next state.
LEMMA Fold ==
  TypeOK' /\ LifeExact' /\ OwnCacheOnly' /\ RequestsFit' /\ WaitersHaveJob' /\ JobsFit' /\ AtMostOne'
    /\ SlotExact' /\ MapExact' /\ ShelfEmpty' => IInv'
  BY DEF IInv

\* What the cache does on its own leaves the shelf typed, and empty if it was.
LEMMA CacheClears ==
  ASSUME IInv, lease' = lease, NEW W, NEW G, Cache!Clear(W, G)
  PROVE  /\ stock' \in [Key -> {"absent", "shelved", "withdrawn"}]
         /\ held' = held /\ ShelfEmpty'
<1>1. TypeOK /\ ShelfEmpty
  BY DEF IInv
<1> QED
  BY <1>1 DEF TypeOK, ShelfEmpty, Cache!Clear

-----------------------------------------------------------------------------
(* Requests.                                                               *)

\* A step of one request keeps the invariant if what it leaves behind fits.
LEMMA OneRequest ==
  ASSUME IInv, NEW q \in Req, NEW w \in RequestType, NEW h \in Key \cup {NoKey},
         req' = [req EXCEPT ![q] = w], held' = [held EXCEPT ![q] = h],
         stock' \in [Key -> {"absent", "shelved", "withdrawn"}], ShelfEmpty',
         UNCHANGED <<lifeVars, jobVars, allowed>>,
         RequestFits(q, w, h),
         w.at \in Inside => w.rt = lease,
         w.at = "waiting" => /\ job[w.job].at # "free"
                             /\ job[w.job].rt = w.rt /\ job[w.job].key = w.key
  PROVE  IInv'
<1> USE NobodyAssumption
<1>1. TypeOK /\ LifeExact /\ OwnCacheOnly /\ RequestsFit /\ WaitersHaveJob /\ JobsFit /\ AtMostOne
      /\ SlotExact /\ MapExact
  BY DEF IInv
<1>2. /\ current' = current /\ life' = life /\ status' = status /\ sweeper' = sweeper
      /\ lease' = lease /\ listed' = listed /\ slot' = slot /\ job' = job /\ allowed' = allowed
  BY DEF lifeVars, jobVars
<1>3. req \in [Req -> RequestType] /\ held \in [Req -> Key \cup {NoKey}]
  BY <1>1 DEF TypeOK, RequestType
<1>4. req' \in [Req -> RequestType] /\ held' \in [Req -> Key \cup {NoKey}]
  BY <1>3
<1>5. \A p \in Req : /\ p # q => req'[p] = req[p] /\ held'[p] = held[p]
                     /\ req'[q] = w /\ held'[q] = h
  BY <1>3
<1>6. TypeOK'
  BY <1>1, <1>2, <1>4 DEF TypeOK, RequestType
<1>7. LifeExact'
  BY <1>1, <1>2 DEF LifeExact
<1>8. OwnCacheOnly'
  <2>1. \A p \in Req : req'[p].at \in Inside => req'[p].rt = lease'
    BY <1>1, <1>2, <1>5 DEF OwnCacheOnly
  <2>2. \A p \in Req : held'[p] # NoKey => req'[p].at \in Inside
    BY <1>1, <1>5 DEF OwnCacheOnly, RequestFits, Inside
  <2> QED
    BY <1>1, <1>2, <2>1, <2>2 DEF OwnCacheOnly
<1>9. RequestsFit' /\ WaitersHaveJob'
  BY <1>1, <1>2, <1>5 DEF RequestsFit, RequestFits, WaitersHaveJob
<1>10. JobsFit' /\ AtMostOne' /\ SlotExact' /\ MapExact'
  BY <1>1, <1>2 DEF JobsFit, AtMostOne, SlotExact, Extracting, MapExact
<1> QED
  BY <1>6, <1>7, <1>8, <1>9, <1>10, Fold

\* The same for a step that leaves the cache alone.
LEMMA RequestAlone ==
  ASSUME IInv, NEW q \in Req, NEW w \in RequestType,
         req' = [req EXCEPT ![q] = w],
         UNCHANGED <<lifeVars, jobVars, allowed, cacheVars>>,
         RequestFits(q, w, held[q]),
         w.at \in Inside => w.rt = lease,
         w.at = "waiting" => /\ job[w.job].at # "free"
                             /\ job[w.job].rt = w.rt /\ job[w.job].key = w.key
  PROVE  IInv'
<1>1. TypeOK /\ ShelfEmpty
  BY DEF IInv
<1>2. held[q] \in Key \cup {NoKey} /\ held' = [held EXCEPT ![q] = held[q]]
  BY <1>1 DEF TypeOK, cacheVars
<1>3. stock' \in [Key -> {"absent", "shelved", "withdrawn"}] /\ ShelfEmpty'
  BY <1>1 DEF TypeOK, ShelfEmpty, cacheVars, lifeVars
<1> QED
  BY <1>2, <1>3, OneRequest

\* What the invariant says of a request.
LEMMA RequestNow ==
  ASSUME IInv, NEW q \in Req
  PROVE  /\ req[q] \in RequestType /\ held[q] \in Key \cup {NoKey}
         /\ RequestFits(q, req[q], held[q])
         /\ req[q].at \in Inside => req[q].rt = lease
         /\ req[q].at = "waiting" => /\ job[req[q].job].at # "free"
                                     /\ job[req[q].job].rt = req[q].rt
                                     /\ job[req[q].job].key = req[q].key
  BY DEF IInv, TypeOK, RequestType, RequestsFit, OwnCacheOnly, WaitersHaveJob

\* A request on its way into the runtime, and out of it.
LEMMA Admission ==
  ASSUME IInv, NEW q \in Req, Arrive(q) \/ Admit(q) \/ Leave(q)
  PROVE  IInv'
<1> USE NobodyAssumption
<1>1. /\ req[q] \in RequestType /\ held[q] \in Key \cup {NoKey} /\ RequestFits(q, req[q], held[q])
      /\ req[q].at \in Inside => req[q].rt = lease
  BY RequestNow
<1>2. TypeOK /\ LifeExact
  BY DEF IInv
<1>3. CASE Arrive(q)
  <2> DEFINE w == [req[q] EXCEPT !.at = "found", !.rt = current]
  <2>1. w \in RequestType
    BY <1>1, <1>2 DEF RequestType, TypeOK
  <2>2. RequestFits(q, w, held[q]) /\ w.at = "found"
    BY <1>1, <1>3 DEF RequestFits, RequestType, Arrive, Keyed
  <2> QED
    BY <1>3, <2>1, <2>2, RequestAlone DEF Arrive, Inside
<1>4. CASE Admit(q) /\ status[req[q].rt] = "live"
  <2> DEFINE w == [req[q] EXCEPT !.at = "in"]
  <2>1. w \in RequestType /\ w.at = "in" /\ w.rt = req[q].rt
    BY <1>1 DEF RequestType, Inside
  <2>2. RequestFits(q, w, held[q])
    BY <1>1, <1>4 DEF RequestFits, RequestType, Admit, Keyed
  <2>3. req[q].rt \in Runtime
    BY <1>1, <1>4 DEF RequestFits, RequestType, Admit
  <2>4. w.rt = lease
    BY <1>2, <1>4, <2>1, <2>3 DEF LifeExact
  <2> QED
    BY <1>4, <2>1, <2>2, <2>4, RequestAlone DEF Admit, Goto
<1>5. CASE \/ Admit(q) /\ status[req[q].rt] # "live"
           \/ Leave(q)
  <2>1. Idle \in RequestType /\ Idle.at = "idle"
    BY DEF Idle, RequestType
  <2>2. RequestFits(q, Idle, held[q])
    BY <1>1, <1>5 DEF RequestFits, Admit, Leave, Idle, Keyed
  <2> QED
    BY <1>5, <2>1, <2>2, RequestAlone DEF Admit, Leave, Inside
<1> QED
  BY <1>3, <1>4, <1>5

\* The record of a request that has its answer.
Answered(q, what) ==
  [req[q] EXCEPT !.at = "leaving", !.answer = what, !.key = NoKey, !.job = NoJob]

\* An answered request holds nothing and waits for nothing.
LEMMA AnsweredFits ==
  ASSUME IInv, NEW q \in Req, req[q].at \in Inside, NEW what \in {"none", "ok", "denied", "failed"}
  PROVE  /\ Answered(q, what) \in RequestType
         /\ RequestFits(q, Answered(q, what), NoKey)
         /\ Answered(q, what).at = "leaving" /\ Answered(q, what).rt = lease
<1>1. /\ req[q] \in RequestType /\ RequestFits(q, req[q], held[q]) /\ req[q].rt = lease
  BY RequestNow
<1>2. Answered(q, what) \in RequestType
  BY <1>1 DEF Answered, RequestType, Inside
<1>3. Answered(q, what).at = "leaving" /\ Answered(q, what).rt = lease /\ Answered(q, what).job = NoJob
  BY <1>1 DEF Answered, RequestType
<1>4. RequestFits(q, Answered(q, what), NoKey)
  BY <1>1, <1>3 DEF RequestFits, Keyed, Inside
<1> QED
  BY <1>2, <1>3, <1>4

\* A request that held nothing is answered.
LEMMA AnswerAlone ==
  ASSUME IInv, NEW q \in Req, req[q].at \in Inside \ {"reading"},
         NEW what \in {"none", "ok", "denied", "failed"}, Answer(q, what),
         stock' \in [Key -> {"absent", "shelved", "withdrawn"}], ShelfEmpty', held' = held,
         UNCHANGED <<lifeVars, jobVars, allowed>>
  PROVE  IInv'
<1>1. held[q] = NoKey
  BY RequestNow DEF RequestFits, Inside
<1>2. held' = [held EXCEPT ![q] = NoKey]
  BY <1>1 DEF IInv, TypeOK
<1>3. req' = [req EXCEPT ![q] = Answered(q, what)]
  BY DEF Answer, Answered
<1>4. /\ Answered(q, what) \in RequestType
      /\ RequestFits(q, Answered(q, what), NoKey)
      /\ Answered(q, what).at = "leaving" /\ Answered(q, what).rt = lease
  BY AnsweredFits
<1> QED
  BY <1>2, <1>3, <1>4, OneRequest

\* A request only moves on, with the cache untouched and nothing in its hands.
LEMMA MoveAlone ==
  ASSUME IInv, NEW q \in Req, req[q].at \in Inside \ {"reading"},
         NEW at \in {"missed", "again"}, Goto(q, at), req[q].key \in Key, req[q].job = NoJob,
         stock' \in [Key -> {"absent", "shelved", "withdrawn"}], ShelfEmpty', held' = held,
         UNCHANGED <<lifeVars, jobVars, allowed>>
  PROVE  IInv'
<1> DEFINE w == [req[q] EXCEPT !.at = at]
<1>1. /\ req[q] \in RequestType /\ RequestFits(q, req[q], held[q]) /\ req[q].rt = lease
  BY RequestNow
<1>2. w \in RequestType /\ w.at = at /\ w.rt = lease /\ w.key = req[q].key /\ w.job = NoJob
  BY <1>1 DEF RequestType, Inside
<1>3. held[q] = NoKey
  BY <1>1 DEF RequestFits, Inside
<1>4. RequestFits(q, w, NoKey)
  BY <1>1, <1>2 DEF RequestFits, Keyed, Inside
<1>5. held' = [held EXCEPT ![q] = NoKey] /\ req' = [req EXCEPT ![q] = w]
  BY <1>3 DEF IInv, TypeOK, Goto
<1>6. w.at # "waiting"
  BY <1>2
<1> HIDE DEF w
<1> QED
  BY <1>2, <1>4, <1>5, <1>6, OneRequest

\* Authorization and the lookup of the cache key.
LEMMA Lookup ==
  ASSUME IInv, NEW q \in Req,
         Authorize(q) \/ LookupHit(q) \/ LookupMiss(q) \/ ReleaseHandle(q)
  PROVE  IInv'
<1> USE NobodyAssumption
<1>1. /\ req[q] \in RequestType /\ held[q] \in Key \cup {NoKey} /\ RequestFits(q, req[q], held[q])
      /\ req[q].at \in Inside => req[q].rt = lease
  BY RequestNow
<1>2. TypeOK /\ ShelfEmpty
  BY DEF IInv
<1>3. CASE Authorize(q) /\ \E k \in Key : req' = [req EXCEPT ![q].at = "knows", ![q].key = k]
  <2>1. PICK k \in Key : req' = [req EXCEPT ![q].at = "knows", ![q].key = k]
    BY <1>3
  <2> DEFINE w == [req[q] EXCEPT !.at = "knows", !.key = k]
  <2>2. w \in RequestType /\ w.at = "knows" /\ w.key = k /\ w.rt = req[q].rt /\ w.job = req[q].job
    BY <1>1 DEF RequestType, Inside
  <2>3. RequestFits(q, w, held[q]) /\ w.rt = lease
    BY <1>1, <1>3, <2>2 DEF RequestFits, Authorize, Inside
  <2>4. req' = [req EXCEPT ![q] = w]
    BY <2>1
  <2> HIDE DEF w
  <2> QED
    BY <1>3, <2>2, <2>3, <2>4, RequestAlone DEF Authorize
<1>4. CASE /\ Authorize(q)
           /\ ~\E k \in Key : req' = [req EXCEPT ![q].at = "knows", ![q].key = k]
  <2>1. \E what \in {"denied", "failed"} : Answer(q, what)
    BY <1>4 DEF Authorize
  <2>2. req[q].at \in Inside \ {"reading"} /\ UNCHANGED <<lifeVars, jobVars, allowed, cacheVars>>
    BY <1>4 DEF Authorize, Inside
  <2>3. stock' \in [Key -> {"absent", "shelved", "withdrawn"}] /\ ShelfEmpty' /\ held' = held
    BY <1>2, <2>2 DEF TypeOK, ShelfEmpty, cacheVars, lifeVars
  <2> QED
    BY <2>1, <2>2, <2>3, AnswerAlone
<1>5. CASE LookupHit(q)
  <2> DEFINE w == [req[q] EXCEPT !.at = "reading"]
  <2>1. w \in RequestType /\ w.at = "reading" /\ w.rt = req[q].rt /\ w.key = req[q].key
        /\ w.job = req[q].job
    BY <1>1 DEF RequestType, Inside
  <2>2. req[q].at \in Inside /\ req[q].key \in Key /\ req[q].at \in {"knows", "again"}
    BY <1>1, <1>5 DEF LookupHit, RequestFits, Inside, Keyed
  <2>3. held' = [held EXCEPT ![q] = req[q].key] /\ stock' = stock
    BY <1>5 DEF LookupHit, Cache!Borrow
  <2>4. RequestFits(q, w, req[q].key)
    BY <1>1, <2>1, <2>2 DEF RequestFits, Keyed
  <2>5. req' = [req EXCEPT ![q] = w]
    BY <1>5 DEF LookupHit, Goto
  <2>6. stock' \in [Key -> {"absent", "shelved", "withdrawn"}] /\ ShelfEmpty'
        /\ UNCHANGED <<lifeVars, jobVars, allowed>>
    BY <1>2, <1>5, <2>3 DEF TypeOK, ShelfEmpty, LookupHit, lifeVars
  <2>7. w.rt = lease
    BY <1>1, <2>1, <2>2
  <2> HIDE DEF w
  <2> QED
    BY <2>1, <2>2, <2>3, <2>4, <2>5, <2>6, <2>7, OneRequest
<1>6. CASE LookupMiss(q)
  <2>1. stock' \in [Key -> {"absent", "shelved", "withdrawn"}] /\ ShelfEmpty' /\ held' = held
        /\ UNCHANGED <<lifeVars, jobVars, allowed>>
    BY <1>6, CacheClears DEF LookupMiss, lifeVars
  <2>2. req[q].at \in Inside \ {"reading"} /\ req[q].key \in Key /\ req[q].job = NoJob
    BY <1>1, <1>6 DEF LookupMiss, RequestFits, Inside, Keyed
  <2>3. Answer(q, "failed") \/ Goto(q, "missed")
    BY <1>6 DEF LookupMiss
  <2> QED
    BY <2>1, <2>2, <2>3, AnswerAlone, MoveAlone
<1>7. CASE ReleaseHandle(q)
  <2>1. held' = [held EXCEPT ![q] = NoKey] /\ stock' = stock /\ UNCHANGED <<lifeVars, jobVars, allowed>>
    BY <1>7 DEF ReleaseHandle, Cache!Return
  <2>2. stock' \in [Key -> {"absent", "shelved", "withdrawn"}] /\ ShelfEmpty'
    BY <1>2, <2>1 DEF TypeOK, ShelfEmpty, lifeVars
  <2>3. req[q].at \in Inside
    BY <1>7 DEF ReleaseHandle, Inside
  <2>4. req' = [req EXCEPT ![q] = Answered(q, "ok")]
    BY <1>7 DEF ReleaseHandle, Answer, Answered
  <2>5. /\ Answered(q, "ok") \in RequestType
        /\ RequestFits(q, Answered(q, "ok"), NoKey)
        /\ Answered(q, "ok").at = "leaving" /\ Answered(q, "ok").rt = lease
    BY <2>3, AnsweredFits
  <2> QED
    BY <2>1, <2>2, <2>4, <2>5, OneRequest
<1> QED
  BY <1>3, <1>4, <1>5, <1>6, <1>7

\* Joining a job, waiting for it, and doing without one.
LEMMA Waiting ==
  ASSUME IInv, NEW q \in Req,
         NoNewJob(q) \/ Join(q) \/ Refuse(q) \/ WaitDone(q) \/ GiveUp(q)
  PROVE  IInv'
<1> USE NobodyAssumption
<1>1. /\ req[q] \in RequestType /\ held[q] \in Key \cup {NoKey} /\ RequestFits(q, req[q], held[q])
      /\ req[q].at \in Inside => req[q].rt = lease
  BY RequestNow
<1>2. TypeOK /\ ShelfEmpty /\ LifeExact /\ MapExact
  BY DEF IInv
<1>3. req[q].at \in {"missed", "waiting", "ready"}
  BY DEF NoNewJob, Join, Refuse, WaitDone, GiveUp
<1>4. /\ req[q].at \in Inside \ {"reading"} /\ req[q].rt = lease /\ req[q].key \in Key
      /\ req[q].at # "waiting" => req[q].job = NoJob
  BY <1>1, <1>3 DEF RequestFits, Inside, Keyed
<1>5. CASE NoNewJob(q)
  <2> DEFINE w == [req[q] EXCEPT !.at = "ready", !.answer = "failed"]
  <2>1. w \in RequestType /\ w.at = "ready" /\ w.rt = lease /\ w.key = req[q].key /\ w.job = NoJob
    BY <1>1, <1>4, <1>5 DEF RequestType, Inside, NoNewJob
  <2>2. RequestFits(q, w, held[q])
    BY <1>1, <1>4, <1>5, <2>1 DEF RequestFits, NoNewJob
  <2>3. req' = [req EXCEPT ![q] = w]
    BY <1>5 DEF NoNewJob
  <2> HIDE DEF w
  <2> QED
    BY <1>5, <2>1, <2>2, <2>3, RequestAlone DEF NoNewJob
<1>6. CASE Join(q)
  <2> DEFINE j == listed[req[q].rt][req[q].key]
             w == [req[q] EXCEPT !.at = "waiting", !.job = j]
  <2>1. req[q].rt \in Runtime
    BY <1>1, <1>6 DEF Join, RequestFits, RequestType
  <2>2. j \in Job
    BY <1>2, <1>4, <1>6, <2>1 DEF Join, TypeOK
  <2>3. job[j].at # "free" /\ job[j].rt = req[q].rt /\ job[j].key = req[q].key
    BY <1>2, <1>4, <2>1, <2>2 DEF MapExact
  <2> HIDE DEF j
  <2>4. w \in RequestType /\ w.at = "waiting" /\ w.rt = lease /\ w.key = req[q].key /\ w.job = j
    BY <1>1, <1>4, <2>2 DEF RequestType, Inside
  <2>5. RequestFits(q, w, held[q])
    BY <1>1, <1>4, <1>6, <2>2, <2>4 DEF RequestFits, Join
  <2>6. req' = [req EXCEPT ![q] = w]
    BY <1>6 DEF Join, j
  <2> HIDE DEF w
  <2> QED
    BY <1>4, <1>6, <2>3, <2>4, <2>5, <2>6, RequestAlone DEF Join
<1>7. CASE Refuse(q)
  <2>1. UNCHANGED cacheVars \/ \E W, G \in SUBSET Key : Cache!Clear(W, G)
    BY <1>7 DEF Refuse
  <2>2. UNCHANGED <<lifeVars, jobVars, allowed>> /\ lease' = lease
    BY <1>7 DEF Refuse, lifeVars
  <2>3. stock' \in [Key -> {"absent", "shelved", "withdrawn"}] /\ ShelfEmpty' /\ held' = held
    <3>1. CASE UNCHANGED cacheVars
      BY <1>2, <2>2, <3>1 DEF TypeOK, ShelfEmpty, cacheVars
    <3> QED
      BY <2>1, <2>2, <3>1, CacheClears
  <2> QED
    BY <1>4, <1>7, <2>2, <2>3, AnswerAlone DEF Refuse
<1>8. CASE WaitDone(q) \/ GiveUp(q)
  <2>1. UNCHANGED <<lifeVars, jobVars, allowed, cacheVars>> /\ lease' = lease
    BY <1>8 DEF WaitDone, GiveUp, lifeVars
  <2>2. stock' \in [Key -> {"absent", "shelved", "withdrawn"}] /\ ShelfEmpty' /\ held' = held
    BY <1>2, <2>1 DEF TypeOK, ShelfEmpty, cacheVars
  <2>3. \/ \E what \in {"none", "ok", "denied", "failed"} : Answer(q, what)
        \/ Goto(q, "again") /\ req[q].at = "ready"
    BY <1>1, <1>8 DEF WaitDone, GiveUp, RequestType
  <2> QED
    BY <1>4, <2>1, <2>2, <2>3, AnswerAlone, MoveAlone
<1> QED
  BY <1>5, <1>6, <1>7, <1>8

-----------------------------------------------------------------------------
(* Jobs.                                                                   *)

\* The slot is free or belongs to the one job that extracts.
LEMMA SlotOwner ==
  ASSUME IInv, NEW r \in Runtime
  PROVE  /\ r \notin slot => \A j \in Extracting : job[j].rt # r
         /\ \A j \in Job : job[j].at # "free" => job[j].rt = lease
  BY DEF IInv, SlotExact, Extracting, OwnCacheOnly

\* A request starts a job: the slot was free, so nobody extracts.
LEMMA Starting ==
  ASSUME IInv, NEW q \in Req, NEW j \in Job, StartJob(q, j)
  PROVE  IInv'
<1> USE NobodyAssumption
<1> DEFINE r == req[q].rt
           k == req[q].key
           w == [req[q] EXCEPT !.at = "waiting", !.job = j]
           new == [at |-> "running", rt |-> r, key |-> k, owner |-> q, err |-> "none"]
<1>1. /\ req[q] \in RequestType /\ held[q] \in Key \cup {NoKey} /\ RequestFits(q, req[q], held[q])
      /\ req[q].at \in Inside => req[q].rt = lease
  BY RequestNow
<1>2. TypeOK /\ LifeExact /\ OwnCacheOnly /\ RequestsFit /\ WaitersHaveJob /\ JobsFit /\ AtMostOne
      /\ SlotExact /\ MapExact
  BY DEF IInv
<1>3. /\ req[q].at = "missed" /\ status[r] = "live" /\ listed[r][k] = NoJob
      /\ r \notin slot /\ job[j].at = "free"
      /\ slot' = slot \cup {r} /\ job' = [job EXCEPT ![j] = new]
      /\ listed' = [listed EXCEPT ![r][k] = j]
      /\ req' = [req EXCEPT ![q] = w]
      /\ UNCHANGED <<lifeVars, allowed>>
      /\ \E W, G \in SUBSET Key : Cache!Clear(W, G)
  BY DEF StartJob, MayStart
<1>4. /\ current' = current /\ life' = life /\ status' = status /\ sweeper' = sweeper
      /\ lease' = lease /\ allowed' = allowed
  BY <1>3 DEF lifeVars
<1>5. r \in Runtime /\ k \in Key /\ r = lease
  BY <1>1, <1>3 DEF RequestFits, RequestType, Inside, Keyed
<1>6. stock' \in [Key -> {"absent", "shelved", "withdrawn"}] /\ ShelfEmpty' /\ held' = held
  BY <1>3, <1>4, CacheClears
<1>7. w \in RequestType /\ w.at = "waiting" /\ w.rt = r /\ w.key = k /\ w.job = j
  BY <1>1 DEF RequestType, Inside
<1>8. new \in WorkType /\ new.at = "running" /\ new.rt = r /\ new.key = k
  BY <1>5 DEF WorkType
<1> HIDE DEF w, new, r, k
<1>9. job \in [Job -> WorkType] /\ req \in [Req -> RequestType]
      /\ listed \in [Runtime -> [Key -> Job \cup {NoJob}]]
  BY <1>2 DEF TypeOK, WorkType, RequestType
<1>10. job' \in [Job -> WorkType] /\ req' \in [Req -> RequestType]
       /\ listed' \in [Runtime -> [Key -> Job \cup {NoJob}]]
  <2>1. job' \in [Job -> WorkType]
    BY <1>3, <1>8, <1>9
  <2>2. req' \in [Req -> RequestType]
    BY <1>3, <1>7, <1>9
  <2>3. listed' \in [Runtime -> [Key -> Job \cup {NoJob}]]
    BY <1>3, <1>5, <1>9
  <2> QED
    BY <2>1, <2>2, <2>3
<1>11. /\ job'[j] = new /\ \A i \in Job : i # j => job'[i] = job[i]
       /\ req'[q] = w /\ \A p \in Req : p # q => req'[p] = req[p]
  BY <1>3, <1>9
<1>12. \A s \in Runtime, x \in Key : listed'[s][x] = IF s = r /\ x = k THEN j ELSE listed[s][x]
  BY <1>3, <1>5, <1>9
<1>13. TypeOK'
  BY <1>2, <1>3, <1>4, <1>5, <1>6, <1>10 DEF TypeOK, RequestType, WorkType
<1>14. LifeExact'
  BY <1>2, <1>4 DEF LifeExact
<1>15. OwnCacheOnly'
  <2>1. \A p \in Req : req'[p].at \in Inside => req'[p].rt = lease'
    BY <1>2, <1>4, <1>5, <1>7, <1>11 DEF OwnCacheOnly
  <2>2. \A p \in Req : held'[p] # NoKey => req'[p].at \in Inside
    BY <1>2, <1>6, <1>7, <1>11 DEF OwnCacheOnly, Inside
  <2>3. \A i \in Job : job'[i].at # "free" => job'[i].rt = lease'
    BY <1>2, <1>4, <1>5, <1>8, <1>11 DEF OwnCacheOnly
  <2> QED
    BY <1>2, <1>4, <2>1, <2>2, <2>3 DEF OwnCacheOnly
<1>16. RequestsFit'
  BY <1>1, <1>2, <1>3, <1>5, <1>6, <1>7, <1>11 DEF RequestsFit, RequestFits
<1>17. WaitersHaveJob'
  BY <1>2, <1>3, <1>7, <1>8, <1>11 DEF WaitersHaveJob, RequestsFit, RequestFits
<1>18. JobsFit'
  BY <1>2, <1>5, <1>8, <1>11 DEF JobsFit
<1>19. Extracting = {} /\ Extracting' = {j}
  <2>1. Extracting = {}
    BY <1>2, <1>3, <1>5, SlotOwner DEF Extracting
  <2> QED
    BY <1>8, <1>11, <2>1 DEF Extracting
<1>20. AtMostOne' /\ SlotExact'
  BY <1>2, <1>3, <1>8, <1>11, <1>19 DEF AtMostOne, SlotExact
<1>21. MapExact'
  BY <1>2, <1>3, <1>5, <1>8, <1>11, <1>12 DEF MapExact
<1> QED
  BY <1>6, <1>13, <1>14, <1>15, <1>16, <1>17, <1>18, <1>20, <1>21, Fold

\* The requests do not notice what a job does before it ends.
LEMMA RequestsUnmoved ==
  ASSUME IInv, NEW j \in Job, NEW new \in WorkType, new.at # "free",
         job[j].at # "free", new.rt = job[j].rt, new.key = job[j].key,
         job' = [job EXCEPT ![j] = new], UNCHANGED <<lifeVars, req, allowed, held>>
  PROVE  LifeExact' /\ OwnCacheOnly' /\ RequestsFit' /\ WaitersHaveJob' /\ JobsFit'
<1>1. TypeOK /\ LifeExact /\ OwnCacheOnly /\ RequestsFit /\ WaitersHaveJob /\ JobsFit
  BY DEF IInv
<1>2. \A i \in Job : job'[i] = IF i = j THEN new ELSE job[i]
  BY <1>1 DEF TypeOK
<1>3. /\ current' = current /\ life' = life /\ status' = status /\ sweeper' = sweeper
      /\ lease' = lease /\ req' = req /\ held' = held
  BY DEF lifeVars
<1>4. LifeExact' /\ RequestsFit'
  BY <1>1, <1>3 DEF LifeExact, RequestsFit, RequestFits
<1>5. OwnCacheOnly' /\ JobsFit'
  BY <1>1, <1>2, <1>3 DEF OwnCacheOnly, JobsFit
<1>6. WaitersHaveJob'
  <2> SUFFICES ASSUME NEW q \in Req, req[q].at = "waiting"
               PROVE  /\ job'[req[q].job].at # "free"
                      /\ job'[req[q].job].rt = req[q].rt /\ job'[req[q].job].key = req[q].key
    BY <1>3 DEF WaitersHaveJob
  <2>1. req[q].job \in Job
    BY RequestNow, NobodyAssumption DEF RequestFits, RequestType
  <2> QED
    BY <1>1, <1>2, <2>1 DEF WaitersHaveJob
<1> QED
  BY <1>4, <1>5, <1>6

\* The download and extraction end.
LEMMA WorkEnds ==
  ASSUME IInv, NEW j \in Job, Commit(j) \/ DownloadDenied(j) \/ JobFails(j)
  PROVE  IInv'
<1> USE NobodyAssumption
<1>1. TypeOK /\ OwnCacheOnly /\ JobsFit /\ AtMostOne /\ SlotExact /\ MapExact /\ ShelfEmpty
  BY DEF IInv
<1>2. PICK err \in {"none", "denied", "failed"} : Outcome(j, err)
  BY DEF Commit, DownloadDenied, JobFails
<1>3. job[j].at = "running" /\ UNCHANGED <<lifeVars, listed, slot, req, allowed>>
  BY DEF Commit, DownloadDenied, JobFails
<1> DEFINE new == [job[j] EXCEPT !.at = "over", !.err = err]
<1>4. job \in [Job -> WorkType]
  BY <1>1 DEF TypeOK, WorkType
<1>5. new \in WorkType /\ new.at = "over" /\ new.rt = job[j].rt /\ new.key = job[j].key
  BY <1>4 DEF WorkType
<1>6. job' = [job EXCEPT ![j] = new]
  BY <1>2 DEF Outcome
<1> HIDE DEF new
<1>7. \A i \in Job : job'[i] = IF i = j THEN new ELSE job[i]
  BY <1>4, <1>6
<1>8. /\ current' = current /\ life' = life /\ status' = status /\ sweeper' = sweeper
      /\ lease' = lease /\ listed' = listed /\ slot' = slot /\ req' = req /\ allowed' = allowed
  BY <1>3 DEF lifeVars
<1>9. stock' \in [Key -> {"absent", "shelved", "withdrawn"}] /\ ShelfEmpty' /\ held' = held
  <2>1. CASE Commit(j)
    <3>1. lease # NoRuntime
      BY <1>1, <1>3 DEF OwnCacheOnly, JobsFit
    <3> QED
      BY <1>1, <1>8, <2>1, <3>1 DEF Commit, Cache!Publish, TypeOK, ShelfEmpty
  <2>2. CASE DownloadDenied(j)
    BY <1>1, <1>8, <2>2 DEF DownloadDenied, cacheVars, TypeOK, ShelfEmpty
  <2>3. CASE JobFails(j)
    BY <1>8, <2>3, CacheClears DEF JobFails
  <2> QED
    BY <2>1, <2>2, <2>3
<1>10. LifeExact' /\ OwnCacheOnly' /\ RequestsFit' /\ WaitersHaveJob' /\ JobsFit'
  BY <1>3, <1>5, <1>6, <1>9, RequestsUnmoved
<1>11. job' \in [Job -> WorkType]
  BY <1>4, <1>5, <1>6
<1>12. TypeOK'
  BY <1>1, <1>8, <1>9, <1>11 DEF TypeOK, WorkType
<1>13. Extracting' = Extracting
  BY <1>3, <1>5, <1>7 DEF Extracting
<1>14. AtMostOne' /\ SlotExact'
  <2>1. \A i \in Extracting : job'[i].rt = job[i].rt
    BY <1>5, <1>7 DEF Extracting
  <2> QED
    BY <1>1, <1>8, <1>13, <2>1 DEF AtMostOne, SlotExact
<1>15. MapExact'
  BY <1>1, <1>3, <1>5, <1>7, <1>8 DEF MapExact
<1> QED
  BY <1>9, <1>10, <1>12, <1>14, <1>15, Fold

\* The slot and the place in the map are given back.
LEMMA GivingBack ==
  ASSUME IInv, NEW j \in Job, FreeSlot(j) \/ Unlist(j)
  PROVE  IInv'
<1> USE NobodyAssumption
<1>1. TypeOK /\ OwnCacheOnly /\ JobsFit /\ AtMostOne /\ SlotExact /\ MapExact /\ ShelfEmpty
  BY DEF IInv
<1>2. job[j].at \in {"over", "unslotted"} /\ UNCHANGED <<lifeVars, req, allowed, cacheVars>>
  BY DEF FreeSlot, Unlist
<1>3. PICK at \in {"unslotted", "unlisted"} : /\ job' = [job EXCEPT ![j].at = at]
                                              /\ FreeSlot(j) => at = "unslotted"
                                              /\ Unlist(j) => at = "unlisted"
  BY DEF FreeSlot, Unlist
<1> DEFINE new == [job[j] EXCEPT !.at = at]
<1>4. job \in [Job -> WorkType]
  BY <1>1 DEF TypeOK, WorkType
<1>5. new \in WorkType /\ new.at = at /\ new.rt = job[j].rt /\ new.key = job[j].key
  BY <1>4 DEF WorkType
<1>6. job' = [job EXCEPT ![j] = new]
  BY <1>3
<1> HIDE DEF new
<1>7. \A i \in Job : job'[i] = IF i = j THEN new ELSE job[i]
  BY <1>4, <1>6
<1>8. /\ current' = current /\ life' = life /\ status' = status /\ sweeper' = sweeper
      /\ lease' = lease /\ req' = req /\ allowed' = allowed /\ stock' = stock /\ held' = held
  BY <1>2 DEF lifeVars, cacheVars
<1>9. LifeExact' /\ OwnCacheOnly' /\ RequestsFit' /\ WaitersHaveJob' /\ JobsFit' /\ ShelfEmpty'
  BY <1>1, <1>2, <1>5, <1>6, <1>8, RequestsUnmoved DEF ShelfEmpty
<1>10. job' \in [Job -> WorkType]
  BY <1>4, <1>5, <1>6
<1>11. job[j].rt \in Runtime /\ job[j].key \in Key
  BY <1>1, <1>2 DEF JobsFit
<1>12. CASE FreeSlot(j)
  <2>1. slot' = slot \ {job[j].rt} /\ listed' = listed /\ job[j].at = "over" /\ new.at = "unslotted"
    BY <1>3, <1>5, <1>12 DEF FreeSlot
  <2>2. TypeOK'
    BY <1>1, <1>8, <1>10, <2>1 DEF TypeOK, WorkType
  <2>3. Extracting = {j} /\ Extracting' = {}
    BY <1>1, <1>7, <2>1 DEF Extracting, AtMostOne
  <2>4. AtMostOne' /\ SlotExact'
    BY <1>1, <2>1, <2>3 DEF AtMostOne, SlotExact
  <2>5. MapExact'
    BY <1>1, <1>5, <1>7, <2>1 DEF MapExact
  <2> QED
    BY <1>9, <2>2, <2>4, <2>5, Fold
<1>13. CASE Unlist(j)
  <2>1. /\ listed' = [listed EXCEPT ![job[j].rt][job[j].key] = NoJob] /\ slot' = slot
        /\ job[j].at = "unslotted" /\ new.at = "unlisted"
    BY <1>3, <1>5, <1>13 DEF Unlist
  <2>2. listed \in [Runtime -> [Key -> Job \cup {NoJob}]]
    BY <1>1 DEF TypeOK
  <2>3. listed' \in [Runtime -> [Key -> Job \cup {NoJob}]]
    BY <1>11, <2>1, <2>2
  <2>4. TypeOK'
    BY <1>1, <1>8, <1>10, <2>1, <2>3 DEF TypeOK, WorkType
  <2>5. Extracting' = Extracting /\ j \notin Extracting
    BY <1>7, <2>1 DEF Extracting
  <2>6. AtMostOne' /\ SlotExact'
    <3>1. \A i \in Extracting : job'[i].rt = job[i].rt
      BY <1>7, <2>5 DEF Extracting
    <3> QED
      BY <1>1, <2>1, <2>5, <3>1 DEF AtMostOne, SlotExact
  <2>7. \A s \in Runtime, x \in Key :
          listed'[s][x] = IF s = job[j].rt /\ x = job[j].key THEN NoJob ELSE listed[s][x]
    BY <1>11, <2>1, <2>2
  <2>8. MapExact'
    BY <1>1, <1>5, <1>7, <1>11, <2>1, <2>7 DEF MapExact
  <2> QED
    BY <1>9, <2>4, <2>6, <2>8, Fold
<1> QED
  BY <1>12, <1>13

\* The job's goroutine ends and wakes everybody who waits for it.
LEMMA Ending ==
  ASSUME IInv, NEW j \in Job, End(j)
  PROVE  IInv'
<1> USE NobodyAssumption
<1>1. TypeOK /\ LifeExact /\ OwnCacheOnly /\ RequestsFit /\ WaitersHaveJob /\ JobsFit /\ AtMostOne
      /\ SlotExact /\ MapExact /\ ShelfEmpty
  BY DEF IInv
<1>2. /\ job[j].at = "unlisted" /\ job' = [job EXCEPT ![j] = NoWork]
      /\ current' = current /\ life' = life /\ status' = status /\ sweeper' = sweeper
      /\ lease' = lease /\ listed' = listed /\ slot' = slot /\ allowed' = allowed
      /\ stock' = stock /\ held' = held
  BY DEF End, lifeVars, cacheVars
<1>3. job \in [Job -> WorkType] /\ req \in [Req -> RequestType]
  BY <1>1 DEF TypeOK, WorkType, RequestType
<1>4. NoWork \in WorkType /\ NoWork.at = "free"
  BY DEF NoWork, WorkType
<1>5. job' \in [Job -> WorkType] /\ \A i \in Job : job'[i] = IF i = j THEN NoWork ELSE job[i]
  BY <1>2, <1>3, <1>4
<1> DEFINE w(q) == [req[q] EXCEPT !.at = "ready", !.job = NoJob, !.answer = job[j].err]
<1>6. \A q \in Req : /\ w(q) \in RequestType /\ w(q).at = "ready" /\ w(q).job = NoJob
                     /\ w(q).rt = req[q].rt /\ w(q).key = req[q].key
  BY <1>3 DEF RequestType, WorkType, Inside
<1>7. req' = [q \in Req |-> IF req[q].job = j THEN w(q) ELSE req[q]]
  BY DEF End
<1> HIDE DEF w
<1>8. req' \in [Req -> RequestType]
      /\ \A q \in Req : req'[q] = IF req[q].job = j THEN w(q) ELSE req[q]
  BY <1>3, <1>6, <1>7
<1>9. \A q \in Req : req[q].job = j => req[q].at = "waiting"
  BY <1>1 DEF RequestsFit, RequestFits
<1>10. TypeOK'
  BY <1>1, <1>2, <1>5, <1>8 DEF TypeOK, WorkType, RequestType
<1>11. LifeExact' /\ ShelfEmpty'
  BY <1>1, <1>2 DEF LifeExact, ShelfEmpty
<1>12. OwnCacheOnly'
  <2>1. \A q \in Req : req'[q].at \in Inside => req'[q].rt = lease'
    BY <1>1, <1>2, <1>6, <1>8, <1>9 DEF OwnCacheOnly, Inside
  <2>2. \A q \in Req : held'[q] # NoKey => req'[q].at \in Inside
    BY <1>1, <1>2, <1>6, <1>8 DEF OwnCacheOnly, Inside
  <2>3. \A i \in Job : job'[i].at # "free" => job'[i].rt = lease'
    BY <1>1, <1>2, <1>4, <1>5 DEF OwnCacheOnly
  <2> QED
    BY <1>1, <1>2, <2>1, <2>2, <2>3 DEF OwnCacheOnly
<1>13. RequestsFit'
  BY <1>1, <1>2, <1>6, <1>8, <1>9 DEF RequestsFit, RequestFits, Keyed
<1>14. WaitersHaveJob'
  <2> SUFFICES ASSUME NEW q \in Req, req'[q].at = "waiting"
               PROVE  /\ job'[req'[q].job].at # "free"
                      /\ job'[req'[q].job].rt = req'[q].rt /\ job'[req'[q].job].key = req'[q].key
    BY DEF WaitersHaveJob
  <2>1. req'[q] = req[q] /\ req[q].job # j
    BY <1>6, <1>8
  <2>2. req[q].job \in Job
    BY <1>1, <1>3, <2>1 DEF RequestsFit, RequestFits, RequestType
  <2> QED
    BY <1>1, <1>5, <2>1, <2>2 DEF WaitersHaveJob
<1>15. JobsFit'
  BY <1>1, <1>4, <1>5 DEF JobsFit
<1>16. Extracting' = Extracting /\ j \notin Extracting
  BY <1>2, <1>4, <1>5 DEF Extracting
<1>17. AtMostOne' /\ SlotExact'
  BY <1>1, <1>2, <1>5, <1>16 DEF AtMostOne, SlotExact
<1>18. MapExact'
  BY <1>1, <1>2, <1>4, <1>5 DEF MapExact
<1> QED
  BY <1>10, <1>11, <1>12, <1>13, <1>14, <1>15, <1>17, <1>18, Fold

-----------------------------------------------------------------------------
(* Configure, Close and the sweeper.                                       *)

\* A runtime moves from one hand to another while nothing else happens.
LEMMA LifeAlone ==
  ASSUME IInv, TypeOK', LifeExact', lease' = lease,
         sweeper' \subseteq {lease}, UNCHANGED <<jobVars, req, cacheVars>>
  PROVE  IInv'
<1>1. TypeOK /\ OwnCacheOnly /\ RequestsFit /\ WaitersHaveJob /\ JobsFit /\ AtMostOne /\ SlotExact
      /\ MapExact /\ ShelfEmpty
  BY DEF IInv
<1>2. listed' = listed /\ slot' = slot /\ job' = job /\ req' = req /\ stock' = stock /\ held' = held
  BY DEF jobVars, cacheVars
<1>3. OwnCacheOnly' /\ ShelfEmpty'
  BY <1>1, <1>2 DEF OwnCacheOnly, ShelfEmpty
<1>4. RequestsFit' /\ WaitersHaveJob'
  BY <1>1, <1>2 DEF RequestsFit, RequestFits, WaitersHaveJob
<1>5. JobsFit' /\ AtMostOne' /\ SlotExact' /\ MapExact'
  BY <1>1, <1>2 DEF JobsFit, AtMostOne, SlotExact, Extracting, MapExact
<1> QED
  BY <1>3, <1>4, <1>5, Fold

\* The steps that take a runtime away or install one, and those around them.
LEMMA Handover ==
  ASSUME IInv,
         \/ \E reopen \in BOOLEAN : Begin(reopen)
         \/ Stop \/ OpenFails \/ Publish
         \/ \E r \in Runtime : SweeperExits(r)
         \/ \E q \in Req : ChangeAccess(q)
  PROVE  IInv'
<1> USE NobodyAssumption
<1>1. TypeOK /\ LifeExact /\ OwnCacheOnly
  BY DEF IInv
<1>2. lease' = lease /\ UNCHANGED <<jobVars, req, cacheVars>>
  BY DEF Begin, Stop, OpenFails, Publish, SweeperExits, ChangeAccess, lifeVars
<1>3. listed' = listed /\ slot' = slot /\ job' = job /\ req' = req /\ stock' = stock /\ held' = held
  BY <1>2 DEF jobVars, cacheVars
<1>4. CASE \E reopen \in BOOLEAN : Begin(reopen)
  <2> PICK reopen \in BOOLEAN : Begin(reopen)
    BY <1>4
  <2>1. /\ life.at = "idle" /\ current' = NoRuntime
        /\ UNCHANGED <<status, sweeper, lease, allowed>>
        /\ life' = IF current # NoRuntime
                   THEN [at |-> "stop", reopen |-> reopen, rt |-> current]
                   ELSE IF reopen THEN [at |-> "open", reopen |-> TRUE, rt |-> NoRuntime]
                   ELSE NoLife
    BY DEF Begin
  <2>2. TypeOK'
    BY <1>1, <1>3, <2>1 DEF TypeOK, NoLife
  <2>3. LifeExact'
    BY <1>1, <2>1 DEF LifeExact, NoLife, TypeOK
  <2> QED
    BY <1>1, <1>2, <2>1, <2>2, <2>3, LifeAlone DEF OwnCacheOnly
<1>5. CASE Stop
  <2>1. life.rt \in Runtime /\ life'.at = "drain" /\ life'.rt = life.rt /\ life'.reopen = life.reopen
    BY <1>1, <1>5 DEF Stop, TypeOK
  <2>2. TypeOK'
    BY <1>1, <1>3, <1>5, <2>1 DEF Stop, TypeOK
  <2>3. LifeExact'
    BY <1>1, <1>5, <2>1 DEF Stop, LifeExact, TypeOK
  <2> QED
    BY <1>1, <1>2, <1>5, <2>2, <2>3, LifeAlone DEF OwnCacheOnly, Stop
<1>6. CASE OpenFails
  <2>1. TypeOK'
    BY <1>1, <1>3, <1>6 DEF OpenFails, TypeOK, NoLife
  <2>2. LifeExact'
    BY <1>1, <1>6 DEF OpenFails, LifeExact, NoLife
  <2> QED
    BY <1>1, <1>2, <1>6, <2>1, <2>2, LifeAlone DEF OwnCacheOnly, OpenFails
<1>7. CASE Publish
  <2>1. TypeOK'
    BY <1>1, <1>3, <1>7 DEF Publish, TypeOK, NoLife
  <2>2. LifeExact'
    BY <1>1, <1>7 DEF Publish, LifeExact, NoLife
  <2> QED
    BY <1>1, <1>2, <1>7, <2>1, <2>2, LifeAlone DEF OwnCacheOnly, Publish
<1>8. CASE \E r \in Runtime : SweeperExits(r)
  <2>1. TypeOK'
    BY <1>1, <1>3, <1>8 DEF SweeperExits, TypeOK
  <2>2. LifeExact'
    BY <1>1, <1>8 DEF SweeperExits, LifeExact
  <2> QED
    BY <1>1, <1>2, <1>8, <2>1, <2>2, LifeAlone DEF OwnCacheOnly, SweeperExits
<1>9. CASE \E q \in Req : ChangeAccess(q)
  <2>1. TypeOK'
    BY <1>1, <1>3, <1>9 DEF ChangeAccess, lifeVars, TypeOK
  <2>2. LifeExact'
    BY <1>1, <1>9 DEF ChangeAccess, lifeVars, LifeExact
  <2> QED
    BY <1>1, <1>2, <1>9, <2>1, <2>2, LifeAlone DEF OwnCacheOnly, ChangeAccess, lifeVars
<1> QED
  BY <1>4, <1>5, <1>6, <1>7, <1>8, <1>9

\* A tick of the sweeper.
LEMMA Ticking ==
  ASSUME IInv, NEW r \in Runtime, Sweep(r)
  PROVE  IInv'
<1>1. TypeOK /\ LifeExact /\ OwnCacheOnly /\ RequestsFit /\ WaitersHaveJob /\ JobsFit /\ AtMostOne
      /\ SlotExact /\ MapExact
  BY DEF IInv
<1>2. /\ current' = current /\ life' = life /\ status' = status /\ sweeper' = sweeper
      /\ lease' = lease /\ listed' = listed /\ slot' = slot /\ job' = job /\ req' = req
      /\ allowed' = allowed
  BY DEF Sweep, lifeVars, jobVars
<1>3. stock' \in [Key -> {"absent", "shelved", "withdrawn"}] /\ ShelfEmpty' /\ held' = held
  BY <1>2, CacheClears DEF Sweep
<1>4. TypeOK' /\ LifeExact' /\ OwnCacheOnly'
  BY <1>1, <1>2, <1>3 DEF TypeOK, LifeExact, OwnCacheOnly
<1>5. RequestsFit' /\ WaitersHaveJob'
  BY <1>1, <1>2, <1>3 DEF RequestsFit, RequestFits, WaitersHaveJob
<1>6. JobsFit' /\ AtMostOne' /\ SlotExact' /\ MapExact'
  BY <1>1, <1>2 DEF JobsFit, AtMostOne, SlotExact, Extracting, MapExact
<1> QED
  BY <1>3, <1>4, <1>5, <1>6, Fold

\* A runtime that has been drained gives its directory up: by OwnCacheOnly
\* there is no request, job or sweeper left anywhere.
LEMMA Closing ==
  ASSUME IInv, CloseCache
  PROVE  IInv'
<1> USE NobodyAssumption
<1>1. TypeOK /\ LifeExact /\ OwnCacheOnly /\ RequestsFit /\ WaitersHaveJob /\ JobsFit /\ AtMostOne
      /\ SlotExact /\ MapExact
  BY DEF IInv
<1>2. /\ life.at = "drain" /\ Drained(life.rt) /\ status' = [status EXCEPT ![life.rt] = "closed"]
      /\ lease' = NoRuntime /\ current' = current /\ sweeper' = sweeper /\ listed' = listed
      /\ slot' = slot /\ job' = job /\ req' = req /\ allowed' = allowed
      /\ life' = IF life.reopen THEN [life EXCEPT !.at = "open", !.rt = NoRuntime] ELSE NoLife
      /\ stock' = [k \in Key |-> "absent"] /\ held' = [q \in Req |-> NoKey]
  BY DEF CloseCache, jobVars, Cache!Restart
<1>3. life.rt \in Runtime /\ lease = life.rt /\ current = NoRuntime
  BY <1>1, <1>2 DEF TypeOK, LifeExact
<1>4. life' \in [at: {"idle", "open"}, reopen: BOOLEAN, rt: {NoRuntime}]
  BY <1>1, <1>2 DEF TypeOK, NoLife
<1>5. \A q \in Req : req[q].at \notin Inside
  BY <1>1, <1>2, <1>3 DEF OwnCacheOnly, Drained, Admitted
<1>6. \A j \in Job : job[j].at = "free"
  BY <1>1, <1>2, <1>3 DEF OwnCacheOnly, Drained, Working
<1>7. sweeper = {}
  BY <1>1, <1>2, <1>3 DEF OwnCacheOnly, Drained
<1>8. TypeOK'
  BY <1>1, <1>2, <1>3, <1>4 DEF TypeOK
<1>9. LifeExact'
  BY <1>1, <1>2, <1>3, <1>4 DEF TypeOK, LifeExact
<1>10. OwnCacheOnly'
  BY <1>2, <1>5, <1>6, <1>7 DEF OwnCacheOnly
<1>11. RequestsFit'
  BY <1>1, <1>2, <1>5 DEF RequestsFit, RequestFits, Inside
<1>12. WaitersHaveJob' /\ JobsFit' /\ ShelfEmpty'
  BY <1>1, <1>2 DEF WaitersHaveJob, JobsFit, ShelfEmpty
<1>13. AtMostOne' /\ SlotExact' /\ MapExact'
  BY <1>1, <1>2 DEF AtMostOne, SlotExact, Extracting, MapExact
<1> QED
  BY <1>8, <1>9, <1>10, <1>11, <1>12, <1>13, Fold

\* A directory is opened when nobody has one: no request or job is inside.
LEMMA Opening ==
  ASSUME IInv, NEW r \in Runtime, OpenCache(r)
  PROVE  IInv'
<1> USE NobodyAssumption
<1>1. TypeOK /\ LifeExact /\ OwnCacheOnly /\ RequestsFit /\ WaitersHaveJob /\ JobsFit /\ AtMostOne
      /\ SlotExact /\ MapExact
  BY DEF IInv
<1>2. /\ life.at = "open" /\ lease = NoRuntime /\ status' = [status EXCEPT ![r] = "live"]
      /\ sweeper' = sweeper \cup {r} /\ lease' = r
      /\ life' = [life EXCEPT !.at = "publish", !.rt = r]
      /\ current' = current /\ listed' = listed /\ slot' = slot /\ job' = job /\ req' = req
      /\ allowed' = allowed /\ stock' = stock /\ held' = held
  BY DEF OpenCache, jobVars, cacheVars
<1>3. /\ life' \in [at: {"stop", "drain", "publish"}, reopen: BOOLEAN, rt: Runtime]
      /\ life'.at = "publish" /\ life'.rt = r
  BY <1>1, <1>2 DEF TypeOK
<1>4. \A q \in Req : req[q].at \notin Inside
  BY <1>1, <1>2 DEF OwnCacheOnly, RequestsFit, RequestFits, Inside
<1>5. \A j \in Job : job[j].at = "free"
  BY <1>1, <1>2 DEF OwnCacheOnly, JobsFit
<1>6. sweeper = {}
  BY <1>1, <1>2 DEF OwnCacheOnly, TypeOK
<1>7. TypeOK'
  BY <1>1, <1>2, <1>3 DEF TypeOK
<1>8. LifeExact'
  BY <1>1, <1>2, <1>3 DEF TypeOK, LifeExact
<1>9. OwnCacheOnly'
  BY <1>1, <1>2, <1>4, <1>5, <1>6 DEF OwnCacheOnly
<1>10. RequestsFit' /\ WaitersHaveJob' /\ JobsFit' /\ ShelfEmpty'
  BY <1>1, <1>2 DEF RequestsFit, RequestFits, WaitersHaveJob, JobsFit, ShelfEmpty
<1>11. AtMostOne' /\ SlotExact' /\ MapExact'
  BY <1>1, <1>2 DEF AtMostOne, SlotExact, Extracting, MapExact
<1> QED
  BY <1>7, <1>8, <1>9, <1>10, <1>11, Fold

-----------------------------------------------------------------------------
(* The theorems.                                                           *)

\* Every step keeps the invariant.
LEMMA StepKeeps == IInv /\ [Next]_vars => IInv'
<1> SUFFICES ASSUME IInv, [Next]_vars PROVE IInv'
  OBVIOUS
<1>1. CASE LifeStep
  BY <1>1, Handover, Closing, Opening DEF LifeStep
<1>2. CASE \E reopen \in BOOLEAN : Begin(reopen)
  BY <1>2, Handover
<1>3. CASE \E r \in Runtime : SweeperExits(r) \/ Sweep(r)
  BY <1>3, Handover, Ticking
<1>4. CASE \E q \in Req : Arrive(q) \/ ReqStep(q)
  <2> PICK q \in Req : Arrive(q) \/ ReqStep(q)
    BY <1>4
  <2>1. CASE Arrive(q) \/ Admit(q) \/ Leave(q)
    BY <2>1, Admission
  <2>2. CASE Authorize(q) \/ LookupHit(q) \/ LookupMiss(q) \/ ReleaseHandle(q)
    BY <2>2, Lookup
  <2>3. CASE NoNewJob(q) \/ Join(q) \/ Refuse(q) \/ WaitDone(q) \/ GiveUp(q)
    BY <2>3, Waiting
  <2>4. CASE \E j \in Job : StartJob(q, j)
    BY <2>4, Starting
  <2> QED
    BY <2>1, <2>2, <2>3, <2>4 DEF ReqStep
<1>5. CASE \E j \in Job : JobStep(j)
  BY <1>5, WorkEnds, GivingBack, Ending DEF JobStep
<1>6. CASE \E q \in Revocable : ChangeAccess(q)
  BY <1>6, Handover, RevocableAssumption
<1>7. CASE UNCHANGED vars
  <2>1. lease' = lease /\ sweeper' = sweeper /\ UNCHANGED <<jobVars, req, cacheVars>>
    BY <1>7 DEF vars, jobVars, cacheVars
  <2>2. TypeOK' /\ LifeExact'
    BY <1>7 DEF vars, IInv, TypeOK, LifeExact
  <2> QED
    BY <2>1, <2>2, LifeAlone DEF IInv, OwnCacheOnly
<1> QED
  BY <1>1, <1>2, <1>3, <1>4, <1>5, <1>6, <1>7 DEF Next

\* The invariant holds however many runtimes, requests, jobs and keys there are.
THEOREM BackendInductive == Spec => []IInv
  BY InitialBackend, StepKeeps, PTL DEF Spec

\* Configure, requests and jobs keep their records well formed.
THEOREM BackendTypeCorrect == Spec => []TypeOK
<1>1. IInv => TypeOK
  BY DEF IInv
<1> QED
  BY <1>1, BackendInductive, PTL

\* No request, job or sweeper of a runtime that has been replaced, by any
\* number of reconfigurations, touches the directory of its successor.
THEOREM CacheStaysOwn == Spec => []OwnCacheOnly
<1>1. IInv => OwnCacheOnly
  BY DEF IInv
<1> QED
  BY <1>1, BackendInductive, PTL

\* getOrStartJob and runJob keep one extraction in the process, and the slot
\* tells whose it is.
THEOREM ExtractsOneAtATime == Spec => []OneExtraction
<1>1. IInv => OneExtraction
  <2> SUFFICES ASSUME IInv PROVE OneExtraction
    OBVIOUS
  <2>1. AtMostOne /\ SlotExact
    BY DEF IInv
  <2>2. Cardinality(Extracting) <= 1
    <3>1. CASE Extracting = {}
      BY <3>1, FS_EmptySet
    <3>2. CASE Extracting # {}
      <4> PICK j \in Extracting : TRUE
        BY <3>2
      <4>1. Extracting = {j}
        BY <2>1 DEF AtMostOne
      <4>2. Cardinality({j}) = 1
        BY FS_Singleton
      <4> QED
        BY <4>1, <4>2
    <3> QED
      BY <3>1, <3>2
  <2> QED
    BY <2>1, <2>2 DEF OneExtraction, Extracting, SlotExact
<1> QED
  BY <1>1, BackendInductive, PTL

\* The jobs map lists the jobs that can be joined, and no others.
THEOREM MapStaysExact == Spec => []MapExact
<1>1. IInv => MapExact
  BY DEF IInv
<1> QED
  BY <1>1, BackendInductive, PTL

\* Who waits is woken: the job it waits for has yet to close its channel.
THEOREM WaitersKeepJob == Spec => []WaitersHaveJob
<1>1. IInv => WaitersHaveJob
  BY DEF IInv
<1> QED
  BY <1>1, BackendInductive, PTL

\* Close returns with nothing left of the runtime it closed.
THEOREM CloseLeavesNothing == Spec => []ClosedIsEmpty
<1>1. IInv => ClosedIsEmpty
  <2> SUFFICES ASSUME IInv, life.at = "idle", current = NoRuntime
               PROVE  /\ lease = NoRuntime /\ sweeper = {} /\ slot = {}
                      /\ \A r \in Runtime : Admitted(r) = {} /\ Working(r) = {}
                      /\ \A k \in Key : stock[k] = "absent"
    BY DEF ClosedIsEmpty
  <2> USE NobodyAssumption
  <2>1. lease = NoRuntime
    BY DEF IInv, LifeExact
  <2>2. sweeper = {}
    BY <2>1 DEF IInv, OwnCacheOnly, TypeOK
  <2>3. \A j \in Job : job[j].at = "free"
    BY <2>1 DEF IInv, OwnCacheOnly, JobsFit
  <2>4. slot = {}
    BY <2>3 DEF IInv, SlotExact, Extracting
  <2>5. \A r \in Runtime : Admitted(r) = {} /\ Working(r) = {}
    BY <2>1, <2>3 DEF IInv, OwnCacheOnly, Admitted, Working
  <2> QED
    BY <2>1, <2>2, <2>4, <2>5 DEF IInv, ShelfEmpty
<1> QED
  BY <1>1, BackendInductive, PTL
=============================================================================
