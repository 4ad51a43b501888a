------------------------------- MODULE Backend -------------------------------
(***************************************************************************)
(* The request and lifecycle side of internal/silo/backend.go: Configure   *)
(* and Close replacing the current runtime, requests admitted to it,       *)
(* extraction jobs shared by the requests that need the same chapter, and  *)
(* the drain that comes before a cache directory changes hands.            *)
(*                                                                         *)
(* Requests, jobs, the sweeper and one Configure or Close at a time run    *)
(* concurrently; each action is what one of them does in one critical      *)
(* section (Backend.mu, runtime.jobsMu or pageCache.mu) or between two.    *)
(* The page cache is the one of PinnedCache, which PageCache implements.   *)
(***************************************************************************)
EXTENDS Naturals, FiniteSets

CONSTANTS
  Runtime,    \* runtimes that exist at the same time, at most
  Req,        \* requests in progress; each has a caller of its own
  Job,        \* extraction jobs that exist at the same time, at most
  Key,        \* cache keys
  Revocable,  \* requests whose caller may lose access at the Silo server
  NoRuntime, NoReq, NoJob, NoKey

ASSUME NobodyAssumption ==
  /\ NoRuntime \notin Runtime /\ NoReq \notin Req
  /\ NoJob \notin Job /\ NoKey \notin Key

ASSUME RevocableAssumption == Revocable \subseteq Req

VARIABLES
  current,   \* Backend.current
  life,      \* the Configure or Close that holds lifecycleMu
  status,    \* runtime -> "closed", "live" or "stopping"
  sweeper,   \* runtimes whose sweeper goroutine runs
  lease,     \* the runtime that owns the cache directory
  listed,    \* runtime -> key -> the job in its jobs map
  slot,      \* runtimes whose extract channel is full
  job,       \* job -> what its goroutine is doing
  req,       \* request -> what its handler is doing
  allowed,   \* requests whose caller the Silo server accepts
  stock,     \* the cache of the runtime that holds the lease
  held       \* page handles of the requests

vars == <<current, life, status, sweeper, lease, listed, slot, job, req, allowed,
          stock, held>>

Cache == INSTANCE PinnedCache WITH Reader <- Req

cacheVars == <<stock, held>>
lifeVars == <<current, life, status, sweeper, lease>>
jobVars == <<listed, slot, job>>

NoLife == [at |-> "idle", reopen |-> FALSE, rt |-> NoRuntime]
NoWork == [at |-> "free", rt |-> NoRuntime, key |-> NoKey, owner |-> NoReq, err |-> "none"]
Idle == [at |-> "idle", rt |-> NoRuntime, key |-> NoKey, job |-> NoJob, answer |-> "none"]

\* Requests between acquireRequest and its release, and jobs whose goroutine
\* has not ended, are what runtime.wg counts besides the sweeper.
Inside == {"in", "knows", "missed", "waiting", "ready", "again", "reading", "leaving"}
Admitted(r) == {q \in Req : req[q].rt = r /\ req[q].at \in Inside}
Working(r) == {j \in Job : job[j].at # "free" /\ job[j].rt = r}

\* Mutant: shutdown waits for requests only.
DrainedRequests(r) == r \notin sweeper /\ Admitted(r) = {}

Drained(r) == r \notin sweeper /\ Admitted(r) = {} /\ Working(r) = {}

Init ==
  /\ current = NoRuntime /\ life = NoLife /\ lease = NoRuntime
  /\ status = [r \in Runtime |-> "closed"]
  /\ sweeper = {} /\ slot = {}
  /\ listed = [r \in Runtime |-> [k \in Key |-> NoJob]]
  /\ job = [j \in Job |-> NoWork]
  /\ req = [q \in Req |-> Idle]
  /\ allowed = Req
  /\ Cache!Init

-----------------------------------------------------------------------------
(* Configure and Close.                                                    *)

\* Mutant: there need not be a previous runtime to close.
BeginAlways(reopen) ==
  /\ life.at = "idle"
  /\ current' = NoRuntime
  /\ life' = [at |-> "stop", reopen |-> reopen, rt |-> current]
  /\ UNCHANGED <<status, sweeper, lease, jobVars, req, allowed, cacheVars>>

\* Take lifecycleMu and take the current runtime out of service.
Begin(reopen) ==
  /\ life.at = "idle"
  /\ current' = NoRuntime
  /\ life' = IF current # NoRuntime
             THEN [at |-> "stop", reopen |-> reopen, rt |-> current]
             ELSE IF reopen THEN [at |-> "open", reopen |-> TRUE, rt |-> NoRuntime]
             ELSE NoLife
  /\ UNCHANGED <<status, sweeper, lease, jobVars, req, allowed, cacheVars>>

\* Mutant: the runtime is neither marked nor cancelled.
StopUnmarked ==
  /\ life.at = "stop"
  /\ life' = [life EXCEPT !.at = "drain"]
  /\ UNCHANGED <<current, status, sweeper, lease, jobVars, req, allowed, cacheVars>>

\* runtime.close marks the runtime and cancels its context under jobsMu.
Stop ==
  /\ life.at = "stop"
  /\ status' = [status EXCEPT ![life.rt] = "stopping"]
  /\ life' = [life EXCEPT !.at = "drain"]
  /\ UNCHANGED <<current, sweeper, lease, jobVars, req, allowed, cacheVars>>

\* After wg.Wait the cache is emptied and its lease given up.
CloseCache ==
  /\ life.at = "drain" /\ Drained(life.rt)
  /\ status' = [status EXCEPT ![life.rt] = "closed"]
  /\ lease' = NoRuntime
  /\ life' = IF life.reopen THEN [life EXCEPT !.at = "open", !.rt = NoRuntime] ELSE NoLife
  /\ Cache!Restart
  /\ UNCHANGED <<current, sweeper, jobVars, req, allowed>>

\* newPageCache takes the lease for a new runtime, whose sweeper starts.
OpenCache(r) ==
  /\ life.at = "open" /\ lease = NoRuntime
  /\ status[r] = "closed" /\ \A q \in Req : req[q].rt # r
  /\ status' = [status EXCEPT ![r] = "live"]
  /\ sweeper' = sweeper \cup {r}
  /\ lease' = r
  /\ life' = [life EXCEPT !.at = "publish", !.rt = r]
  /\ UNCHANGED <<current, jobVars, req, allowed, cacheVars>>

\* newPageCache fails: Configure reports it, and no runtime is left.
OpenFails ==
  /\ life.at = "open"
  /\ life' = NoLife
  /\ UNCHANGED <<current, status, sweeper, lease, jobVars, req, allowed, cacheVars>>

Publish ==
  /\ life.at = "publish"
  /\ current' = life.rt
  /\ life' = NoLife
  /\ UNCHANGED <<status, sweeper, lease, jobVars, req, allowed, cacheVars>>

\* The sweeper sees the cancelled context.
SweeperExits(r) ==
  /\ r \in sweeper /\ status[r] = "stopping"
  /\ sweeper' = sweeper \ {r}
  /\ UNCHANGED <<current, life, status, lease, jobVars, req, allowed, cacheVars>>

\* Expiry: what a tick of the sweeper removes or retires.
Sweep(r) ==
  /\ r \in sweeper
  /\ \E withdrawn, gone \in SUBSET Key : Cache!Clear(withdrawn, gone)
  /\ UNCHANGED <<lifeVars, jobVars, req, allowed>>

-----------------------------------------------------------------------------
(* Requests: Pages and Page.                                               *)

Goto(q, at) == req' = [req EXCEPT ![q].at = at]
Answer(q, what) == req' = [req EXCEPT ![q].at = "leaving", ![q].answer = what,
                                      ![q].key = NoKey, ![q].job = NoJob]

\* getRuntime reads the pointer and lets the lock go.
Arrive(q) ==
  /\ req[q].at = "idle" /\ current # NoRuntime
  /\ req' = [req EXCEPT ![q].at = "found", ![q].rt = current]
  /\ UNCHANGED <<lifeVars, jobVars, allowed, cacheVars>>

\* Mutant: admission does not look at runtime.stopping.
AdmitAnyway(q) ==
  /\ req[q].at = "found"
  /\ Goto(q, "in")
  /\ UNCHANGED <<lifeVars, jobVars, allowed, cacheVars>>

\* acquireRequest: counted in, or turned away from a runtime that stops.
Admit(q) ==
  /\ req[q].at = "found"
  /\ IF status[req[q].rt] = "live" THEN Goto(q, "in")
     ELSE req' = [req EXCEPT ![q] = Idle]
  /\ UNCHANGED <<lifeVars, jobVars, allowed, cacheVars>>

\* validateRequest and authorize: the cache key of the revision Silo serves, a
\* refusal of this caller, or a failure (bad request, timeout, cancellation,
\* stale cache key).
Authorize(q) ==
  /\ req[q].at = "in"
  /\ \/ /\ q \in allowed
        /\ \E k \in Key : req' = [req EXCEPT ![q].at = "knows", ![q].key = k]
     \/ q \notin allowed /\ Answer(q, "denied")
     \/ Answer(q, "failed")
  /\ UNCHANGED <<lifeVars, jobVars, allowed, cacheVars>>

LookupHit(q) ==
  /\ req[q].at \in {"knows", "again"}
  /\ Goto(q, "reading")
  /\ Cache!Borrow(q, req[q].key)
  /\ UNCHANGED <<lifeVars, jobVars, allowed>>

\* Mutant: a request whose job has left nothing in the cache starts again.
LookupMissRetries(q) ==
  /\ req[q].at \in {"knows", "again"}
  /\ \E gone \in SUBSET {req[q].key} :
       Cache!Clear({req[q].key} \cap {k \in Key : stock[k] # "absent"}, gone)
  /\ Goto(q, "missed")
  /\ UNCHANGED <<lifeVars, jobVars, allowed>>

\* A miss, which may remove a dead entry.  The request ends if it named the
\* cache key or has already waited for a job.
LookupMiss(q) ==
  /\ req[q].at \in {"knows", "again"}
  /\ \E gone \in SUBSET {req[q].key} :
       Cache!Clear({req[q].key} \cap {k \in Key : stock[k] # "absent"}, gone)
  /\ \/ Answer(q, "failed")
     \/ req[q].at = "knows" /\ Goto(q, "missed")
  /\ UNCHANGED <<lifeVars, jobVars, allowed>>

-----------------------------------------------------------------------------
(* getOrStartJob, under jobsMu.                                            *)

\* A runtime that stops hands out a job that has already failed.
NoNewJob(q) ==
  /\ req[q].at = "missed" /\ status[req[q].rt] # "live"
  /\ req' = [req EXCEPT ![q].at = "ready", ![q].answer = "failed"]
  /\ UNCHANGED <<lifeVars, jobVars, allowed, cacheVars>>

Join(q) ==
  LET j == listed[req[q].rt][req[q].key] IN
  /\ req[q].at = "missed" /\ status[req[q].rt] = "live" /\ j # NoJob
  /\ req' = [req EXCEPT ![q].at = "waiting", ![q].job = j]
  /\ UNCHANGED <<lifeVars, jobVars, allowed, cacheVars>>

\* Mutant: only the extract slot is looked at, not the map of jobs.
MayStartUnlisted(r, k) == status[r] = "live"

MayStart(r, k) == status[r] = "live" /\ listed[r][k] = NoJob

\* extractor_busy, or cache_full after reserve has swept and evicted.
Refuse(q) ==
  LET r == req[q].rt IN
  /\ req[q].at = "missed" /\ MayStart(r, req[q].key)
  /\ IF r \in slot THEN UNCHANGED cacheVars
     ELSE \E withdrawn, gone \in SUBSET Key : Cache!Clear(withdrawn, gone)
  /\ Answer(q, "failed")
  /\ UNCHANGED <<lifeVars, jobVars, allowed>>

\* Mutant: the slot is not a channel of capacity one.
StartJobUnslotted(q, j) ==
  LET r == req[q].rt
      k == req[q].key IN
  /\ req[q].at = "missed" /\ MayStart(r, k)
  /\ job[j].at = "free"
  /\ slot' = slot \cup {r}
  /\ \E withdrawn, gone \in SUBSET Key : Cache!Clear(withdrawn, gone)
  /\ job' = [job EXCEPT ![j] = [at |-> "running", rt |-> r, key |-> k, owner |-> q,
                                err |-> "none"]]
  /\ listed' = [listed EXCEPT ![r][k] = j]
  /\ req' = [req EXCEPT ![q].at = "waiting", ![q].job = j]
  /\ UNCHANGED <<lifeVars, allowed>>

StartJob(q, j) ==
  LET r == req[q].rt
      k == req[q].key IN
  /\ req[q].at = "missed" /\ MayStart(r, k)
  /\ r \notin slot /\ job[j].at = "free"
  /\ slot' = slot \cup {r}
  /\ \E withdrawn, gone \in SUBSET Key : Cache!Clear(withdrawn, gone)
  /\ job' = [job EXCEPT ![j] = [at |-> "running", rt |-> r, key |-> k, owner |-> q,
                                err |-> "none"]]
  /\ listed' = [listed EXCEPT ![r][k] = j]
  /\ req' = [req EXCEPT ![q].at = "waiting", ![q].job = j]
  /\ UNCHANGED <<lifeVars, allowed>>

\* waitForJob: the job is done, and its error is the answer of whoever waited.
WaitDone(q) ==
  /\ req[q].at = "ready"
  /\ IF req[q].answer = "none" THEN Goto(q, "again") ELSE Answer(q, req[q].answer)
  /\ UNCHANGED <<lifeVars, jobVars, allowed, cacheVars>>

\* The preparation timer, the deadline or the cancellation of the request; the
\* select may choose these although the job is done.
GiveUp(q) ==
  /\ req[q].at \in {"waiting", "ready"}
  /\ Answer(q, "failed")
  /\ UNCHANGED <<lifeVars, jobVars, allowed, cacheVars>>

\* The deferred calls: the handle first, then the count in the runtime.
ReleaseHandle(q) ==
  /\ req[q].at = "reading"
  /\ Cache!Return(q)
  /\ Answer(q, "ok")
  /\ UNCHANGED <<lifeVars, jobVars, allowed>>

Leave(q) ==
  /\ req[q].at = "leaving"
  /\ req' = [req EXCEPT ![q] = Idle]
  /\ UNCHANGED <<lifeVars, jobVars, allowed, cacheVars>>

-----------------------------------------------------------------------------
(* runJob and extractJob.                                                  *)

Outcome(j, err) == job' = [job EXCEPT ![j].at = "over", ![j].err = err]

Commit(j) ==
  /\ job[j].at = "running"
  /\ Cache!Publish(job[j].key)
  /\ Outcome(j, "none")
  /\ UNCHANGED <<lifeVars, listed, slot, req, allowed>>

\* The download is refused to the caller who started the job.
DownloadDenied(j) ==
  /\ job[j].at = "running" /\ job[j].owner \notin allowed
  /\ Outcome(j, "denied")
  /\ UNCHANGED <<lifeVars, listed, slot, req, allowed, cacheVars>>

\* Everything else that ends a job: cancellation, timeout, a changed source, an
\* invalid archive, a commit that cannot replace the old entry or rename.
JobFails(j) ==
  /\ job[j].at = "running"
  /\ \E withdrawn, gone \in SUBSET ({job[j].key} \cap {k \in Key : stock[k] # "absent"}) :
       Cache!Clear(withdrawn, gone)
  /\ Outcome(j, "failed")
  /\ UNCHANGED <<lifeVars, listed, slot, req, allowed>>

\* The reservation is released, then the extract slot.
FreeSlot(j) ==
  /\ job[j].at = "over"
  /\ job' = [job EXCEPT ![j].at = "unslotted"]
  /\ slot' = slot \ {job[j].rt}
  /\ UNCHANGED <<lifeVars, listed, req, allowed, cacheVars>>

\* Mutant: the goroutine ends without leaving the map.
UnlistNothing(j) ==
  /\ job[j].at = "unslotted"
  /\ job' = [job EXCEPT ![j].at = "unlisted"]
  /\ UNCHANGED <<lifeVars, listed, slot, req, allowed, cacheVars>>

Unlist(j) ==
  /\ job[j].at = "unslotted"
  /\ job' = [job EXCEPT ![j].at = "unlisted"]
  /\ listed' = [listed EXCEPT ![job[j].rt][job[j].key] = NoJob]
  /\ UNCHANGED <<lifeVars, slot, req, allowed, cacheVars>>

\* Mutant: waiters are left behind when the job fails.
EndSilently(j) ==
  /\ job[j].at = "unlisted"
  /\ job' = [job EXCEPT ![j] = NoWork]
  /\ UNCHANGED <<lifeVars, listed, slot, req, allowed, cacheVars>>

\* close(done) wakes every waiter, who finds job.err; then wg.Done.
End(j) ==
  /\ job[j].at = "unlisted"
  /\ job' = [job EXCEPT ![j] = NoWork]
  /\ req' = [q \in Req |->
               IF req[q].job = j
               THEN [req[q] EXCEPT !.at = "ready", !.job = NoJob, !.answer = job[j].err]
               ELSE req[q]]
  /\ UNCHANGED <<lifeVars, listed, slot, allowed, cacheVars>>

-----------------------------------------------------------------------------
\* The Silo server changes its mind about a caller.
ChangeAccess(q) ==
  /\ allowed' = IF q \in allowed THEN allowed \ {q} ELSE allowed \cup {q}
  /\ UNCHANGED <<lifeVars, jobVars, req, cacheVars>>

LifeStep ==
  Stop \/ CloseCache \/ OpenFails \/ Publish \/ \E r \in Runtime : OpenCache(r)

ReqStep(q) ==
  \/ Admit(q) \/ Authorize(q) \/ LookupHit(q) \/ LookupMiss(q)
  \/ NoNewJob(q) \/ Join(q) \/ Refuse(q) \/ \E j \in Job : StartJob(q, j)
  \/ WaitDone(q) \/ GiveUp(q) \/ ReleaseHandle(q) \/ Leave(q)

JobStep(j) ==
  Commit(j) \/ DownloadDenied(j) \/ JobFails(j) \/ FreeSlot(j) \/ Unlist(j) \/ End(j)

Next ==
  \/ LifeStep \/ \E reopen \in BOOLEAN : Begin(reopen)
  \/ \E r \in Runtime : SweeperExits(r) \/ Sweep(r)
  \/ \E q \in Req : Arrive(q) \/ ReqStep(q)
  \/ \E j \in Job : JobStep(j)
  \/ \E q \in Revocable : ChangeAccess(q)

Spec == Init /\ [][Next]_vars

(***************************************************************************)
(* Fairness.  Goroutines are scheduled; upstream calls end within          *)
(* UpstreamTimeout, waiting within PreparationWait and jobs within         *)
(* JobTimeout.  Nothing makes anybody send a request or call Configure.    *)
(***************************************************************************)
Fairness ==
  /\ WF_vars(LifeStep)
  /\ \A r \in Runtime : WF_vars(SweeperExits(r))
  /\ \A q \in Req : WF_vars(ReqStep(q))
  /\ \A j \in Job : WF_vars(JobStep(j))

FairSpec == Spec /\ Fairness

-----------------------------------------------------------------------------
TypeOK ==
  /\ current \in Runtime \cup {NoRuntime} /\ lease \in Runtime \cup {NoRuntime}
  /\ life \in [at: {"idle", "open"}, reopen: BOOLEAN, rt: {NoRuntime}]
            \cup [at: {"stop", "drain", "publish"}, reopen: BOOLEAN, rt: Runtime]
  /\ status \in [Runtime -> {"closed", "live", "stopping"}]
  /\ sweeper \subseteq Runtime /\ slot \subseteq Runtime
  /\ listed \in [Runtime -> [Key -> Job \cup {NoJob}]]
  /\ job \in [Job -> [at: {"free", "running", "over", "unslotted", "unlisted"},
                      rt: Runtime \cup {NoRuntime}, key: Key \cup {NoKey}, owner: Req \cup {NoReq},
                      err: {"none", "denied", "failed"}]]
  /\ req \in [Req -> [at: {"idle", "found"} \cup Inside, rt: Runtime \cup {NoRuntime},
                      key: Key \cup {NoKey}, job: Job \cup {NoJob},
                      answer: {"none", "ok", "denied", "failed"}]]
  /\ allowed \subseteq Req
  /\ stock \in [Key -> {"absent", "shelved", "withdrawn"}]
  /\ held \in [Req -> Key \cup {NoKey}]

\* No request, job or sweeper touches a cache directory that its runtime does
\* not own: a replacement runtime opens the directory only when the requests
\* and jobs of the one it replaces have ended, however they interleave.
OwnCacheOnly ==
  /\ \A q \in Req : req[q].at \in Inside => req[q].rt = lease
  /\ \A q \in Req : held[q] # NoKey => req[q].at \in Inside
  /\ \A j \in Job : job[j].at # "free" => job[j].rt = lease
  /\ sweeper \subseteq {lease}

\* One download and extraction at a time in the whole process, across
\* reconfigurations, and the slot is given back exactly when it ends.
OneExtraction ==
  LET extracting == {j \in Job : job[j].at \in {"running", "over"}} IN
  /\ Cardinality(extracting) <= 1
  /\ slot = {job[j].rt : j \in extracting}

\* The map of jobs lists exactly the jobs that requests can still join, under
\* their own keys: a job never removes the entry of another.
MapExact ==
  \A r \in Runtime, k \in Key, j \in Job :
    listed[r][k] = j <=> /\ job[j].at \in {"running", "over", "unslotted"}
                         /\ job[j].rt = r /\ job[j].key = k

\* Nobody waits for a job that has ended or that prepares something else.
WaitersHaveJob ==
  \A q \in Req : req[q].at = "waiting" =>
    /\ job[req[q].job].at # "free"
    /\ job[req[q].job].rt = req[q].rt /\ job[req[q].job].key = req[q].key

\* Close leaves nothing behind: no lease, work, chapter or handle.
ClosedIsEmpty ==
  life.at = "idle" /\ current = NoRuntime =>
    /\ lease = NoRuntime /\ sweeper = {} /\ slot = {}
    /\ \A r \in Runtime : Admitted(r) = {} /\ Working(r) = {}
    /\ \A k \in Key : stock[k] = "absent"

\* A request is answered in the end, also by a runtime that is being replaced.
RequestsEnd == \A q \in Req : req[q].at # "idle" ~> req[q].at = "idle"

\* Configure and Close return: the drain cannot wait for ever.
LifecycleEnds == life.at # "idle" ~> life.at = "idle"

\* docs/protocol.md: 401 and 403 mean that the caller or the chapter is not
\* authorized.  So a caller whom Silo accepts throughout never gets them.
DeniedIsUnauthorized == \A q \in Req \ Revocable : req[q].answer # "denied"

\* backend_test.go and docs/validation.md: requests for one chapter share one
\* download; a chapter on the shelf is not prepared again.
PreparedOnce ==
  [][\A j \in Job : job[j].at = "free" /\ job'[j].at = "running"
                      => stock[job'[j].key] # "shelved"]_vars
=============================================================================
