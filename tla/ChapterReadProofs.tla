-------------------------- MODULE ChapterReadProofs --------------------------
(***************************************************************************)
(* Proofs about ChapterRead, for any sets of readers and revisions, any    *)
(* sizes of pages and chunks, and any requests that callers make up.       *)
(***************************************************************************)
EXTENDS ChapterRead, SequenceTheorems, TLAPS

Looked == {"headed", "missed", "waiting", "again", "reading"}

\* What a request has seen of Silo's grants and revisions when it is at q.
Witnessed(q, access_, source_, s) ==
  /\ q.at # "idle" => access_ \subseteq s.grants /\ source_ \in s.sources
  /\ q.at = "known" => "account" \in s.grants
  /\ q.at = "opened" => {"account", "item"} \subseteq s.grants
  /\ q.at \in Looked \/ q.status = "ok" =>
       /\ {"account", "item", "file"} \subseteq s.grants
       /\ q.head \in {CacheKey(v) : v \in s.sources}

\* A revision whose pages may stand under a key.
PagesOf(rev, key) == rev \in Revision /\ CacheKey(rev) = key /\ Readable(rev)

Fits(q) ==
  /\ q.status # "none" => q.at = "answered"
  /\ q.at \in {"missed", "waiting", "again"} => q.kind = "pages"
  /\ q.at = "reading" \/ q.status = "ok" =>
       PagesOf(q.rev, q.head) /\ (q.key # NoKey => q.key = q.head)
  /\ q.status = "ok" /\ q.kind = "page" => ~Beyond(q)

RequestsWitnessed == \A r \in Reader : Witnessed(req[r], access[r], source, seen[r])
RequestsFit == \A r \in Reader : Fits(req[r])

ContentsFit == \A k \in Key : stock[k] = "shelved" => PagesOf(contents[k], k)

JobFits ==
  /\ job.at # "idle" => job.key \in Key
  /\ job.at = "extract" => job.rev \in Revision /\ CacheKey(job.rev) = job.key

\* The bytes a client has joined are a beginning of the pages of rev.
JoinedFrom(s, rev) ==
  /\ PagesOf(rev, s.key) /\ s.list = PageSizes[rev]
  /\ s.joined # <<>> /\ Len(s.joined) <= Len(s.list)
  /\ \A p \in 1..Len(s.joined) :
       /\ p < Len(s.joined) \/ s.at = "complete" => Len(s.joined[p]) = s.list[p]
       /\ Validated(s.key) => \A i \in 1..Len(s.joined[p]) : s.joined[p][i] = <<rev, p - 1, i>>
  /\ s.at = "reading" =>
       /\ Len(s.joined[Len(s.joined)]) < s.list[Len(s.joined)]
       /\ \E n \in 0..Len(s.joined[Len(s.joined)]) :
            Len(s.joined[Len(s.joined)]) = n * ChunkBytes
  /\ s.at = "complete" => Len(s.joined) = Len(s.list)

\* The request under way is the one that the client's session asks for.
Asks(s, q) ==
  /\ s.at = "preparing" /\ q.at # "idle" => q.kind = "pages" /\ q.key = NoKey
  /\ s.at = "reading" /\ q.at # "idle" => /\ q.formed /\ q.kind = "page" /\ q.key = s.key
                                          /\ q.status \in {"none", "ok"} =>
                                               /\ q.index = Len(s.joined) - 1
                                               /\ q.offset = Len(s.joined[Len(s.joined)])
                                          /\ Validated(s.key) => q.status # "invalid"
  /\ s.at = "complete" => q.at = "idle"

SessionFits(s, q) ==
  /\ s.at \in {"reading", "complete"} => \E rev \in Revision : JoinedFrom(s, rev)
  /\ Asks(s, q)

SessionsFit == \A r \in Reader : SessionFits(session[r], req[r])

IInv ==
  /\ TypeOK /\ ContentsFit /\ JobFits
  /\ RequestsWitnessed /\ RequestsFit /\ SessionsFit

\* The parts of TypeOK that a step of one reader leaves to be shown.
CacheTyped ==
  /\ stock \in [Key -> {"absent", "shelved", "withdrawn"}] /\ held \in [Reader -> Key \cup {NoKey}]
  /\ contents \in [Key -> Revision \cup {NoRevision}]
JobType ==
  [at: {"idle", "download", "extract"}, key: Key \cup {NoKey},
   owner: Reader \cup {NoReader}, rev: Revision \cup {NoRevision}]
Seen == [grants: SUBSET Grant, sources: SUBSET Revision]

\* TypeOK by its parts.
LEMMA Types ==
  TypeOK <=> /\ source \in Revision /\ access \in [Reader -> SUBSET Grant]
             /\ CacheTyped /\ job \in JobType /\ req \in [Reader -> Request]
             /\ session \in [Reader -> Session] /\ seen \in [Reader -> Seen]
  BY DEF TypeOK, CacheTyped, JobType, Seen

\* The same of the next state.
LEMMA TypesNext ==
  TypeOK' <=> /\ source' \in Revision /\ access' \in [Reader -> SUBSET Grant]
              /\ CacheTyped' /\ job' \in JobType /\ req' \in [Reader -> Request]
              /\ session' \in [Reader -> Session] /\ seen' \in [Reader -> Seen]
  BY DEF TypeOK, CacheTyped, JobType, Seen

\* A revision has a key.
LEMMA Keys == \A rev \in Revision : CacheKey(rev) \in Key
  BY DEF Key

\* A client without a request or a session has nothing to answer for.
LEMMA IdleFits ==
  /\ Idle \in Request /\ Fits(Idle) /\ Unseen \in Seen /\ Closed \in Session
  /\ \A a, v, n : Witnessed(Idle, a, v, n)
  /\ \A s : Asks(s, Idle)
  /\ \A q : SessionFits(Closed, q)
<1>1. Idle \in Request
  BY DEF Idle, Request
<1>2. Unseen \in Seen
  BY DEF Unseen, Seen
<1>3. Closed \in Session
  BY BoundsAssumption DEF Closed, Session
<1>4. Fits(Idle) /\ \A a, v, n : Witnessed(Idle, a, v, n)
  BY DEF Fits, Witnessed, Idle, Looked
<1>5. \A s : Asks(s, Idle)
  BY DEF Asks, Idle
<1>6. \A q : SessionFits(Closed, q)
  BY DEF SessionFits, Asks, Closed
<1> QED
  BY <1>1, <1>2, <1>3, <1>4, <1>5, <1>6

\* Nobody has asked for anything.
LEMMA InitialReading == Init => IInv
<1> SUFFICES ASSUME Init PROVE IInv
  OBVIOUS
<1> USE IdleFits DEF Init
<1>1. CacheTyped
  BY DEF CacheTyped, Cache!Init
<1>2. job \in JobType
  BY DEF JobType, NoJob
<1>3. TypeOK
  BY <1>1, <1>2, Types
<1>4. ContentsFit /\ JobFits
  BY DEF ContentsFit, JobFits, Cache!Init, NoJob
<1>5. RequestsWitnessed /\ RequestsFit /\ SessionsFit
  BY DEF RequestsWitnessed, RequestsFit, SessionsFit
<1> QED
  BY <1>3, <1>4, <1>5 DEF IInv

\* A step of one reader keeps the invariant if what it leaves behind fits.
LEMMA OneReader ==
  ASSUME IInv, NEW r \in Reader, NEW w \in Request, NEW s \in Session, NEW n \in Seen,
         req' = [req EXCEPT ![r] = w], session' = [session EXCEPT ![r] = s],
         seen' = [seen EXCEPT ![r] = n], UNCHANGED siloVars,
         CacheTyped', ContentsFit', job' \in JobType, JobFits',
         Witnessed(w, access[r], source, n), Fits(w), SessionFits(s, w)
  PROVE  IInv'
<1>1. TypeOK /\ RequestsWitnessed /\ RequestsFit /\ SessionsFit
  BY DEF IInv
<1>2. /\ source \in Revision /\ access \in [Reader -> SUBSET Grant] /\ req \in [Reader -> Request]
      /\ session \in [Reader -> Session] /\ seen \in [Reader -> Seen]
  BY <1>1, Types
<1>3. source' = source /\ access' = access
  BY DEF siloVars
<1>4. /\ req' \in [Reader -> Request] /\ session' \in [Reader -> Session] /\ seen' \in [Reader -> Seen]
      /\ req'[r] = w /\ session'[r] = s /\ seen'[r] = n
      /\ \A o \in Reader : o # r => req'[o] = req[o] /\ session'[o] = session[o] /\ seen'[o] = seen[o]
  BY <1>2
<1>5. TypeOK'
  BY <1>2, <1>3, <1>4, TypesNext
<1>6. RequestsWitnessed'
  BY <1>1, <1>3, <1>4 DEF RequestsWitnessed
<1>7. RequestsFit'
  BY <1>1, <1>4 DEF RequestsFit
<1>8. SessionsFit'
  BY <1>1, <1>4 DEF SessionsFit
<1> QED
  BY <1>5, <1>6, <1>7, <1>8 DEF IInv

\* What the invariant says of a reader.
LEMMA ReaderNow ==
  ASSUME IInv, NEW r \in Reader
  PROVE  /\ req[r] \in Request /\ session[r] \in Session /\ seen[r] \in Seen
         /\ source \in Revision /\ access[r] \in SUBSET Grant
         /\ Witnessed(req[r], access[r], source, seen[r]) /\ Fits(req[r])
         /\ SessionFits(session[r], req[r])
<1>1. TypeOK /\ RequestsWitnessed /\ RequestsFit /\ SessionsFit
  BY DEF IInv
<1>2. /\ req \in [Reader -> Request] /\ session \in [Reader -> Session] /\ seen \in [Reader -> Seen]
      /\ source \in Revision /\ access \in [Reader -> SUBSET Grant]
  BY <1>1, Types
<1> QED
  BY <1>1, <1>2 DEF RequestsWitnessed, RequestsFit, SessionsFit

\* A step that leaves cache and job alone.
LEMMA CacheUnmoved ==
  ASSUME IInv, UNCHANGED <<cacheVars, job>>
  PROVE  CacheTyped' /\ ContentsFit' /\ job' \in JobType /\ JobFits'
<1>1. stock' = stock /\ held' = held /\ contents' = contents /\ job' = job
  BY DEF cacheVars
<1>2. TypeOK /\ ContentsFit /\ JobFits
  BY DEF IInv
<1>3. CacheTyped /\ job \in JobType
  BY <1>2, Types
<1> QED
  BY <1>1, <1>2, <1>3 DEF CacheTyped, ContentsFit, JobFits

\* A handler's step: the client does not notice it.
LEMMA HandlerMoves ==
  ASSUME IInv, NEW r \in Reader, NEW w \in Request,
         req' = [req EXCEPT ![r] = w], UNCHANGED <<siloVars, session, seen>>,
         CacheTyped', ContentsFit', job' \in JobType, JobFits',
         Witnessed(w, access[r], source, seen[r]), Fits(w), Asks(session[r], w)
  PROVE  IInv'
<1>1. session[r] \in Session /\ seen[r] \in Seen /\ SessionFits(session[r], req[r])
  BY ReaderNow
<1>2. session' = [session EXCEPT ![r] = session[r]] /\ seen' = [seen EXCEPT ![r] = seen[r]]
  BY Types DEF IInv
<1>3. SessionFits(session[r], w)
  BY <1>1 DEF SessionFits
<1> QED
  BY <1>1, <1>2, <1>3, OneReader

\* An answer without content, which is not one that the plugin must not give.
LEMMA Refused ==
  ASSUME IInv, NEW r \in Reader, req[r].at # "idle",
         NEW status \in {"preparing", "refused", "conflict", "too_large", "invalid", "unavailable"},
         Answer(r, status), UNCHANGED <<siloVars, session, seen>>,
         CacheTyped', ContentsFit', job' \in JobType, JobFits',
         session[r].at = "reading" /\ Validated(session[r].key) => status # "invalid"
  PROVE  IInv'
<1> DEFINE w == [Idle EXCEPT !.at = "answered", !.kind = req[r].kind, !.key = req[r].key,
                             !.status = status]
<1>1. /\ req[r] \in Request /\ Witnessed(req[r], access[r], source, seen[r])
      /\ SessionFits(session[r], req[r])
  BY ReaderNow
<1>2. w \in Request /\ w.at = "answered" /\ w.kind = req[r].kind /\ w.key = req[r].key
      /\ w.status = status /\ w.formed = TRUE
  BY <1>1 DEF Idle, Request
<1>3. req' = [req EXCEPT ![r] = w]
  BY DEF Answer
<1> HIDE DEF w
<1>4. Fits(w)
  BY <1>2 DEF Fits
<1>5. Witnessed(w, access[r], source, seen[r])
  BY <1>1, <1>2 DEF Witnessed, Looked
<1>6. Asks(session[r], w)
  BY <1>1, <1>2 DEF SessionFits, Asks
<1> QED
  BY <1>2, <1>3, <1>4, <1>5, <1>6, HandlerMoves

\* A handler that only goes on, with the cache as it is.
LEMMA GoesOn ==
  ASSUME IInv, NEW r \in Reader, NEW at \in {"known", "opened", "missed", "waiting"},
         req' = [req EXCEPT ![r].at = at], UNCHANGED <<siloVars, session, seen>>,
         CacheTyped', ContentsFit', job' \in JobType, JobFits',
         req[r].at # "idle", req[r].status = "none",
         at = "known" => "account" \in seen[r].grants,
         at = "opened" => {"account", "item"} \subseteq seen[r].grants,
         at \in {"missed", "waiting"} => req[r].kind = "pages" /\ req[r].at \in Looked
  PROVE  IInv'
<1> DEFINE w == [req[r] EXCEPT !.at = at]
<1>1. /\ req[r] \in Request /\ Witnessed(req[r], access[r], source, seen[r]) /\ Fits(req[r])
      /\ SessionFits(session[r], req[r])
  BY ReaderNow
<1>2. /\ w \in Request /\ w.at = at /\ w.kind = req[r].kind /\ w.key = req[r].key
      /\ w.status = "none" /\ w.formed = req[r].formed /\ w.head = req[r].head
      /\ w.index = req[r].index /\ w.offset = req[r].offset
  BY <1>1 DEF Request
<1>3. req' = [req EXCEPT ![r] = w]
  OBVIOUS
<1> HIDE DEF w
<1>4. Fits(w)
  BY <1>2 DEF Fits
<1>5. Witnessed(w, access[r], source, seen[r])
  BY <1>1, <1>2 DEF Witnessed, Looked
<1>6. Asks(session[r], w)
  BY <1>1, <1>2 DEF SessionFits, Asks
<1> QED
  BY <1>2, <1>3, <1>4, <1>5, <1>6, HandlerMoves

\* A multiple of the chunk is aligned.
LEMMA Aligned == \A n \in Nat : (n * ChunkBytes) % ChunkBytes = 0
<1>1. ASSUME NEW C \in Nat \ {0}, NEW n \in Nat PROVE (n * C) % C = 0
  BY SMTT(20)
<1> QED
  BY <1>1, BoundsAssumption

\* Two revisions with validators that stand under one key are one.
LEMMA OneRevision ==
  ASSUME NEW key, Validated(key), NEW u, NEW v, PagesOf(u, key), PagesOf(v, key)
  PROVE  u = v
  BY ValidatorsAssumption DEF PagesOf

\* Route, body and offset of a client that follows the protocol are in order.
LEMMA WellFormed ==
  ASSUME IInv, NEW r \in Reader, session[r].at = "reading", req[r].at = "asked"
  PROVE  ~Malformed(req[r])
<1>1. /\ SessionFits(session[r], req[r]) /\ Fits(req[r]) /\ session[r] \in Session
      /\ req[r] \in Request
  BY ReaderNow
<1>2. PICK rev \in Revision : JoinedFrom(session[r], rev)
  BY <1>1 DEF SessionFits
<1>3. session[r].key \in Key
  BY <1>2, Keys DEF JoinedFrom, PagesOf
<1>4. req[r].status = "none"
  BY <1>1 DEF Fits, Request
<1>5. /\ req[r].formed /\ req[r].key = session[r].key
      /\ req[r].offset = Len(session[r].joined[Len(session[r].joined)])
  BY <1>1, <1>4 DEF SessionFits, Asks
<1>6. PICK n \in 0..Len(session[r].joined[Len(session[r].joined)]) :
        Len(session[r].joined[Len(session[r].joined)]) = n * ChunkBytes
  BY <1>2 DEF JoinedFrom
<1>7. n \in Nat
  BY <1>1, <1>5, <1>6 DEF Request
<1>8. req[r].offset % ChunkBytes = 0
  BY <1>5, <1>6, <1>7, Aligned
<1> QED
  BY <1>3, <1>5, <1>8, NobodyAssumption DEF Malformed

\* Validation and the three calls to Silo.
LEMMA Authorizing ==
  ASSUME IInv, NEW r \in Reader,
         TurnAway(r) \/ Unavailable(r) \/ Authenticate(r) \/ AuthorizeItem(r) \/ HeadFile(r)
  PROVE  IInv'
<1>1. /\ req[r] \in Request /\ seen[r] \in Seen /\ source \in Revision
      /\ Witnessed(req[r], access[r], source, seen[r]) /\ Fits(req[r])
      /\ SessionFits(session[r], req[r])
  BY ReaderNow
<1>2. /\ UNCHANGED <<siloVars, cacheVars, job, session, seen>>
      /\ UNCHANGED <<siloVars, session, seen>> /\ UNCHANGED <<cacheVars, job>>
      /\ req[r].at \in {"asked", "known", "opened"}
  BY DEF TurnAway, Unavailable, Authenticate, AuthorizeItem, HeadFile, OnlyReq
<1>3. CacheTyped' /\ ContentsFit' /\ job' \in JobType /\ JobFits'
  BY <1>2, CacheUnmoved
<1>4. req[r].status = "none" /\ req[r].at # "idle"
  BY <1>1, <1>2 DEF Fits, Request
<1>5. access[r] \subseteq seen[r].grants /\ source \in seen[r].sources
  BY <1>1, <1>4 DEF Witnessed
<1>6. CASE TurnAway(r)
  <2>1. session[r].at # "reading"
    BY <1>6, WellFormed DEF TurnAway
  <2> QED
    BY <1>2, <1>3, <1>4, <1>6, <2>1, Refused DEF TurnAway
<1>7. ASSUME \E status \in {"refused", "too_large", "unavailable"} : Answer(r, status)
      PROVE  IInv'
  BY <1>2, <1>3, <1>4, <1>7, Refused
<1>8. CASE Authenticate(r) /\ "account" \in access[r]
  BY <1>2, <1>3, <1>4, <1>5, <1>8, GoesOn DEF Authenticate, Goto
<1>9. CASE AuthorizeItem(r) /\ "item" \in access[r]
  <2>1. {"account", "item"} \subseteq seen[r].grants
    BY <1>1, <1>5, <1>9 DEF AuthorizeItem, Witnessed
  <2> QED
    BY <1>2, <1>3, <1>4, <1>9, <2>1, GoesOn DEF AuthorizeItem, Goto
<1>10. CASE /\ req[r].at = "opened" /\ "file" \in access[r]
            /\ req' = [req EXCEPT ![r].at = "headed", ![r].head = CacheKey(source)]
  <2> DEFINE w == [req[r] EXCEPT !.at = "headed", !.head = CacheKey(source)]
  <2>1. CacheKey(source) \in Key
    BY <1>1, Keys
  <2>2. /\ w \in Request /\ w.at = "headed" /\ w.kind = req[r].kind /\ w.key = req[r].key
        /\ w.status = "none" /\ w.formed = req[r].formed /\ w.head = CacheKey(source)
        /\ w.index = req[r].index /\ w.offset = req[r].offset
    BY <1>1, <1>4, <2>1 DEF Request
  <2>3. req' = [req EXCEPT ![r] = w]
    BY <1>10
  <2> HIDE DEF w
  <2>4. Fits(w)
    BY <2>2 DEF Fits
  <2>5. Witnessed(w, access[r], source, seen[r])
    BY <1>1, <1>5, <1>10, <2>2 DEF Witnessed
  <2>6. Asks(session[r], w)
    BY <1>1, <1>4, <2>2 DEF SessionFits, Asks
  <2> QED
    BY <1>2, <1>3, <2>2, <2>3, <2>4, <2>5, <2>6, HandlerMoves
<1> QED
  BY <1>6, <1>7, <1>8, <1>9, <1>10 DEF Unavailable, Authenticate, AuthorizeItem, HeadFile

\* removeLocked forgets what it deletes, and adds nothing.
LEMMA Discarding ==
  ASSUME IInv, NEW k, Discard(k)
  PROVE  CacheTyped' /\ ContentsFit'
<1>1. CacheTyped /\ ContentsFit
  BY Types DEF IInv
<1> DEFINE gone == {k} \cap {x \in Key : Cache!Free(x)}
<1>2. /\ stock' = [x \in Key |-> IF x \in gone THEN "absent"
                    ELSE IF x \in {k} \cap {y \in Key : stock[y] # "absent"} THEN "withdrawn"
                    ELSE stock[x]]
      /\ held' = held
      /\ contents' = [x \in Key |-> IF x \in gone THEN NoRevision ELSE contents[x]]
  BY DEF Discard, Cache!Clear
<1> HIDE DEF gone
<1>3. CacheTyped'
  BY <1>1, <1>2 DEF CacheTyped
<1>4. \A x \in Key : stock'[x] = "shelved" => stock[x] = "shelved" /\ contents'[x] = contents[x]
  BY <1>2
<1>5. ContentsFit'
  BY <1>1, <1>4 DEF ContentsFit
<1> QED
  BY <1>3, <1>5

\* The lookup, and a key that is not the one Silo's answer gives.
LEMMA LookingUp ==
  ASSUME IInv, NEW r \in Reader, KeyChanged(r) \/ Hit(r) \/ Miss(r)
  PROVE  IInv'
<1>1. /\ req[r] \in Request /\ seen[r] \in Seen /\ source \in Revision
      /\ Witnessed(req[r], access[r], source, seen[r]) /\ Fits(req[r])
      /\ SessionFits(session[r], req[r])
  BY ReaderNow
<1>2. req[r].at \in {"headed", "again"} /\ UNCHANGED <<siloVars, session, seen>> /\ job' = job
  BY DEF KeyChanged, Hit, Miss, OnlyReq
<1>3. req[r].status = "none" /\ req[r].at # "idle"
  BY <1>1, <1>2 DEF Fits, Request
<1>4. CacheTyped /\ ContentsFit /\ job \in JobType /\ JobFits
  BY Types DEF IInv
<1>5. job' \in JobType /\ JobFits'
  BY <1>2, <1>4 DEF JobFits
<1>6. req[r].head \in Key
  <2>1. PICK v \in seen[r].sources : req[r].head = CacheKey(v)
    BY <1>1, <1>2 DEF Witnessed, Looked
  <2> QED
    BY <1>1, <2>1, Keys DEF Seen
<1>7. CASE KeyChanged(r)
  <2>1. UNCHANGED <<cacheVars, job>>
    BY <1>7 DEF KeyChanged, OnlyReq
  <2>2. CacheTyped' /\ ContentsFit'
    BY <2>1, CacheUnmoved
  <2> QED
    BY <1>2, <1>3, <1>5, <1>7, <2>2, Refused DEF KeyChanged
<1>8. CASE Hit(r)
  <2> DEFINE w == [req[r] EXCEPT !.at = "reading", !.rev = contents[req[r].head]]
  <2>1. /\ stock[req[r].head] = "shelved" /\ held' = [held EXCEPT ![r] = req[r].head]
        /\ stock' = stock /\ contents' = contents
    BY <1>8 DEF Hit, Cache!Borrow
  <2>2. CacheTyped' /\ ContentsFit'
    BY <1>4, <1>6, <2>1 DEF CacheTyped, ContentsFit
  <2>3. PagesOf(contents[req[r].head], req[r].head)
    BY <1>4, <1>6, <2>1 DEF ContentsFit
  <2>4. contents[req[r].head] \in Revision
    BY <2>3 DEF PagesOf
  <2>5. /\ w \in Request /\ w.at = "reading" /\ w.kind = req[r].kind /\ w.key = req[r].key
        /\ w.status = "none" /\ w.formed = req[r].formed /\ w.head = req[r].head
        /\ w.index = req[r].index /\ w.offset = req[r].offset /\ w.rev = contents[req[r].head]
    BY <1>1, <1>3, <2>4 DEF Request
  <2>6. req' = [req EXCEPT ![r] = w]
    BY <1>8 DEF Hit
  <2> HIDE DEF w
  <2>7. Fits(w)
    BY <1>8, <2>3, <2>5 DEF Fits, Hit, Stale
  <2>8. Witnessed(w, access[r], source, seen[r])
    BY <1>1, <1>2, <2>5 DEF Witnessed, Looked
  <2>9. Asks(session[r], w)
    BY <1>1, <1>3, <2>5 DEF SessionFits, Asks
  <2> QED
    BY <1>2, <1>5, <2>2, <2>5, <2>6, <2>7, <2>8, <2>9, HandlerMoves
<1>9. CASE Miss(r)
  <2>1. CacheTyped' /\ ContentsFit'
    BY <1>9, Discarding DEF Miss
  <2>2. CASE Answer(r, "conflict")
    BY <1>2, <1>3, <1>5, <2>1, <2>2, Refused
  <2>3. CASE req[r].kind = "pages" /\ Goto(r, "missed")
    BY <1>2, <1>3, <1>5, <2>1, <2>3, GoesOn DEF Goto, Looked
  <2> QED
    BY <1>9, <2>2, <2>3 DEF Miss
<1> QED
  BY <1>7, <1>8, <1>9

\* Jobs that are joined, started and not waited for.
LEMMA Preparing ==
  ASSUME IInv, NEW r \in Reader, Join(r) \/ Start(r) \/ Refuse(r) \/ GiveUp(r)
  PROVE  IInv'
<1>1. /\ req[r] \in Request /\ seen[r] \in Seen /\ source \in Revision
      /\ Witnessed(req[r], access[r], source, seen[r]) /\ Fits(req[r])
  BY ReaderNow
<1>2. /\ req[r].at \in {"missed", "waiting", "again"} /\ UNCHANGED <<siloVars, session, seen>>
      /\ UNCHANGED cacheVars
  BY DEF Join, Start, Refuse, GiveUp, OnlyReq
<1>3. req[r].status = "none" /\ req[r].at # "idle" /\ req[r].kind = "pages" /\ req[r].at \in Looked
  BY <1>1, <1>2 DEF Fits, Request, Looked
<1>4. CASE Start(r)
  <2>1. req[r].head \in Key
    <3>1. PICK v \in seen[r].sources : req[r].head = CacheKey(v)
      BY <1>1, <1>3 DEF Witnessed
    <3> QED
      BY <1>1, <3>1, Keys DEF Seen
  <2>2. job' = [at |-> "download", key |-> req[r].head, owner |-> r, rev |-> NoRevision]
    BY <1>4 DEF Start
  <2>3. job' \in JobType /\ JobFits'
    BY <2>1, <2>2 DEF JobType, JobFits
  <2>4. CacheTyped /\ ContentsFit
    BY Types DEF IInv
  <2>5. CacheTyped' /\ ContentsFit'
    BY <1>2, <2>4 DEF cacheVars, CacheTyped, ContentsFit
  <2> QED
    BY <1>2, <1>3, <1>4, <2>3, <2>5, GoesOn DEF Start, Goto
<1>5. CASE Join(r) \/ Refuse(r) \/ GiveUp(r)
  <2>1. UNCHANGED <<cacheVars, job>>
    BY <1>5 DEF Join, Refuse, GiveUp, OnlyReq
  <2>2. CacheTyped' /\ ContentsFit' /\ job' \in JobType /\ JobFits'
    BY <2>1, CacheUnmoved
  <2>3. CASE Join(r)
    BY <1>2, <1>3, <2>2, <2>3, GoesOn DEF Join, Goto
  <2>4. CASE Refuse(r) \/ GiveUp(r)
    <3>1. PICK status \in {"preparing", "unavailable"} : Answer(r, status)
      BY <2>4 DEF Refuse, GiveUp
    <3> QED
      BY <1>2, <1>3, <2>2, <3>1, Refused
  <2> QED
    BY <1>5, <2>3, <2>4
<1> QED
  BY <1>4, <1>5

\* The page that a client reads has the size its list says, so its next chunk
\* is within it.
LEMMA NextChunk ==
  ASSUME IInv, NEW r \in Reader, session[r].at = "reading", Validated(session[r].key),
         req[r].at = "reading"
  PROVE  ~Beyond(req[r])
<1>1. /\ req[r] \in Request /\ session[r] \in Session /\ Fits(req[r])
      /\ SessionFits(session[r], req[r])
  BY ReaderNow
<1>2. PICK rev \in Revision : JoinedFrom(session[r], rev)
  BY <1>1 DEF SessionFits
<1>3. req[r].status = "none"
  BY <1>1 DEF Fits, Request
<1> DEFINE n == Len(session[r].joined)
<1>4. /\ req[r].key = session[r].key /\ req[r].index = n - 1
      /\ req[r].offset = Len(session[r].joined[n])
  BY <1>1, <1>3 DEF SessionFits, Asks
<1>5. session[r].key # NoKey
  BY <1>2, Keys, NobodyAssumption DEF JoinedFrom, PagesOf
<1>6. PagesOf(req[r].rev, session[r].key)
  BY <1>1, <1>4, <1>5 DEF Fits
<1>7. req[r].rev = rev
  BY <1>2, <1>6, OneRevision DEF JoinedFrom
<1>8. /\ session[r].list = PageSizes[rev] /\ n <= Len(session[r].list) /\ n \in Nat \ {0}
      /\ Len(session[r].joined[n]) < session[r].list[n]
  BY <1>1, <1>2 DEF JoinedFrom, Session
<1>9. PageSizes[rev] \in Seq(Nat)
  BY RevisionAssumption
<1> HIDE DEF n
<1>10. Len(session[r].joined[n]) \in Nat
  BY <1>1, <1>4 DEF Request
<1>11. n - 1 < Len(PageSizes[rev]) /\ PageSizes[rev][n] \in Nat
  BY <1>8, <1>9
<1> QED
  BY <1>4, <1>7, <1>8, <1>9, <1>10, <1>11 DEF Beyond

\* Content is answered from a handle, which is then released.
LEMMA Serving ==
  ASSUME IInv, NEW r \in Reader, ListPages(r) \/ ServeChunk(r)
  PROVE  IInv'
<1>1. /\ req[r] \in Request /\ seen[r] \in Seen /\ source \in Revision
      /\ Witnessed(req[r], access[r], source, seen[r]) /\ Fits(req[r])
      /\ SessionFits(session[r], req[r])
  BY ReaderNow
<1>2. /\ req[r].at = "reading" /\ UNCHANGED <<siloVars, session, seen>> /\ job' = job
      /\ held' = [held EXCEPT ![r] = NoKey] /\ stock' = stock /\ contents' = contents
  BY DEF ListPages, ServeChunk, Cache!Return
<1>3. req[r].status = "none" /\ req[r].at # "idle"
  BY <1>1, <1>2 DEF Fits, Request
<1>4. CacheTyped /\ ContentsFit /\ job \in JobType /\ JobFits
  BY Types DEF IInv
<1>5. CacheTyped' /\ ContentsFit' /\ job' \in JobType /\ JobFits'
  BY <1>2, <1>4 DEF CacheTyped, ContentsFit, JobFits
<1>6. CASE AnswerContent(r) /\ (req[r].kind = "page" => ~Beyond(req[r]))
  <2> DEFINE w == [req[r] EXCEPT !.at = "answered", !.status = "ok"]
  <2>1. /\ w \in Request /\ w.at = "answered" /\ w.kind = req[r].kind /\ w.key = req[r].key
        /\ w.status = "ok" /\ w.formed = req[r].formed /\ w.head = req[r].head
        /\ w.index = req[r].index /\ w.offset = req[r].offset /\ w.rev = req[r].rev
    BY <1>1 DEF Request
  <2>2. req' = [req EXCEPT ![r] = w]
    BY <1>6 DEF AnswerContent
  <2> HIDE DEF w
  <2>3. Beyond(w) = Beyond(req[r])
    BY <2>1 DEF Beyond
  <2>4. Fits(w)
    BY <1>1, <1>2, <1>6, <2>1, <2>3 DEF Fits
  <2>5. Witnessed(w, access[r], source, seen[r])
    BY <1>1, <1>2, <2>1 DEF Witnessed, Looked
  <2>6. Asks(session[r], w)
    BY <1>1, <1>2, <1>3, <2>1 DEF SessionFits, Asks
  <2> QED
    BY <1>2, <1>5, <2>1, <2>2, <2>4, <2>5, <2>6, HandlerMoves
<1>7. CASE Answer(r, "conflict") \/ (Answer(r, "invalid") /\ Beyond(req[r]))
  BY <1>2, <1>3, <1>5, <1>7, NextChunk, Refused
<1> QED
  BY <1>6, <1>7 DEF ListPages, ServeChunk

-----------------------------------------------------------------------------
(* The client.                                                             *)

\* The smaller of two.
LEMMA MinPair ==
  ASSUME NEW a \in Int, NEW b \in Int
  PROVE  Min({a, b}) = IF a <= b THEN a ELSE b
<1> DEFINE m == IF a <= b THEN a ELSE b
<1>1. m \in {a, b} /\ \A y \in {a, b} : m <= y
  OBVIOUS
<1>2. \A x \in {a, b} : (\A y \in {a, b} : x <= y) => x = m
  OBVIOUS
<1> HIDE DEF m
<1>3. Min({a, b}) = CHOOSE x \in {a, b} : \A y \in {a, b} : x <= y
  BY DEF Min
<1> SUFFICES Min({a, b}) = m
  BY DEF m
<1> QED
  BY <1>1, <1>2, <1>3

\* A request is sent: it sees what Silo grants and serves now.
LEMMA Sending ==
  ASSUME IInv, NEW r \in Reader, NEW w \in Request, w.at = "asked", w.status = "none",
         req' = [req EXCEPT ![r] = w],
         seen' = [seen EXCEPT ![r] = [grants |-> access[r], sources |-> {source}]],
         UNCHANGED <<siloVars, cacheVars, job>>,
         NEW s \in Session, session' = [session EXCEPT ![r] = s], SessionFits(s, w)
  PROVE  IInv'
<1> DEFINE n == [grants |-> access[r], sources |-> {source}]
<1>1. source \in Revision /\ access[r] \in SUBSET Grant
  BY ReaderNow
<1>2. n \in Seen /\ n.grants = access[r] /\ n.sources = {source}
  BY <1>1 DEF Seen
<1>3. CacheTyped' /\ ContentsFit' /\ job' \in JobType /\ JobFits'
  BY CacheUnmoved
<1> HIDE DEF n
<1>4. Witnessed(w, access[r], source, n)
  BY <1>2 DEF Witnessed, Looked
<1>5. Fits(w)
  BY DEF Fits
<1> QED
  BY <1>2, <1>3, <1>4, <1>5, OneReader DEF n

\* The request for a chunk.
ChunkRequest(key, index, offset) ==
  [Idle EXCEPT !.at = "asked", !.kind = "page", !.key = key, !.index = index, !.offset = offset]

\* It is a request, with the fields that it is made from.
LEMMA ChunkRequestFields ==
  ASSUME NEW key \in Key, NEW index \in Nat, NEW offset \in Nat
  PROVE  LET w == ChunkRequest(key, index, offset) IN
         /\ w \in Request /\ w.at = "asked" /\ w.status = "none" /\ w.kind = "page" /\ w.key = key
         /\ w.formed /\ w.index = index /\ w.offset = offset
<1>1. PICK w : w = ChunkRequest(key, index, offset)
  OBVIOUS
<1>2. w \in Request
  BY <1>1 DEF ChunkRequest, Idle, Request
<1>3. /\ w.at = "asked" /\ w.status = "none" /\ w.kind = "page" /\ w.key = key
      /\ w.formed /\ w.index = index /\ w.offset = offset
  BY <1>1 DEF ChunkRequest, Idle
<1> QED
  BY <1>1, <1>2, <1>3

\* What a client asks for is what its session needs next.
LEMMA Asking ==
  ASSUME IInv, NEW r \in Reader, AskPages(r) \/ AskChunk(r) \/ AskAnything(r)
  PROVE  IInv'
<1>1. /\ session[r] \in Session /\ SessionFits(session[r], req[r]) /\ req[r] \in Request
  BY ReaderNow
<1>2. session \in [Reader -> Session]
  BY Types DEF IInv
<1>3. CASE AskPages(r)
  <2> DEFINE w == [Idle EXCEPT !.at = "asked"]
             s == [session[r] EXCEPT !.at = "preparing"]
  <2>1. w \in Request /\ w.at = "asked" /\ w.status = "none" /\ w.kind = "pages" /\ w.key = NoKey
    BY DEF Request, Idle
  <2>2. s \in Session /\ s.at = "preparing"
    BY <1>1 DEF Session
  <2>3. session' = [session EXCEPT ![r] = s]
    BY <1>3 DEF AskPages
  <2>4. /\ req' = [req EXCEPT ![r] = w] /\ UNCHANGED <<siloVars, cacheVars, job>>
        /\ seen' = [seen EXCEPT ![r] = [grants |-> access[r], sources |-> {source}]]
    BY <1>3 DEF AskPages, Send
  <2> HIDE DEF w, s
  <2>5. SessionFits(s, w)
    BY <2>1, <2>2 DEF SessionFits, Asks
  <2> QED
    BY <2>1, <2>2, <2>3, <2>4, <2>5, Sending
<1>4. CASE AskChunk(r)
  <2> DEFINE s == session[r]
             n == Len(s.joined)
             w == ChunkRequest(s.key, n - 1, Len(s.joined[n]))
  <2>1. s.at = "reading"
    BY <1>4 DEF AskChunk
  <2>2. PICK rev \in Revision : JoinedFrom(s, rev)
    BY <1>1, <2>1 DEF SessionFits
  <2>3. n \in Nat \ {0} /\ Len(s.joined[n]) \in Nat /\ s.key \in Key
    BY <1>1, <2>2, Keys DEF JoinedFrom, PagesOf, Session
  <2>4. /\ w \in Request /\ w.at = "asked" /\ w.status = "none" /\ w.kind = "page" /\ w.key = s.key
        /\ w.formed /\ w.index = n - 1 /\ w.offset = Len(s.joined[n])
    <3>1. s.key \in Key /\ n - 1 \in Nat /\ Len(s.joined[n]) \in Nat
      BY <2>3
    <3>2. PICK key \in Key, index \in Nat, offset \in Nat :
            key = s.key /\ index = n - 1 /\ offset = Len(s.joined[n])
      BY <3>1
    <3>3. w = ChunkRequest(key, index, offset)
      BY <3>2
    <3> HIDE DEF w
    <3>4. /\ w \in Request /\ w.at = "asked" /\ w.status = "none" /\ w.kind = "page" /\ w.key = key
          /\ w.formed /\ w.index = index /\ w.offset = offset
      BY <3>3, ChunkRequestFields
    <3> QED
      BY <3>2, <3>4
  <2>5. /\ req' = [req EXCEPT ![r] = w] /\ UNCHANGED <<siloVars, cacheVars, job>>
        /\ seen' = [seen EXCEPT ![r] = [grants |-> access[r], sources |-> {source}]]
        /\ session' = [session EXCEPT ![r] = s]
    BY <1>2, <1>4 DEF AskChunk, Send, PageInHand, ChunkRequest
  <2> HIDE DEF w
  <2>6. SessionFits(s, w)
    BY <2>1, <2>2, <2>4 DEF SessionFits, Asks
  <2> QED
    BY <1>1, <2>4, <2>5, <2>6, Sending
<1>5. CASE AskAnything(r)
  <2>1. PICK w \in Made[r] : Send(r, w)
    BY <1>5 DEF AskAnything
  <2>2. w \in Request /\ w.at = "asked" /\ w.status = "none"
    BY MadeAssumption
  <2>3. session' = [session EXCEPT ![r] = session[r]] /\ session[r].at = "closed"
    BY <1>2, <1>5 DEF AskAnything
  <2>4. SessionFits(session[r], w)
    BY <2>3 DEF SessionFits, Asks
  <2> QED
    BY <1>1, <2>1, <2>2, <2>3, <2>4, Sending DEF Send
<1> QED
  BY <1>3, <1>4, <1>5

\* An answer is received: the request is over.
LEMMA Receiving ==
  ASSUME IInv, NEW r \in Reader, Receive(r),
         NEW s \in Session, session' = [session EXCEPT ![r] = s],
         s.at \in {"reading", "complete"} => \E rev \in Revision : JoinedFrom(s, rev)
  PROVE  IInv'
<1>1. CacheTyped' /\ ContentsFit' /\ job' \in JobType /\ JobFits'
  BY CacheUnmoved DEF Receive
<1>2. SessionFits(s, Idle)
  BY IdleFits DEF SessionFits
<1> QED
  BY <1>1, <1>2, IdleFits, OneReader DEF Receive

\* The bytes of an answered chunk.
LEMMA ChunkBody ==
  ASSUME NEW q \in Request, q.rev \in Revision, ~Beyond(q)
  PROVE  LET size == PageSizes[q.rev][q.index + 1]
             length == IF size - q.offset <= ChunkBytes THEN size - q.offset ELSE ChunkBytes
         IN  /\ size \in Nat /\ length \in Nat \ {0}
             /\ Body(q) \in Seq(Byte) /\ Len(Body(q)) = length
             /\ \A i \in 1..length : Body(q)[i] = <<q.rev, q.index, q.offset + i>>
<1> DEFINE size == PageSizes[q.rev][q.index + 1]
           length == IF size - q.offset <= ChunkBytes THEN size - q.offset ELSE ChunkBytes
<1>1. PageSizes[q.rev] \in Seq(Nat) /\ q.index \in Nat /\ q.offset \in Nat
      /\ ChunkBytes \in Nat \ {0}
  BY RevisionAssumption, BoundsAssumption DEF Request
<1>2. q.index + 1 \in 1..Len(PageSizes[q.rev]) /\ q.offset < size
  BY <1>1 DEF Beyond
<1>3. size \in Nat
  BY <1>1, <1>2
<1> HIDE DEF size
<1>4. length \in Nat \ {0}
  BY <1>1, <1>2, <1>3
<1>5. Min({size - q.offset, ChunkBytes}) = length
  BY <1>1, <1>3, MinPair
<1> HIDE DEF length
<1>6. Body(q) = [i \in 1..length |-> <<q.rev, q.index, q.offset + i>>]
  BY <1>5 DEF Body, size
<1>7. \A i \in 1..length : <<q.rev, q.index, q.offset + i>> \in Byte
  BY <1>1, <1>4 DEF Byte
<1>8. Body(q) \in Seq(Byte) /\ Len(Body(q)) = length
  BY <1>4, <1>6, <1>7
<1> QED
  BY <1>3, <1>4, <1>6, <1>8 DEF size, length

\* The session of a client that has the page list.
Opened(key, list) ==
  [Closed EXCEPT !.at = "reading", !.key = key, !.list = list, !.joined = <<<<>>>>]

\* It is a session, with one page that has no bytes yet.
LEMMA OpenedFields ==
  ASSUME NEW key \in Key, NEW list \in Seq(Nat)
  PROVE  LET s == Opened(key, list) IN
         /\ s \in Session /\ s.at = "reading" /\ s.key = key /\ s.list = list
         /\ s.joined = <<<<>>>>
<1>1. PICK s : s = Opened(key, list)
  OBVIOUS
<1>2. <<<<>>>> \in Seq(Seq(Byte))
  OBVIOUS
<1>3. s \in Session
  <2>1. s = [at |-> "reading", key |-> key, list |-> list, joined |-> <<<<>>>>, polls |-> 0]
    BY <1>1 DEF Opened, Closed
  <2>2. 0 \in 0..MaxPolls
    BY BoundsAssumption
  <2> QED
    BY <1>2, <2>1, <2>2 DEF Session
<1>4. s.at = "reading" /\ s.key = key /\ s.list = list /\ s.joined = <<<<>>>>
  BY <1>1 DEF Opened, Closed
<1> QED
  BY <1>1, <1>3, <1>4

\* A chapter that nothing has been read of is a beginning of itself.
LEMMA NothingJoined ==
  ASSUME NEW rev, NEW key, PagesOf(rev, key), NEW s,
         s.at = "reading", s.key = key, s.list = PageSizes[rev], s.joined = <<<<>>>>
  PROVE  JoinedFrom(s, rev)
<1>1. PageSizes[rev] \in Seq(Nat) /\ PageSizes[rev] # <<>>
      /\ \A i \in DOMAIN PageSizes[rev] : PageSizes[rev][i] > 0
  BY RevisionAssumption DEF PagesOf, Readable
<1>2. Len(PageSizes[rev]) \in Nat \ {0} /\ PageSizes[rev][1] > 0
  BY <1>1
<1>3. Len(s.joined) = 1 /\ s.joined # <<>> /\ Len(s.joined[1]) = 0
  OBVIOUS
<1>4. 0 = 0 * ChunkBytes /\ 0 \in 0..0
  BY BoundsAssumption
<1>5. \E n \in 0..Len(s.joined[Len(s.joined)]) :
        Len(s.joined[Len(s.joined)]) = n * ChunkBytes
  BY <1>3, <1>4
<1>6. \A p \in 1..Len(s.joined) :
        /\ p < Len(s.joined) \/ s.at = "complete" => Len(s.joined[p]) = s.list[p]
        /\ Validated(s.key) => \A i \in 1..Len(s.joined[p]) : s.joined[p][i] = <<rev, p - 1, i>>
  BY <1>3
<1> QED
  BY <1>2, <1>3, <1>5, <1>6 DEF JoinedFrom

\* The page list, an answer that makes the client ask again, and the end.
LEMMA Resuming ==
  ASSUME IInv, NEW r \in Reader,
         ReceiveList(r) \/ ReceivePreparing(r) \/ StartOver(r) \/ Finish(r)
  PROVE  IInv'
<1>1. /\ session[r] \in Session /\ req[r] \in Request /\ seen[r] \in Seen /\ Fits(req[r])
      /\ SessionFits(session[r], req[r]) /\ Witnessed(req[r], access[r], source, seen[r])
      /\ session \in [Reader -> Session]
  BY ReaderNow, Types DEF IInv
<1>2. CASE ReceiveList(r)
  <2> DEFINE s == Opened(req[r].head, PageSizes[req[r].rev])
  <2>1. session' = [session EXCEPT ![r] = s] /\ Receive(r)
    BY <1>2 DEF ReceiveList, Opened
  <2>2. PagesOf(req[r].rev, req[r].head)
    BY <1>1, <1>2 DEF ReceiveList, Fits
  <2>3. req[r].head \in Key /\ PageSizes[req[r].rev] \in Seq(Nat)
    BY <2>2, Keys, RevisionAssumption DEF PagesOf
  <2>4. /\ s \in Session /\ s.at = "reading" /\ s.key = req[r].head
        /\ s.list = PageSizes[req[r].rev] /\ s.joined = <<<<>>>>
    BY <2>3, OpenedFields
  <2> HIDE DEF s
  <2>5. JoinedFrom(s, req[r].rev) /\ req[r].rev \in Revision
    BY <2>2, <2>4, NothingJoined DEF PagesOf
  <2> QED
    BY <2>1, <2>4, <2>5, Receiving
<1>3. CASE ReceivePreparing(r) /\ session[r].polls < MaxPolls
  <2> DEFINE s == [session[r] EXCEPT !.polls = @ + 1]
  <2>1. s \in Session /\ s.at = "preparing"
    <3>1. session[r].polls + 1 \in 0..MaxPolls /\ session[r].at = "preparing"
      BY <1>1, <1>3, BoundsAssumption DEF ReceivePreparing, Session
    <3> QED
      BY <1>1, <3>1 DEF Session
  <2>2. session' = [session EXCEPT ![r] = s] /\ Receive(r)
    BY <1>3 DEF ReceivePreparing
  <2> HIDE DEF s
  <2> QED
    BY <2>1, <2>2, Receiving
<1>4. ASSUME session' = [session EXCEPT ![r] = Closed], Receive(r) PROVE IInv'
  <2>1. Closed \in Session /\ Closed.at = "closed"
    BY IdleFits DEF Closed
  <2> QED
    BY <1>4, <2>1, Receiving
<1>5. CASE ReceivePreparing(r) /\ ~(session[r].polls < MaxPolls)
  BY <1>4, <1>5 DEF ReceivePreparing
<1>6. CASE StartOver(r)
  BY <1>4, <1>6 DEF StartOver
<1>7. CASE Finish(r)
  <2>1. CacheTyped' /\ ContentsFit' /\ job' \in JobType /\ JobFits'
    BY <1>7, CacheUnmoved DEF Finish
  <2>2. req' = [req EXCEPT ![r] = req[r]] /\ seen' = [seen EXCEPT ![r] = seen[r]]
    BY <1>7, Types DEF Finish, IInv
  <2> QED
    BY <1>1, <1>7, <2>1, <2>2, IdleFits, OneReader DEF Finish
<1> QED
  BY <1>2, <1>3, <1>5, <1>6, <1>7

\* The page in hand with an answered chunk at its end: its size is not exceeded,
\* its length is a multiple of the chunk unless it is complete, and its bytes are
\* still those of the revision.
LEMMA LongerPage ==
  ASSUME NEW s \in Session, NEW rev, JoinedFrom(s, rev), s.at = "reading",
         NEW q \in Request, q.rev \in Revision, ~Beyond(q), q.index = Len(s.joined) - 1,
         q.offset = Len(s.joined[Len(s.joined)]),
         Validated(s.key) => q.rev = rev, Expected(s, Body(q))
  PROVE  LET n == Len(s.joined)
             page == s.joined[n] \o Body(q)
         IN  /\ n \in 1..Len(s.list) /\ page \in Seq(Byte) /\ s.list[n] \in Nat
             /\ Len(page) <= s.list[n]
             /\ Len(page) < s.list[n] => \E m \in 0..Len(page) : Len(page) = m * ChunkBytes
             /\ Validated(s.key) => \A i \in 1..Len(page) : page[i] = <<rev, n - 1, i>>
<1> DEFINE n == Len(s.joined)
           before == s.joined[n]
           body == Body(q)
           page == before \o body
           size == s.list[n]
<1>1. /\ s.joined \in Seq(Seq(Byte)) /\ s.list \in Seq(Nat) /\ ChunkBytes \in Nat \ {0}
      /\ q.offset \in Nat /\ q.index \in Nat
  BY BoundsAssumption DEF Session, Request
<1>2. n \in 1..Len(s.list)
  BY <1>1 DEF JoinedFrom
<1>3. before \in Seq(Byte) /\ size \in Nat /\ Len(before) \in Nat
  BY <1>1, <1>2
<1>4. Len(before) < size /\ \E m \in 0..Len(before) : Len(before) = m * ChunkBytes
  BY DEF JoinedFrom
<1>5. ASSUME Validated(s.key) PROVE \A i \in 1..Len(before) : before[i] = <<rev, n - 1, i>>
  <2>1. \A p \in 1..n : \A i \in 1..Len(s.joined[p]) : s.joined[p][i] = <<rev, p - 1, i>>
    BY <1>5 DEF JoinedFrom
  <2>2. n \in 1..n
    BY <1>2
  <2> QED
    BY <2>1, <2>2
<1>6. body \in Seq(Byte) /\ Len(body) \in Nat
      /\ \A i \in 1..Len(body) : body[i] = <<q.rev, q.index, q.offset + i>>
  <2>1. /\ body \in Seq(Byte)
        /\ \A i \in 1..Len(body) : body[i] = <<q.rev, q.index, q.offset + i>>
    BY ChunkBody, Zenon
  <2> QED
    BY <2>1
<1>7. Len(body) = Min({ChunkBytes, size - Len(before)})
  BY DEF Expected, PageInHand
<1>8. q.index = n - 1 /\ q.offset = Len(before)
  OBVIOUS
<1> HIDE DEF n, before, body, size
<1>9. Len(body) = IF ChunkBytes <= size - Len(before) THEN ChunkBytes ELSE size - Len(before)
  <2>1. ChunkBytes \in Int /\ size - Len(before) \in Int
    BY <1>1, <1>3
  <2> QED
    BY <1>7, <2>1, MinPair
<1>10. page \in Seq(Byte) /\ Len(page) = Len(before) + Len(body)
  BY <1>3, <1>6, ConcatProperties, Zenon
<1> HIDE DEF page
<1>11. Len(page) <= size
  BY <1>1, <1>3, <1>4, <1>9, <1>10
<1>12. ASSUME Len(page) < size PROVE \E m \in 0..Len(page) : Len(page) = m * ChunkBytes
  <2>1. PICK m \in 0..Len(before) : Len(before) = m * ChunkBytes
    BY <1>4
  <2>2. Len(page) = Len(before) + ChunkBytes
    BY <1>1, <1>3, <1>9, <1>10, <1>12
  <2>3. m \in Nat /\ m + 1 \in 0..Len(page)
    <3>1. m \in Nat /\ m <= Len(before)
      BY <1>3
    <3>2. m + 1 <= Len(before) + ChunkBytes
      BY <1>1, <1>3, <3>1
    <3> QED
      BY <1>1, <1>3, <2>2, <3>1, <3>2
  <2>4. (m + 1) * ChunkBytes = m * ChunkBytes + ChunkBytes
    BY <1>1, <2>3, SMTT(20)
  <2> QED
    BY <2>1, <2>2, <2>3, <2>4
<1>13. ASSUME Validated(s.key), NEW i \in 1..Len(page) PROVE page[i] = <<rev, n - 1, i>>
  <2>1. CASE i <= Len(before)
    <3>1. page[i] = before[i]
      BY <1>3, <1>6, <1>10, <1>13, <2>1, ConcatProperties DEF page
    <3> QED
      BY <1>3, <1>5, <1>13, <2>1, <3>1
  <2>2. CASE i > Len(before)
    <3>1. i - Len(before) \in 1..Len(body)
      BY <1>3, <1>6, <1>10, <1>13, <2>2
    <3>2. page[i] = body[i - Len(before)]
      BY <1>3, <1>6, <1>10, <1>13, <2>2, <3>1, ConcatProperties DEF page
    <3>3. Len(before) + (i - Len(before)) = i
      BY <1>3, <1>13
    <3> QED
      BY <1>6, <1>8, <1>13, <3>1, <3>2, <3>3
  <2> QED
    BY <1>3, <1>10, <1>13, <2>1, <2>2
<1> QED
  BY <1>2, <1>3, <1>10, <1>11, <1>12, <1>13 DEF n, before, body, size, page

\* A page in a list of pages with their sizes: whole or not, its bytes are those of
\* the revision if the key can tell revisions apart.
PageRight(page, p, s, rev, whole) ==
  /\ whole => Len(page) = s.list[p]
  /\ Validated(s.key) => \A i \in 1..Len(page) : page[i] = <<rev, p - 1, i>>

\* No page of a chapter that can be read is empty.
LEMMA NoEmptyPage ==
  ASSUME NEW rev, NEW key, PagesOf(rev, key)
  PROVE  /\ PageSizes[rev] \in Seq(Nat)
         /\ \A p \in 1..Len(PageSizes[rev]) : PageSizes[rev][p] \in Nat \ {0}
<1>1. PageSizes[rev] \in Seq(Nat)
  BY RevisionAssumption DEF PagesOf
<1>2. DOMAIN PageSizes[rev] = 1..Len(PageSizes[rev])
  BY <1>1
<1>3. \A p \in 1..Len(PageSizes[rev]) : PageSizes[rev][p] \in Nat
  BY <1>1
<1>4. \A p \in 1..Len(PageSizes[rev]) : PageSizes[rev][p] > 0
  BY <1>2 DEF PagesOf, Readable
<1> QED
  BY <1>1, <1>3, <1>4

\* The pages with another one in hand.
WithPage(s, page) == [s.joined EXCEPT ![Len(s.joined)] = page]

\* They are right if that one is.
LEMMA PagesJoined ==
  ASSUME NEW s \in Session, NEW rev, JoinedFrom(s, rev), s.at = "reading",
         NEW page \in Seq(Byte), PageRight(page, Len(s.joined), s, rev, FALSE)
  PROVE  LET n == Len(s.joined) IN
         /\ n \in Nat \ {0} /\ n <= Len(s.list) /\ Len(s.list) \in Nat
         /\ WithPage(s, page) \in Seq(Seq(Byte)) /\ Len(WithPage(s, page)) = n
         /\ WithPage(s, page)[n] = page
         /\ \A p \in 1..n : PageRight(WithPage(s, page)[p], p, s, rev,
                                      p < n \/ Len(page) = s.list[n])
<1> DEFINE n == Len(s.joined)
           joined == WithPage(s, page)
<1>1. s.joined \in Seq(Seq(Byte)) /\ s.list \in Seq(Nat)
  BY DEF Session
<1>2. n \in Nat \ {0} /\ n <= Len(s.list) /\ Len(s.list) \in Nat /\ n \in 1..Len(s.joined)
  BY <1>1 DEF JoinedFrom
<1>3. /\ joined \in Seq(Seq(Byte)) /\ Len(joined) = n /\ joined[n] = page
      /\ \A p \in 1..n : p # n => joined[p] = s.joined[p]
  BY <1>1, <1>2, ExceptSeq DEF WithPage
<1>4. \A p \in 1..n : PageRight(s.joined[p], p, s, rev, p < n)
  BY DEF JoinedFrom, PageRight
<1>5. ASSUME NEW p \in 1..n
      PROVE  PageRight(joined[p], p, s, rev, p < n \/ Len(page) = s.list[n])
  <2>1. CASE p = n
    BY <1>2, <1>3, <2>1 DEF PageRight
  <2>2. CASE p # n
    <3>1. p < n /\ joined[p] = s.joined[p]
      BY <1>2, <1>3, <1>5, <2>2
    <3> QED
      BY <1>4, <1>5, <3>1 DEF PageRight
  <2> QED
    BY <2>1, <2>2
<1> QED
  BY <1>2, <1>3, <1>5

\* The page is not complete: its length is a multiple of the chunk.
LEMMA PageGoesOn ==
  ASSUME NEW s, NEW rev, PagesOf(rev, s.key), s.list = PageSizes[rev],
         NEW n \in Nat \ {0}, n <= Len(s.list),
         NEW t, t.at = "reading", t.key = s.key, t.list = s.list,
         t.joined \in Seq(Seq(Byte)), Len(t.joined) = n,
         \A p \in 1..n : PageRight(t.joined[p], p, s, rev, p < n),
         Len(t.joined[n]) < s.list[n],
         \E m \in 0..Len(t.joined[n]) : Len(t.joined[n]) = m * ChunkBytes
  PROVE  JoinedFrom(t, rev)
<1>1. t.joined # <<>>
  BY EmptySeq
<1>2. \A p \in 1..Len(t.joined) :
        /\ p < Len(t.joined) \/ t.at = "complete" => Len(t.joined[p]) = t.list[p]
        /\ Validated(t.key) => \A i \in 1..Len(t.joined[p]) : t.joined[p][i] = <<rev, p - 1, i>>
  BY DEF PageRight
<1> QED
  BY <1>1, <1>2 DEF JoinedFrom

\* All pages are complete.
LEMMA ChapterEnds ==
  ASSUME NEW s, NEW rev, PagesOf(rev, s.key), s.list = PageSizes[rev],
         NEW n \in Nat \ {0}, n = Len(s.list),
         NEW t, t.at = "complete", t.key = s.key, t.list = s.list,
         t.joined \in Seq(Seq(Byte)), Len(t.joined) = n,
         \A p \in 1..n : PageRight(t.joined[p], p, s, rev, TRUE)
  PROVE  JoinedFrom(t, rev)
<1>1. t.joined # <<>>
  BY EmptySeq
<1>2. \A p \in 1..Len(t.joined) :
        /\ p < Len(t.joined) \/ t.at = "complete" => Len(t.joined[p]) = t.list[p]
        /\ Validated(t.key) => \A i \in 1..Len(t.joined[p]) : t.joined[p][i] = <<rev, p - 1, i>>
  BY DEF PageRight
<1> QED
  BY <1>1, <1>2 DEF JoinedFrom

\* The next page begins.
LEMMA PageTurns ==
  ASSUME NEW s, NEW rev, PagesOf(rev, s.key), s.list = PageSizes[rev],
         NEW n \in Nat \ {0}, n < Len(s.list),
         NEW joined \in Seq(Seq(Byte)), Len(joined) = n,
         \A p \in 1..n : PageRight(joined[p], p, s, rev, TRUE),
         NEW t, t.at = "reading", t.key = s.key, t.list = s.list, t.joined = Append(joined, <<>>)
  PROVE  t.joined \in Seq(Seq(Byte)) /\ JoinedFrom(t, rev)
<1>1. /\ t.joined \in Seq(Seq(Byte)) /\ Len(t.joined) = n + 1 /\ t.joined[n + 1] = <<>>
      /\ \A p \in 1..n : t.joined[p] = joined[p]
  <2>1. <<>> \in Seq(Byte)
    OBVIOUS
  <2> QED
    BY <2>1, AppendProperties
<1>2. n + 1 \in Nat \ {0} /\ n + 1 <= Len(s.list) /\ n + 1 \in 1..Len(s.list)
  BY NoEmptyPage
<1>3. s.list[n + 1] \in Nat \ {0}
  BY <1>2, NoEmptyPage
<1>4. Len(t.joined[n + 1]) = 0 /\ Len(t.joined[n + 1]) < s.list[n + 1]
  BY <1>1, <1>3
<1>5. \E m \in 0..Len(t.joined[n + 1]) : Len(t.joined[n + 1]) = m * ChunkBytes
  <2>1. 0 \in 0..0 /\ 0 = 0 * ChunkBytes
    BY BoundsAssumption
  <2> QED
    BY <1>4, <2>1
<1>6. ASSUME NEW p \in 1..(n + 1) PROVE PageRight(t.joined[p], p, s, rev, p < n + 1)
  <2>1. CASE p = n + 1
    BY <1>4, <2>1 DEF PageRight
  <2>2. CASE p # n + 1
    <3>1. p \in 1..n
      BY <1>6, <2>2
    <3> QED
      BY <1>1, <3>1 DEF PageRight
  <2> QED
    BY <2>1, <2>2
<1> QED
  BY <1>1, <1>2, <1>4, <1>5, <1>6, PageGoesOn

\* The session after a chunk.
Grown(s, page) ==
  LET n == Len(s.joined)
      whole == Len(page) = s.list[n]
  IN  [s EXCEPT !.joined = IF whole /\ n < Len(s.list) THEN Append(WithPage(s, page), <<>>)
                           ELSE WithPage(s, page),
                !.at = IF whole /\ n = Len(s.list) THEN "complete" ELSE "reading"]

\* It is a session that is still a beginning of the chapter.
LEMMA ChunkJoined ==
  ASSUME NEW s \in Session, NEW rev, JoinedFrom(s, rev), s.at = "reading",
         NEW page \in Seq(Byte), s.list[Len(s.joined)] \in Nat,
         Len(page) <= s.list[Len(s.joined)],
         Len(page) < s.list[Len(s.joined)] =>
           \E m \in 0..Len(page) : Len(page) = m * ChunkBytes,
         PageRight(page, Len(s.joined), s, rev, FALSE)
  PROVE  Grown(s, page) \in Session /\ JoinedFrom(Grown(s, page), rev)
<1> DEFINE n == Len(s.joined)
           whole == Len(page) = s.list[n]
           joined == WithPage(s, page)
           J == IF whole /\ n < Len(s.list) THEN Append(joined, <<>>) ELSE joined
           A == IF whole /\ n = Len(s.list) THEN "complete" ELSE "reading"
<1>1. /\ n \in Nat \ {0} /\ n <= Len(s.list) /\ Len(s.list) \in Nat
      /\ joined \in Seq(Seq(Byte)) /\ Len(joined) = n /\ joined[n] = page
      /\ \A p \in 1..n : PageRight(joined[p], p, s, rev, p < n \/ whole)
  BY PagesJoined
<1>2. PagesOf(rev, s.key) /\ s.list = PageSizes[rev]
  BY DEF JoinedFrom
<1>3. PICK t : t = [s EXCEPT !.joined = J, !.at = A]
  OBVIOUS
<1>4. t = Grown(s, page)
  BY <1>3 DEF Grown
<1>5. A \in {"reading", "complete"}
  OBVIOUS
<1>6. t.key = s.key /\ t.list = s.list /\ t.joined = J /\ t.at = A
  <2> HIDE DEF J, A
  <2> QED
    BY <1>3 DEF Session
<1>7. J \in Seq(Seq(Byte)) => t \in Session
  <2> HIDE DEF J, A
  <2> QED
    BY <1>3, <1>5 DEF Session
<1> HIDE DEF n, whole, joined
<1>8. CASE ~whole
  <2>1. t.joined = joined /\ t.at = "reading" /\ J = joined
    BY <1>6, <1>8
  <2>2. Len(page) < s.list[n]
    <3>1. Len(page) \in Nat
      BY LenProperties
    <3> QED
      BY <1>8, <3>1 DEF whole, n
  <2>3. \A p \in 1..n : PageRight(t.joined[p], p, s, rev, p < n)
    BY <1>1, <1>8, <2>1
  <2>4. \E m \in 0..Len(t.joined[n]) : Len(t.joined[n]) = m * ChunkBytes
    BY <1>1, <2>1, <2>2 DEF n
  <2>5. JoinedFrom(t, rev)
    BY <1>1, <1>2, <1>6, <2>1, <2>2, <2>3, <2>4, PageGoesOn
  <2> QED
    BY <1>1, <1>4, <1>7, <2>1, <2>5
<1>9. CASE whole /\ n = Len(s.list)
  <2>1. t.joined = joined /\ t.at = "complete" /\ J = joined
    BY <1>1, <1>6, <1>9
  <2>2. \A p \in 1..n : PageRight(t.joined[p], p, s, rev, TRUE)
    BY <1>1, <1>9, <2>1
  <2>3. JoinedFrom(t, rev)
    BY <1>1, <1>2, <1>6, <1>9, <2>1, <2>2, ChapterEnds
  <2> QED
    BY <1>1, <1>4, <1>7, <2>1, <2>3
<1>10. CASE whole /\ n < Len(s.list)
  <2>1. t.joined = Append(joined, <<>>) /\ t.at = "reading" /\ J = t.joined
    BY <1>1, <1>6, <1>10
  <2>2. \A p \in 1..n : PageRight(joined[p], p, s, rev, TRUE)
    BY <1>1, <1>10
  <2>3. t.joined \in Seq(Seq(Byte)) /\ JoinedFrom(t, rev)
    BY <1>1, <1>2, <1>6, <1>10, <2>1, <2>2, PageTurns
  <2> QED
    BY <1>4, <1>7, <2>1, <2>3
<1> QED
  BY <1>1, <1>8, <1>9, <1>10

\* A chunk of the right length is joined to the page in hand.
LEMMA Joining ==
  ASSUME IInv, NEW r \in Reader, ReceiveChunk(r)
  PROVE  IInv'
<1> DEFINE s == session[r]
           q == req[r]
           n == Len(s.joined)
           page == s.joined[n] \o Body(q)
<1>1. /\ s \in Session /\ q \in Request /\ Fits(q) /\ SessionFits(s, q)
      /\ session \in [Reader -> Session]
  BY ReaderNow, Types DEF IInv
<1>2. s.at = "reading" /\ q.status = "ok" /\ Expected(s, Body(q)) /\ Receive(r)
  BY DEF ReceiveChunk
<1>3. PICK rev \in Revision : JoinedFrom(s, rev)
  BY <1>1, <1>2 DEF SessionFits
<1>4. q.at # "idle"
  BY <1>1, <1>2 DEF Fits
<1>5. /\ q.kind = "page" /\ q.key = s.key /\ q.index = n - 1 /\ q.offset = Len(s.joined[n])
  BY <1>1, <1>2, <1>4 DEF SessionFits, Asks
<1>6. s.key # NoKey
  BY <1>3, Keys, NobodyAssumption DEF JoinedFrom, PagesOf
<1>7. PagesOf(q.rev, s.key) /\ ~Beyond(q)
  BY <1>1, <1>2, <1>5, <1>6 DEF Fits
<1>8. q.rev \in Revision /\ (Validated(s.key) => q.rev = rev)
  BY <1>3, <1>7, OneRevision DEF JoinedFrom, PagesOf
<1>9. /\ n \in 1..Len(s.list) /\ page \in Seq(Byte) /\ s.list[n] \in Nat /\ Len(page) <= s.list[n]
      /\ Len(page) < s.list[n] => \E m \in 0..Len(page) : Len(page) = m * ChunkBytes
      /\ Validated(s.key) => \A i \in 1..Len(page) : page[i] = <<rev, n - 1, i>>
  BY <1>1, <1>2, <1>3, <1>5, <1>7, <1>8, LongerPage
<1>10. PageRight(page, n, s, rev, FALSE)
  BY <1>9 DEF PageRight
<1>11. WithPage(s, page)[n] = page
  BY <1>1, <1>2, <1>3, <1>9, <1>10, PagesJoined
<1>12. session' = [session EXCEPT ![r] = Grown(s, page)]
  <2>1. session' = LET p == PageInHand(s)
                       j == [s.joined EXCEPT ![p] = @ \o Body(q)]
                       complete == Len(j[p]) = s.list[p]
                   IN  [session EXCEPT
                         ![r].joined = IF complete /\ p < Len(s.list) THEN Append(j, <<>>) ELSE j,
                         ![r].at = IF complete /\ p = Len(s.list) THEN "complete" ELSE "reading"]
    BY DEF ReceiveChunk
  <2>2. [s.joined EXCEPT ![n] = @ \o Body(q)] = WithPage(s, page)
    BY DEF WithPage
  <2> DEFINE J == IF Len(page) = s.list[n] /\ n < Len(s.list) THEN Append(WithPage(s, page), <<>>)
                  ELSE WithPage(s, page)
             A == IF Len(page) = s.list[n] /\ n = Len(s.list) THEN "complete" ELSE "reading"
  <2>3. session' = [session EXCEPT ![r].joined = J, ![r].at = A]
    BY <1>11, <2>1, <2>2 DEF PageInHand
  <2>4. Grown(s, page) = [s EXCEPT !.joined = J, !.at = A]
    BY DEF Grown
  <2> HIDE DEF J, A
  <2> QED
    BY <1>1, <2>3, <2>4
<1>13. Grown(s, page) \in Session /\ JoinedFrom(Grown(s, page), rev)
  <2> HIDE DEF page
  <2> QED
    BY <1>1, <1>2, <1>3, <1>9, <1>10, ChunkJoined
<1> HIDE DEF page
<1> QED
  BY <1>2, <1>3, <1>12, <1>13, Receiving

-----------------------------------------------------------------------------
(* The job, and what happens around.                                       *)

\* A request that waits gets an answer, or looks the chapter up again.
LEMMA Woken ==
  ASSUME IInv, NEW r \in Reader, req[r].at = "waiting", NEW w,
         \/ w = [req[r] EXCEPT !.at = "again"]
         \/ \E status \in {"refused", "conflict", "too_large", "invalid", "unavailable"} :
              w = [Idle EXCEPT !.at = "answered", !.status = status]
  PROVE  /\ w \in Request /\ Witnessed(w, access[r], source, seen[r]) /\ Fits(w)
         /\ SessionFits(session[r], w)
<1>1. /\ req[r] \in Request /\ Fits(req[r]) /\ SessionFits(session[r], req[r])
      /\ Witnessed(req[r], access[r], source, seen[r])
  BY ReaderNow
<1>2. req[r].kind = "pages" /\ req[r].status = "none" /\ req[r].at \in Looked
  BY <1>1 DEF Fits, Looked, Request
<1>3. session[r].at \notin {"reading", "complete"}
  BY <1>1, <1>2 DEF SessionFits, Asks
<1>4. CASE w = [req[r] EXCEPT !.at = "again"]
  <2>1. /\ w \in Request /\ w.at = "again" /\ w.kind = "pages" /\ w.key = req[r].key
        /\ w.status = "none" /\ w.head = req[r].head
    BY <1>1, <1>2, <1>4 DEF Request
  <2>2. Fits(w)
    BY <2>1 DEF Fits
  <2>3. Witnessed(w, access[r], source, seen[r])
    BY <1>1, <1>2, <2>1 DEF Witnessed, Looked
  <2>4. SessionFits(session[r], w)
    BY <1>1, <1>2, <1>3, <2>1 DEF SessionFits, Asks
  <2> QED
    BY <2>1, <2>2, <2>3, <2>4
<1>5. ASSUME NEW status \in {"refused", "conflict", "too_large", "invalid", "unavailable"},
             w = [Idle EXCEPT !.at = "answered", !.status = status]
      PROVE  /\ w \in Request /\ Witnessed(w, access[r], source, seen[r]) /\ Fits(w)
             /\ SessionFits(session[r], w)
  <2>1. /\ w \in Request /\ w.at = "answered" /\ w.kind = "pages" /\ w.key = NoKey
        /\ w.status = status
    BY <1>5 DEF Idle, Request
  <2>2. Fits(w)
    BY <2>1 DEF Fits
  <2>3. Witnessed(w, access[r], source, seen[r])
    BY <1>1, <1>2, <2>1 DEF Witnessed, Looked
  <2>4. SessionFits(session[r], w)
    BY <1>3, <2>1 DEF SessionFits, Asks
  <2> QED
    BY <2>1, <2>2, <2>3, <2>4
<1> QED
  BY <1>4, <1>5

\* The end of the job.
LEMMA Ending ==
  ASSUME IInv,
         NEW status \in {"none", "refused", "conflict", "too_large", "invalid", "unavailable"},
         End(status), CacheTyped', ContentsFit'
  PROVE  IInv'
<1>1. TypeOK /\ RequestsWitnessed /\ RequestsFit /\ SessionsFit
  BY DEF IInv
<1>2. /\ source \in Revision /\ access \in [Reader -> SUBSET Grant] /\ req \in [Reader -> Request]
      /\ session \in [Reader -> Session] /\ seen \in [Reader -> Seen]
  BY <1>1, Types
<1>3. source' = source /\ access' = access /\ session' = session /\ seen' = seen /\ job' = NoJob
  BY DEF End, siloVars
<1>4. job' \in JobType /\ JobFits'
  BY <1>3 DEF NoJob, JobType, JobFits
<1>5. ASSUME NEW r \in Reader
      PROVE  /\ req'[r] \in Request /\ Witnessed(req'[r], access[r], source, seen[r])
             /\ Fits(req'[r]) /\ SessionFits(session[r], req'[r])
  <2>1. CASE req[r].at # "waiting"
    BY <2>1, ReaderNow DEF End
  <2>2. CASE req[r].at = "waiting"
    <3>1. PICK w : w = req'[r]
      OBVIOUS
    <3>2. CASE status = "none"
      BY <2>2, <3>1, <3>2, Woken DEF End
    <3>3. CASE status # "none"
      <4>1. w = [Idle EXCEPT !.at = "answered", !.status = status]
        BY <2>2, <3>1, <3>3 DEF End
      <4> QED
        BY <2>2, <3>1, <3>3, <4>1, Woken
    <3> QED
      BY <3>2, <3>3
  <2> QED
    BY <2>1, <2>2
<1>6. req' \in [Reader -> Request]
  <2>1. req' = [r \in Reader |-> req'[r]]
    BY DEF End
  <2> QED
    BY <1>5, <2>1
<1>7. TypeOK'
  BY <1>2, <1>3, <1>4, <1>6, TypesNext
<1>8. RequestsWitnessed' /\ RequestsFit' /\ SessionsFit'
  BY <1>3, <1>5 DEF RequestsWitnessed, RequestsFit, SessionsFit
<1> QED
  BY <1>4, <1>7, <1>8 DEF IInv

\* The chapter is published with the pages of the revision that was downloaded.
LEMMA Committed ==
  ASSUME IInv, Commit
  PROVE  CacheTyped' /\ ContentsFit'
<1>1. CacheTyped /\ ContentsFit /\ JobFits /\ job \in JobType
  BY Types DEF IInv
<1>2. /\ job.key \in Key /\ PagesOf(job.rev, job.key) /\ job.rev \in Revision
  BY <1>1 DEF Commit, JobFits, PagesOf
<1>3. /\ stock' = [stock EXCEPT ![job.key] = "shelved"] /\ held' = held
      /\ contents' = [contents EXCEPT ![job.key] = job.rev]
  BY DEF Commit, Cache!Publish
<1>4. CacheTyped'
  BY <1>1, <1>2, <1>3 DEF CacheTyped
<1>5. ASSUME NEW k \in Key, stock'[k] = "shelved" PROVE PagesOf(contents'[k], k)
  <2>1. CASE k = job.key
    BY <1>1, <1>2, <1>3, <2>1 DEF CacheTyped
  <2>2. CASE k # job.key
    BY <1>1, <1>3, <1>5, <2>2 DEF CacheTyped, ContentsFit
  <2> QED
    BY <2>1, <2>2
<1> QED
  BY <1>4, <1>5 DEF ContentsFit

\* A step that leaves every request and session alone.
LEMMA NobodyMoves ==
  ASSUME IInv, UNCHANGED <<siloVars, req, session, seen>>,
         CacheTyped', ContentsFit', job' \in JobType, JobFits'
  PROVE  IInv'
<1>1. TypeOK /\ RequestsWitnessed /\ RequestsFit /\ SessionsFit
  BY DEF IInv
<1>2. /\ source' = source /\ access' = access /\ req' = req /\ session' = session /\ seen' = seen
  BY DEF siloVars
<1>3. TypeOK'
  BY <1>1, <1>2, Types, TypesNext
<1>4. RequestsWitnessed' /\ RequestsFit' /\ SessionsFit'
  BY <1>1, <1>2 DEF RequestsWitnessed, RequestsFit, SessionsFit
<1> QED
  BY <1>3, <1>4 DEF IInv

\* The steps of the job.
LEMMA Working ==
  ASSUME IInv, JobStep
  PROVE  IInv'
<1>1. CacheTyped /\ ContentsFit /\ JobFits /\ job \in JobType /\ source \in Revision
  BY Types DEF IInv
<1>2. UNCHANGED cacheVars => CacheTyped' /\ ContentsFit'
  BY <1>1 DEF cacheVars, CacheTyped, ContentsFit
<1>3. CASE Download
  <2>1. /\ job' = [job EXCEPT !.at = "extract", !.rev = source, !.owner = NoReader]
        /\ CacheKey(source) = job.key /\ UNCHANGED <<siloVars, req, session, seen>>
        /\ UNCHANGED cacheVars
    BY <1>3 DEF Download, Unchanged
  <2>2. job' \in JobType /\ JobFits'
    BY <1>1, <2>1, Keys DEF JobType, JobFits
  <2> QED
    BY <1>2, <2>1, <2>2, NobodyMoves
<1>4. CASE SourceChanged
  <2>1. PICK status \in {"too_large", "conflict"} : End(status)
    BY <1>4 DEF SourceChanged
  <2> QED
    BY <1>2, <1>4, <2>1, Ending DEF SourceChanged
<1>5. CASE DownloadFails
  <2>1. PICK status \in {"refused", "conflict", "unavailable"} : End(status)
    BY <1>5 DEF DownloadFails
  <2> QED
    BY <1>2, <1>5, <2>1, Ending DEF DownloadFails
<1>6. CASE Commit
  <2>1. CacheTyped' /\ ContentsFit'
    BY <1>6, Committed
  <2> QED
    BY <1>6, <2>1, Ending DEF Commit
<1>7. CASE ExtractFails
  <2>1. CacheTyped' /\ ContentsFit'
    BY <1>2, <1>7, Discarding DEF ExtractFails
  <2>2. PICK status \in {"too_large", "invalid", "unavailable"} : End(status)
    BY <1>7 DEF ExtractFails
  <2> QED
    BY <2>1, <2>2, Ending
<1> QED
  BY <1>3, <1>4, <1>5, <1>6, <1>7 DEF JobStep

\* Silo changes what it grants or serves, and requests in progress witness it.
LEMMA SiloMoves ==
  ASSUME IInv, source' \in Revision, access' \in [Reader -> SUBSET Grant], Witness,
         UNCHANGED <<cacheVars, job, req, session>>
  PROVE  IInv'
<1>1. TypeOK /\ RequestsWitnessed /\ RequestsFit /\ SessionsFit
  BY DEF IInv
<1>2. /\ req \in [Reader -> Request] /\ session \in [Reader -> Session]
  BY <1>1, Types
<1>3. req' = req /\ session' = session
  OBVIOUS
<1>4. CacheTyped' /\ ContentsFit' /\ job' \in JobType /\ JobFits'
  BY CacheUnmoved
<1>5. ASSUME NEW r \in Reader
      PROVE  seen'[r] \in Seen /\ Witnessed(req[r], access'[r], source', seen'[r])
  <2>1. /\ req[r] \in Request /\ Fits(req[r]) /\ seen[r] \in Seen
        /\ Witnessed(req[r], access[r], source, seen[r])
    BY ReaderNow
  <2>2. CASE req[r].at = "idle"
    <3>1. seen'[r] = Unseen
      BY <2>2 DEF Witness
    <3>2. req[r].at \notin Looked /\ req[r].status # "ok"
      BY <2>1, <2>2 DEF Fits, Looked
    <3> QED
      BY <2>2, <3>1, <3>2, IdleFits DEF Witnessed
  <2>3. CASE req[r].at # "idle"
    <3> DEFINE n == [grants |-> seen[r].grants \cup access'[r],
                     sources |-> seen[r].sources \cup {source'}]
    <3>1. seen'[r] = n
      BY <2>3 DEF Witness
    <3>2. n \in Seen /\ n.grants = seen[r].grants \cup access'[r]
          /\ n.sources = seen[r].sources \cup {source'}
      BY <2>1 DEF Seen
    <3> HIDE DEF n
    <3>3. Witnessed(req[r], access'[r], source', n)
      BY <2>1, <2>3, <3>2 DEF Witnessed
    <3> QED
      BY <3>1, <3>2, <3>3
  <2> QED
    BY <2>2, <2>3
<1>6. seen' \in [Reader -> Seen]
  <2>1. seen' = [r \in Reader |-> seen'[r]]
    BY DEF Witness
  <2> QED
    BY <1>5, <2>1
<1>7. TypeOK'
  BY <1>2, <1>3, <1>4, <1>6, TypesNext
<1>8. RequestsWitnessed'
  BY <1>3, <1>5 DEF RequestsWitnessed
<1>9. RequestsFit' /\ SessionsFit'
  BY <1>1, <1>3 DEF RequestsFit, SessionsFit
<1> QED
  BY <1>4, <1>7, <1>8, <1>9 DEF IInv

\* The steps that belong to no reader and no job.
LEMMA Surroundings ==
  ASSUME IInv, Elsewhere \/ Evict \/ ChangeSource \/ \E r \in Revocable : ChangeAccess(r)
  PROVE  IInv'
<1>1. /\ CacheTyped /\ ContentsFit /\ JobFits /\ job \in JobType /\ source \in Revision
      /\ access \in [Reader -> SUBSET Grant]
  BY Types DEF IInv
<1>2. CASE Elsewhere
  <2>1. PICK k \in Key : job' = [NoJob EXCEPT !.at = "download", !.key = k]
    BY <1>2 DEF Elsewhere
  <2>2. job' \in JobType /\ JobFits'
    BY <2>1 DEF NoJob, JobType, JobFits
  <2>3. UNCHANGED cacheVars /\ UNCHANGED <<siloVars, req, session, seen>>
    BY <1>2 DEF Elsewhere
  <2>4. CacheTyped' /\ ContentsFit'
    BY <1>1, <2>3 DEF cacheVars, CacheTyped, ContentsFit
  <2> QED
    BY <2>2, <2>3, <2>4, NobodyMoves
<1>3. CASE Evict
  <2>1. PICK k \in Key : Discard(k)
    BY <1>3 DEF Evict
  <2>2. job' = job /\ UNCHANGED <<siloVars, req, session, seen>>
    BY <1>3 DEF Evict
  <2>3. job' \in JobType /\ JobFits'
    BY <1>1, <2>2 DEF JobFits
  <2> QED
    BY <2>1, <2>2, <2>3, Discarding, NobodyMoves
<1>4. CASE ChangeSource
  BY <1>1, <1>4, SiloMoves DEF ChangeSource
<1>5. ASSUME NEW r \in Revocable, ChangeAccess(r) PROVE IInv'
  <2>1. PICK grants \in SUBSET Grant : access' = [access EXCEPT ![r] = grants]
    BY <1>5 DEF ChangeAccess
  <2>2. access' \in [Reader -> SUBSET Grant]
    BY <1>1, <2>1
  <2> QED
    BY <1>1, <1>5, <2>2, SiloMoves DEF ChangeAccess
<1> QED
  BY <1>2, <1>3, <1>4, <1>5

\* Every step keeps the invariant.
LEMMA ReadingKeeps == IInv /\ [Next]_vars => IInv'
<1> SUFFICES ASSUME IInv, [Next]_vars PROVE IInv'
  OBVIOUS
<1>1. CASE UNCHANGED vars
  <2>1. UNCHANGED <<siloVars, req, session, seen>> /\ UNCHANGED <<cacheVars, job>>
    BY <1>1 DEF vars, siloVars, cacheVars
  <2> QED
    BY <2>1, CacheUnmoved, NobodyMoves
<1>2. ASSUME NEW r \in Reader, ClientStep(r) PROVE IInv'
  BY <1>2, Asking, Resuming, Joining DEF ClientStep
<1>3. ASSUME NEW r \in Reader, HandlerStep(r) PROVE IInv'
  BY <1>3, Authorizing, LookingUp, Preparing, Serving DEF HandlerStep
<1>4. CASE JobStep
  BY <1>4, Working
<1>5. CASE Elsewhere \/ Evict \/ ChangeSource \/ \E r \in Revocable : ChangeAccess(r)
  BY <1>5, Surroundings
<1> QED
  BY <1>1, <1>2, <1>3, <1>4, <1>5 DEF Next

-----------------------------------------------------------------------------
(* What follows for the properties of ChapterRead.                         *)

\* The inductive invariant: what a request has witnessed, what a published key and
\* a session hold, and that a session's request is the one it needs next.
THEOREM ChapterInductive == Spec => []IInv
<1>1. Init => IInv
  BY InitialReading
<1>2. IInv /\ [Next]_vars => IInv'
  BY ReadingKeeps
<1> QED
  BY <1>1, <1>2, PTL DEF Spec

\* The types of the state, for any readers, revisions and bounds.
THEOREM ChapterTypeCorrect == Spec => []TypeOK
<1>1. IInv => TypeOK
  BY DEF IInv
<1> QED
  BY <1>1, ChapterInductive, PTL

\* Authorization is never taken from the cache: whoever is answered content has
\* been granted account, chapter and file during the request.
THEOREM ContentIsAuthorized == Spec => []ServedIsAuthorized
<1>1. IInv => ServedIsAuthorized
  <2> SUFFICES ASSUME IInv, NEW r \in Reader, req[r].status = "ok" PROVE seen[r].grants = Grant
    BY DEF ServedIsAuthorized
  <2>1. seen[r] \in Seen /\ Witnessed(req[r], access[r], source, seen[r])
    BY ReaderNow
  <2> QED
    BY <2>1 DEF Seen, Witnessed, Grant
<1> QED
  BY <1>1, ChapterInductive, PTL

\* Content is never of a revision that Silo did not serve during the request, as far
\* as its validators can tell.
THEOREM ContentIsCurrent == Spec => []ServedIsCurrent
<1>1. IInv => ServedIsCurrent
  <2> SUFFICES ASSUME IInv, NEW r \in Reader, req[r].status = "ok"
               PROVE  /\ CacheKey(req[r].rev) \in {CacheKey(v) : v \in seen[r].sources}
                      /\ Validated(CacheKey(req[r].rev)) => req[r].rev \in seen[r].sources
    BY DEF ServedIsCurrent
  <2>1. seen[r] \in Seen /\ Witnessed(req[r], access[r], source, seen[r]) /\ Fits(req[r])
    BY ReaderNow
  <2>2. PICK v \in seen[r].sources : req[r].head = CacheKey(v)
    BY <2>1 DEF Witnessed
  <2>3. v \in Revision /\ req[r].rev \in Revision /\ CacheKey(req[r].rev) = CacheKey(v)
    BY <2>1, <2>2 DEF Fits, PagesOf, Seen
  <2> QED
    BY <2>2, <2>3, ValidatorsAssumption
<1> QED
  BY <1>1, ChapterInductive, PTL

\* A chapter that a client has finished is one revision's, byte for byte, or has at
\* least the sizes that were announced.
THEOREM ChapterIsWhole == Spec => []JoinedIsChapter
<1>1. IInv => JoinedIsChapter
  <2> SUFFICES ASSUME IInv, NEW r \in Reader, session[r].at = "complete"
               PROVE  IF Validated(session[r].key)
                      THEN \E rev \in Revision : /\ CacheKey(rev) = session[r].key
                                                 /\ session[r].joined = AllBytes(rev)
                      ELSE [p \in DOMAIN session[r].joined |-> Len(session[r].joined[p])]
                             = session[r].list
    BY DEF JoinedIsChapter
  <2> DEFINE s == session[r]
  <2>1. s \in Session /\ SessionFits(s, req[r])
    BY ReaderNow
  <2>2. PICK rev \in Revision : JoinedFrom(s, rev)
    BY <2>1 DEF SessionFits
  <2>3. /\ s.joined \in Seq(Seq(Byte)) /\ s.list \in Seq(Nat) /\ s.list = PageSizes[rev]
        /\ CacheKey(rev) = s.key
    BY <2>1, <2>2 DEF Session, JoinedFrom, PagesOf
  <2>4. Len(s.joined) = Len(s.list)
    BY <2>2 DEF JoinedFrom
  <2>5. \A p \in 1..Len(s.list) :
          /\ Len(s.joined[p]) = s.list[p]
          /\ Validated(s.key) => \A i \in 1..s.list[p] : s.joined[p][i] = <<rev, p - 1, i>>
    BY <2>2, <2>4 DEF JoinedFrom
  <2> HIDE DEF s
  <2>6. DOMAIN s.joined = 1..Len(s.list) /\ DOMAIN s.list = 1..Len(s.list)
    BY <2>3, <2>4
  <2>7. ASSUME Validated(s.key) PROVE s.joined = AllBytes(rev)
    <3>1. ASSUME NEW p \in 1..Len(s.list)
          PROVE  s.joined[p] = [i \in 1..s.list[p] |-> <<rev, p - 1, i>>]
      <4>1. s.joined[p] \in Seq(Byte) /\ s.list[p] \in Nat
        BY <2>3, <2>6, <3>1, <2>4
      <4>2. s.joined[p] = [i \in 1..Len(s.joined[p]) |-> s.joined[p][i]]
        BY <4>1
      <4> QED
        BY <2>5, <2>7, <3>1, <4>2
    <3>2. s.joined = [p \in 1..Len(s.list) |-> s.joined[p]]
      BY <2>3, <2>4
    <3>3. AllBytes(rev) = [p \in 1..Len(s.list) |-> [i \in 1..s.list[p] |-> <<rev, p - 1, i>>]]
      BY <2>3, <2>6 DEF AllBytes
    <3> QED
      BY <3>1, <3>2, <3>3
  <2>8. [p \in DOMAIN s.joined |-> Len(s.joined[p])] = s.list
    <3>1. s.list = [p \in 1..Len(s.list) |-> s.list[p]]
      BY <2>3
    <3> QED
      BY <2>5, <2>6, <3>1
  <2> QED
    BY <2>3, <2>7, <2>8 DEF s
<1> QED
  BY <1>1, ChapterInductive, PTL

\* A client that follows the protocol is never told that its chunk is out of range.
THEOREM ChunkIsInRange == Spec => []ChunksInRange
<1>1. IInv => ChunksInRange
  <2> SUFFICES ASSUME IInv, NEW r \in Reader, session[r].at = "reading",
                      Validated(session[r].key)
               PROVE  req[r].status # "invalid"
    BY DEF ChunksInRange
  <2>1. req[r] \in Request /\ Fits(req[r]) /\ SessionFits(session[r], req[r])
    BY ReaderNow
  <2>2. CASE req[r].at = "idle"
    BY <2>1, <2>2 DEF Fits
  <2>3. CASE req[r].at # "idle"
    BY <2>1, <2>3 DEF SessionFits, Asks
  <2> QED
    BY <2>2, <2>3
<1> QED
  BY <1>1, ChapterInductive, PTL
=============================================================================
