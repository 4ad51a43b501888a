----------------------------- MODULE ChapterRead -----------------------------
(***************************************************************************)
(* A reader fetches a chapter through the plugin: the page list first,     *)
(* then every page chunk by chunk, as docs/protocol.md describes and the   *)
(* client of integration/plugin_test.go does it.  Each request is          *)
(* authorized by three calls to the Silo server (internal/silo/client.go)  *)
(* before the cache of internal/silo/backend.go is asked; between any two  *)
(* calls Silo may replace the chapter's file or withdraw access, and       *)
(* between any two chunks the chapter may be evicted and extracted again.  *)
(*                                                                         *)
(* One chapter and one runtime: Backend has the lifecycle and the steps in *)
(* which a job ends, which are one step here.  Two variables belong to no  *)
(* program: contents, which revision an extraction was made from, and      *)
(* seen, what Silo would have answered at some time during a request.      *)
(***************************************************************************)
EXTENDS Naturals, Sequences, FiniteSetsExt

CONSTANTS
  Reader,           \* callers, each with a token of its own
  Follower,         \* those of them whose client follows the protocol
  Made,             \* reader -> requests that it makes up
  Revocable,        \* those whose access Silo may change
  Revision,         \* versions of the chapter's archive
  ArchiveSize,      \* revision -> Content-Length
  Validators,       \* revision -> ETag and Last-Modified, or NoValidators
  PageSizes,        \* revision -> sizes of the pages in its archive
  NoValidators, NoKey, NoReader, NoRevision,
  ChunkBytes,
  MaxArchiveBytes,
  MaxPolls          \* bound on the polls of a client

ASSUME RevisionAssumption ==
  /\ ArchiveSize \in [Revision -> Nat] /\ DOMAIN Validators = Revision
  /\ PageSizes \in [Revision -> Seq(Nat)]
ASSUME BoundsAssumption == ChunkBytes \in Nat \ {0} /\ MaxArchiveBytes \in Nat /\ MaxPolls \in Nat
ASSUME ReaderAssumption == Follower \subseteq Reader /\ Revocable \subseteq Reader /\ NoReader \notin Reader

Grant == {"account", "item", "file"}

\* fingerprintFor and hashFingerprint, without the identity of the chapter.
CacheKey(rev) == <<ArchiveSize[rev], Validators[rev]>>

Key == {CacheKey(rev) : rev \in Revision}
ASSUME NobodyAssumption == NoKey \notin Key /\ NoRevision \notin Revision

Validated(key) == key[2] # NoValidators

\* What an ETag or Last-Modified is for.
ASSUME ValidatorsAssumption ==
  \A v, w \in Revision : Validated(CacheKey(v)) /\ CacheKey(v) = CacheKey(w) => v = w

Request ==
  [at: {"idle", "asked", "known", "opened", "headed", "missed", "waiting", "again", "reading",
        "answered"},
   kind: {"pages", "page"}, formed: BOOLEAN, key: Key \cup {NoKey}, index: Nat, offset: Nat,
   head: Key \cup {NoKey}, rev: Revision \cup {NoRevision},
   status: {"none", "ok", "preparing", "refused", "conflict", "too_large", "invalid", "unavailable"}]
Idle == [at |-> "idle", kind |-> "pages", formed |-> TRUE, key |-> NoKey, index |-> 0, offset |-> 0,
         head |-> NoKey, status |-> "none", rev |-> NoRevision]

Byte == Revision \X Nat \X Nat
Session ==
  [at: {"closed", "preparing", "reading", "complete"}, key: Key \cup {NoKey}, list: Seq(Nat),
   joined: Seq(Seq(Byte)), polls: 0..MaxPolls]

ASSUME MadeAssumption ==
  \A r \in Reader : \A q \in Made[r] : q \in Request /\ q.at = "asked" /\ q.status = "none"

VARIABLES
  source,    \* the revision Silo serves
  access,    \* reader -> what Silo grants it
  stock,     \* the cache, by PinnedCache
  held,
  contents,  \* key -> the revision its pages come from
  job,       \* the extraction job
  req,       \* reader -> its request, as the handler sees it
  session,   \* reader -> what its client has got so far
  seen       \* reader -> what Silo granted and served during its request

vars == <<source, access, stock, held, contents, job, req, session, seen>>

Cache == INSTANCE PinnedCache

siloVars == <<source, access>>
cacheVars == <<stock, held, contents>>

NoJob == [at |-> "idle", key |-> NoKey, owner |-> NoReader, rev |-> NoRevision]
Closed == [at |-> "closed", key |-> NoKey, list |-> <<>>, joined |-> <<>>, polls |-> 0]
Unseen == [grants |-> {}, sources |-> {}]

Init ==
  /\ source \in Revision
  /\ access = [r \in Reader |-> Grant]
  /\ contents = [k \in Key |-> NoRevision]
  /\ job = NoJob
  /\ req = [r \in Reader |-> Idle]
  /\ session = [r \in Reader |-> Closed]
  /\ seen = [r \in Reader |-> Unseen]
  /\ Cache!Init

-----------------------------------------------------------------------------
(* The client.                                                             *)

Send(r, request) ==
  /\ req[r].at = "idle"
  /\ req' = [req EXCEPT ![r] = request]
  /\ seen' = [seen EXCEPT ![r] = [grants |-> access[r], sources |-> {source}]]
  /\ UNCHANGED <<siloVars, cacheVars, job>>

\* Ask for the page list; again, while the answer is 202.
AskPages(r) ==
  /\ r \in Follower /\ session[r].at \in {"closed", "preparing"}
  /\ Send(r, [Idle EXCEPT !.at = "asked"])
  /\ session' = [session EXCEPT ![r].at = "preparing"]

\* The pages one after the other; the last one of joined is under way.
PageInHand(s) == Len(s.joined)

AskChunk(r) ==
  LET s == session[r] IN
  /\ s.at = "reading"
  /\ Send(r, [Idle EXCEPT !.at = "asked", !.kind = "page", !.key = s.key,
                          !.index = PageInHand(s) - 1, !.offset = Len(s.joined[PageInHand(s)])])
  /\ UNCHANGED session

\* Any request that a caller could make up.
AskAnything(r) ==
  /\ session[r].at = "closed"
  /\ \E request \in Made[r] : Send(r, request)
  /\ UNCHANGED session

-----------------------------------------------------------------------------
(* The handlers Pages and Page, one call or critical section at a time.    *)

\* removeLocked: a chapter that nobody reads is gone and its pages with it.
Discard(k) ==
  LET gone == {k} \cap {x \in Key : Cache!Free(x)} IN
  /\ Cache!Clear({k} \cap {x \in Key : stock[x] # "absent"}, gone)
  /\ contents' = [x \in Key |-> IF x \in gone THEN NoRevision ELSE contents[x]]

Goto(r, at) == req' = [req EXCEPT ![r].at = at]

\* responseForError: nothing but a status.
Answer(r, status) ==
  req' = [req EXCEPT ![r] = [Idle EXCEPT !.at = "answered", !.kind = req[r].kind, !.key = req[r].key,
                                         !.status = status]]

\* responseForResult: the page list or the chunk of what has been looked up.
AnswerContent(r) == req' = [req EXCEPT ![r].at = "answered", ![r].status = "ok"]

OnlyReq == UNCHANGED <<siloVars, cacheVars, job, session, seen>>

\* Route, body, validateRequest and the alignment of the offset.
Malformed(q) ==
  \/ ~q.formed
  \/ q.kind = "page" /\ (q.key = NoKey \/ q.offset % ChunkBytes # 0)

TurnAway(r) ==
  /\ req[r].at = "asked" /\ Malformed(req[r])
  /\ \E status \in {"refused", "too_large", "invalid"} : Answer(r, status)
  /\ OnlyReq

\* No runtime, a call that timed out or failed, or an answer nobody can read.
Unavailable(r) ==
  /\ req[r].at \in {"asked", "known", "opened"}
  /\ Answer(r, "unavailable")
  /\ OnlyReq

Authenticate(r) ==
  /\ req[r].at = "asked" /\ ~Malformed(req[r])
  /\ IF "account" \in access[r] THEN Goto(r, "known")
     ELSE Answer(r, "refused")
  /\ OnlyReq

AuthorizeItem(r) ==
  /\ req[r].at = "known"
  /\ IF "item" \in access[r] THEN Goto(r, "opened")
     ELSE Answer(r, "refused")
  /\ OnlyReq

\* Mutant: HEAD is taken for a question about the file, not about the caller.
HeadAnyone(r) ==
  /\ req[r].at = "opened"
  /\ req' = [req EXCEPT ![r].at = "headed", ![r].head = CacheKey(source)]
  /\ OnlyReq

HeadFile(r) ==
  /\ req[r].at = "opened"
  /\ IF "file" \notin access[r] THEN Answer(r, "refused")
     ELSE IF ArchiveSize[source] > MaxArchiveBytes THEN Answer(r, "too_large")
     ELSE req' = [req EXCEPT ![r].at = "headed", ![r].head = CacheKey(source)]
  /\ OnlyReq

\* Mutant: the key is only required, never compared.
StaleNever(q) == FALSE

\* The request names the key of another revision than the one Silo serves.
Stale(q) == q.key # NoKey /\ q.key # q.head

KeyChanged(r) ==
  /\ req[r].at = "headed" /\ Stale(req[r])
  /\ Answer(r, "conflict")
  /\ OnlyReq

Hit(r) ==
  /\ req[r].at \in {"headed", "again"} /\ ~Stale(req[r])
  /\ Cache!Borrow(r, req[r].head)
  /\ req' = [req EXCEPT ![r].at = "reading", ![r].rev = contents[req[r].head]]
  /\ UNCHANGED <<siloVars, contents, job, session, seen>>

\* A lookup that finds nothing, or an entry that is dead and goes.  Only a
\* request for a page list that names no key goes on.
Miss(r) ==
  LET k == req[r].head IN
  /\ req[r].at \in {"headed", "again"} /\ ~Stale(req[r])
  /\ Discard(k)
  /\ IF req[r].at = "headed" /\ req[r].kind = "pages" /\ req[r].key = NoKey
     THEN Goto(r, "missed") ELSE Answer(r, "conflict")
  /\ UNCHANGED <<siloVars, job, session, seen>>

\* getOrStartJob: the job of this key, a new one, or extractor_busy and cache_full.
Join(r) ==
  /\ req[r].at = "missed" /\ job.at # "idle" /\ job.key = req[r].head
  /\ Goto(r, "waiting")
  /\ OnlyReq

Start(r) ==
  /\ req[r].at = "missed" /\ job.at = "idle"
  /\ job' = [at |-> "download", key |-> req[r].head, owner |-> r, rev |-> NoRevision]
  /\ Goto(r, "waiting")
  /\ UNCHANGED <<siloVars, cacheVars, session, seen>>

\* The job of a caller outside Reader, who asked Silo at any time before.
Elsewhere ==
  /\ job.at = "idle"
  /\ \E k \in Key : job' = [NoJob EXCEPT !.at = "download", !.key = k]
  /\ UNCHANGED <<siloVars, cacheVars, req, session, seen>>

Refuse(r) ==
  /\ req[r].at = "missed" /\ (job.at # "idle" => job.key # req[r].head)
  /\ Answer(r, "unavailable")
  /\ OnlyReq

\* waitForJob: the preparation timer or the end of the request's context.
GiveUp(r) ==
  /\ req[r].at \in {"waiting", "again"}
  /\ \E status \in {"preparing", "unavailable"} : Answer(r, status)
  /\ OnlyReq

\* Pages releases the handle when it has copied the list.
ListPages(r) ==
  /\ req[r].at = "reading" /\ req[r].kind = "pages"
  /\ AnswerContent(r)
  /\ Cache!Return(r)
  /\ UNCHANGED <<siloVars, contents, job, session, seen>>

\* Mutant: a short last chunk is taken for one beyond the page.
BeyondShort(q) ==
  LET sizes == PageSizes[q.rev] IN
  q.index >= Len(sizes) \/ q.offset + ChunkBytes > sizes[q.index + 1]

Beyond(q) ==
  LET sizes == PageSizes[q.rev] IN
  q.index >= Len(sizes) \/ q.offset >= sizes[q.index + 1]

\* The bytes of the page from the offset on, one chunk at most.
Body(q) ==
  LET remaining == PageSizes[q.rev][q.index + 1] - q.offset
  IN  [i \in 1..Min({remaining, ChunkBytes}) |-> <<q.rev, q.index, q.offset + i>>]

\* A page file that cannot be read any more counts as evicted.
ServeChunk(r) ==
  /\ req[r].at = "reading" /\ req[r].kind = "page"
  /\ IF Beyond(req[r]) THEN Answer(r, "invalid") ELSE AnswerContent(r) \/ Answer(r, "conflict")
  /\ Cache!Return(r)
  /\ UNCHANGED <<siloVars, contents, job, session, seen>>

-----------------------------------------------------------------------------
(* The client gets the answer.                                             *)

Receive(r) ==
  /\ req[r].at = "answered"
  /\ req' = [req EXCEPT ![r] = Idle]
  /\ seen' = [seen EXCEPT ![r] = Unseen]
  /\ UNCHANGED <<siloVars, cacheVars, job>>

\* The page list: reading starts with an empty first page.
ReceiveList(r) ==
  /\ session[r].at = "preparing" /\ req[r].status = "ok"
  /\ session' = [session EXCEPT ![r] = [Closed EXCEPT
       !.at = "reading", !.key = req[r].head, !.list = PageSizes[req[r].rev], !.joined = <<<<>>>>]]
  /\ Receive(r)

\* Mutant: one poll more than the client means to make.
ReceivePreparingAgain(r) ==
  /\ session[r].at = "preparing" /\ req[r].status = "preparing"
  /\ session' = IF session[r].polls <= MaxPolls
                THEN [session EXCEPT ![r].polls = @ + 1] ELSE [session EXCEPT ![r] = Closed]
  /\ Receive(r)

\* Preparing: the client asks again, but not for ever.
ReceivePreparing(r) ==
  /\ session[r].at = "preparing" /\ req[r].status = "preparing"
  /\ session' = IF session[r].polls < MaxPolls
                THEN [session EXCEPT ![r].polls = @ + 1] ELSE [session EXCEPT ![r] = Closed]
  /\ Receive(r)

\* The exact length that a chunk at this offset must have.
Expected(s, body) ==
  Len(body) = Min({ChunkBytes, s.list[PageInHand(s)] - Len(s.joined[PageInHand(s)])})

\* A chunk is joined; a page that is complete makes room for the next one.
ReceiveChunk(r) ==
  LET s == session[r]
      p == PageInHand(s)
      joined == [s.joined EXCEPT ![p] = @ \o Body(req[r])]
      complete == Len(joined[p]) = s.list[p] IN
  /\ s.at = "reading" /\ req[r].status = "ok" /\ Expected(s, Body(req[r]))
  /\ session' = [session EXCEPT
       ![r].joined = IF complete /\ p < Len(s.list) THEN Append(joined, <<>>) ELSE joined,
       ![r].at = IF complete /\ p = Len(s.list) THEN "complete" ELSE "reading"]
  /\ Receive(r)

\* 409, an error or a chunk of the wrong length: what has been joined is dropped
\* and the chapter prepared again, if at all.  Answers to other requests are lost.
StartOver(r) ==
  /\ \/ session[r].at = "preparing" /\ req[r].status \notin {"ok", "preparing"}
     \/ session[r].at = "reading" /\ (req[r].status = "ok" => ~Expected(session[r], Body(req[r])))
     \/ session[r].at = "closed"
  /\ session' = [session EXCEPT ![r] = Closed]
  /\ Receive(r)

Finish(r) ==
  /\ session[r].at = "complete"
  /\ session' = [session EXCEPT ![r] = Closed]
  /\ UNCHANGED <<siloVars, cacheVars, job, req, seen>>

-----------------------------------------------------------------------------
(* The job.                                                                *)

\* runJob ends: whoever waits finds the error, or looks the chapter up again.
End(status) ==
  /\ job' = NoJob
  /\ req' = [r \in Reader |->
       IF req[r].at # "waiting" THEN req[r]
       ELSE IF status = "none" THEN [req[r] EXCEPT !.at = "again"]
       ELSE [Idle EXCEPT !.at = "answered", !.status = status]]
  /\ UNCHANGED <<siloVars, session, seen>>

\* Mutant: the download is not compared with the file that was authorized.
UnchangedAlways(rev) == TRUE

\* Length, ETag and Last-Modified are those that the cache key was made from.
Unchanged(rev) == CacheKey(rev) = job.key

\* GET with the credentials of the request that started the job.
Granted == job.owner # NoReader => {"account", "file"} \subseteq access[job.owner]

Download ==
  /\ job.at = "download" /\ Granted
  /\ ArchiveSize[source] <= MaxArchiveBytes /\ Unchanged(source)
  /\ job' = [job EXCEPT !.at = "extract", !.rev = source, !.owner = NoReader]
  /\ UNCHANGED <<siloVars, cacheVars, req, session, seen>>

SourceChanged ==
  /\ job.at = "download" /\ Granted /\ ~Unchanged(source)
  /\ End(IF ArchiveSize[source] > MaxArchiveBytes THEN "too_large" ELSE "conflict")
  /\ UNCHANGED cacheVars

\* The download is refused to the owner, is cut short, or times out.
DownloadFails ==
  /\ job.at = "download"
  /\ \/ (Granted => job.owner = NoReader) /\ End("refused")
     \/ \E status \in {"conflict", "unavailable"} : End(status)
  /\ UNCHANGED cacheVars

\* What extractJob asks of the pages.
Readable(rev) == PageSizes[rev] # <<>> /\ \A i \in DOMAIN PageSizes[rev] : PageSizes[rev][i] > 0

Commit ==
  /\ job.at = "extract" /\ Readable(job.rev)
  /\ Cache!Publish(job.key)
  /\ contents' = [contents EXCEPT ![job.key] = job.rev]
  /\ End("none")

\* No pages, an invalid archive, limits, the deadline, a commit that fails.
ExtractFails ==
  /\ job.at = "extract"
  /\ Discard(job.key) \/ UNCHANGED cacheVars
  /\ \E status \in {"too_large", "invalid", "unavailable"} : End(status)

-----------------------------------------------------------------------------
(* Around them.                                                            *)

\* Expiry and eviction, of one chapter at a time.
Evict ==
  /\ \E k \in {x \in Key : stock[x] # "absent"} : Discard(k)
  /\ UNCHANGED <<siloVars, job, req, session, seen>>

\* A request in progress has seen what Silo grants and serves from now on, too.
Witness ==
  seen' = [r \in Reader |-> IF req[r].at = "idle" THEN Unseen
             ELSE [grants |-> seen[r].grants \cup access'[r],
                   sources |-> seen[r].sources \cup {source'}]]

ChangeSource ==
  /\ \E rev \in Revision \ {source} : source' = rev
  /\ UNCHANGED <<access, cacheVars, job, req, session>>
  /\ Witness

\* One refusal is enough to be refused, and the calls are made in order.
ChangeAccess(r) ==
  /\ \E grants \in {Grant} \cup {Grant \ {g} : g \in Grant} : access' = [access EXCEPT ![r] = grants]
  /\ UNCHANGED <<source, cacheVars, job, req, session>>
  /\ Witness

ClientStep(r) ==
  \/ AskPages(r) \/ AskChunk(r) \/ AskAnything(r) \/ Finish(r)
  \/ ReceiveList(r) \/ ReceivePreparing(r) \/ ReceiveChunk(r) \/ StartOver(r)

HandlerStep(r) ==
  \/ TurnAway(r) \/ Unavailable(r)
  \/ Authenticate(r) \/ AuthorizeItem(r) \/ HeadFile(r)
  \/ KeyChanged(r) \/ Hit(r) \/ Miss(r)
  \/ Join(r) \/ Start(r) \/ Refuse(r) \/ GiveUp(r)
  \/ ListPages(r) \/ ServeChunk(r)

JobStep == Download \/ SourceChanged \/ DownloadFails \/ Commit \/ ExtractFails

Next ==
  \/ \E r \in Reader : ClientStep(r) \/ HandlerStep(r)
  \/ Elsewhere \/ JobStep \/ Evict \/ ChangeSource
  \/ \E r \in Revocable : ChangeAccess(r)

Spec == Init /\ [][Next]_vars

-----------------------------------------------------------------------------
TypeOK ==
  /\ source \in Revision /\ access \in [Reader -> SUBSET Grant]
  /\ stock \in [Key -> {"absent", "shelved", "withdrawn"}] /\ held \in [Reader -> Key \cup {NoKey}]
  /\ contents \in [Key -> Revision \cup {NoRevision}]
  /\ job \in [at: {"idle", "download", "extract"}, key: Key \cup {NoKey},
              owner: Reader \cup {NoReader}, rev: Revision \cup {NoRevision}]
  /\ req \in [Reader -> Request]
  /\ session \in [Reader -> Session]
  /\ seen \in [Reader -> [grants: SUBSET Grant, sources: SUBSET Revision]]

\* docs/protocol.md: every chunk request rechecks access, including cache hits.
\* Content is answered only to a caller whose account, chapter and file Silo
\* granted at some time during this very request, whoever prepared the chapter.
ServedIsAuthorized ==
  \A r \in Reader : req[r].status = "ok" => seen[r].grants = Grant

\* A page list or a chunk comes from a revision that Silo served during the
\* request, or one it cannot be told from: never from an older one that is
\* still in the cache, and never from one that replaced it during a download.
ServedIsCurrent ==
  \A r \in Reader : req[r].status = "ok" =>
    /\ CacheKey(req[r].rev) \in {CacheKey(v) : v \in seen[r].sources}
    /\ Validated(CacheKey(req[r].rev)) => req[r].rev \in seen[r].sources

AllBytes(rev) ==
  [p \in DOMAIN PageSizes[rev] |-> [i \in 1..PageSizes[rev][p] |-> <<rev, p - 1, i>>]]

\* docs/protocol.md: a chapter is never joined from bytes of different
\* revisions.  The pages of a client that has finished are those of one
\* revision, byte for byte, whatever was evicted, replaced and extracted again
\* between two chunks; if the source has no validators, they have the sizes
\* that the page list announced.
JoinedIsChapter ==
  \A r \in Reader : session[r].at = "complete" =>
    IF Validated(session[r].key)
    THEN \E rev \in Revision : CacheKey(rev) = session[r].key /\ session[r].joined = AllBytes(rev)
    ELSE [p \in DOMAIN session[r].joined |-> Len(session[r].joined[p])] = session[r].list

\* A client that follows the protocol never asks for a chunk that the plugin
\* finds out of range, up to the last byte of a page whose size is a multiple
\* of the chunk.
ChunksInRange ==
  \A r \in Reader :
    session[r].at = "reading" /\ Validated(session[r].key) => req[r].status # "invalid"
=============================================================================
