---------------------------- MODULE ControlPlane ----------------------------
(***************************************************************************)
(* The API as its callers see it: every route behind the rate limiter, one *)
(* of two guards or none, and the tenant's scope; the API keys that are    *)
(* issued and revoked through it while others are being presented.  One    *)
(* step per awaited query.  What the asset routes do beyond the rows they  *)
(* name is the subject of Ingest and Optimizer.                            *)
(***************************************************************************)
EXTENDS RateLimiter, Functions, TLC

CONSTANTS
  Callers,        \* requests in flight at once
  Sources,        \* client addresses
  KeyIds,         \* identities of API keys, issued and to be issued
  FirstKeys,      \* the keys that exist at the start: id -> [tenant, permissions]
  FirstAssets,    \* the assets: id -> [tenant, stored]; ids grow with time of creation
  NewAssets,      \* ids of assets to be created
  Traffic,        \* the mixes of requests: [requests, arrivals]
  MaxPage         \* the largest page a listing serves

\* An id is never taken for the absence of a cursor.
ASSUME IdsAreNumbers == DOMAIN FirstAssets \cup NewAssets \subseteq Nat \ {0} /\ IsFiniteSet(DOMAIN FirstAssets)
ASSUME PageIsNat == MaxPage \in Nat

ASSUME FirstKeysHaveIds == DOMAIN FirstKeys \subseteq KeyIds

\* Every request comes from an address.  A listing sets out from the newest asset; the
\* cursors after that are those it is given.
RequestFields == {"route", "source", "credential", "limit", "cursor"}
ASSUME RequestsSetOut ==
  \A mix \in Traffic : \A request \in mix.requests :
    /\ RequestFields \subseteq DOMAIN request /\ request.source \in Sources
    /\ request.route = "list" => request.limit \in Nat /\ request.cursor = 0

VARIABLES
  counters,    \* the rate limiter's table
  keys,        \* API key rows: id -> [tenant, permissions, revokedAt, by]
  assets,      \* asset rows: id -> [tenant, stored, deleted, by]; stored: currentVersion > 0
  call,        \* each caller's request in flight
  traffic,     \* the mix this behaviour draws its requests from
  arrivals,    \* requests still to arrive
  recent,      \* requests let through: source -> age -> how many, of them mutating
  forgiven     \* sources whose window was dropped before it ended

apiVars == <<counters, keys, assets, call, traffic, arrivals, recent, forgiven>>

\* An optional value, as the rest of the project writes one
Never == <<>>

---------------------------------------------------------------------------
\* Routes: whether the verb mutates, who guards it, what permission it needs

Route(mutating, guard, permission) == [mutating |-> mutating, guard |-> guard, permission |-> permission]
AssetRoutes ==
  [get |-> Route(FALSE, "key", "read"), variants |-> Route(FALSE, "key", "read"),
   list |-> Route(FALSE, "key", "read"), update |-> Route(TRUE, "key", "upload"),
   replaceSource |-> Route(TRUE, "key", "upload"), reprocess |-> Route(TRUE, "key", "upload"),
   remove |-> Route(TRUE, "key", "delete")]
UploadRoutes == [r \in {"proxied", "createUpload", "completeUpload"} |-> Route(TRUE, "key", "upload")]
KeyRoutes ==
  [createKey |-> Route(TRUE, "key", "admin"), listKeys |-> Route(FALSE, "key", "admin"),
   revokeKey |-> Route(TRUE, "key", "admin")]
WorkerRoutes ==
  [optimizeContext |-> Route(FALSE, "worker", ""), completeOptimize |-> Route(TRUE, "worker", ""),
   markFailed |-> Route(TRUE, "worker", ""), recordDerivative |-> Route(TRUE, "worker", "")]
HealthRoutes == [r \in {"healthz", "readyz"} |-> Route(FALSE, "public", "")]

ROUTES ==
  [r \in DOMAIN AssetRoutes \cup DOMAIN UploadRoutes \cup DOMAIN KeyRoutes \cup DOMAIN WorkerRoutes \cup DOMAIN HealthRoutes |->
     CASE r \in DOMAIN AssetRoutes -> AssetRoutes[r]
       [] r \in DOMAIN UploadRoutes -> UploadRoutes[r]
       [] r \in DOMAIN KeyRoutes -> KeyRoutes[r]
       [] r \in DOMAIN WorkerRoutes -> WorkerRoutes[r]
       [] r \in DOMAIN HealthRoutes -> HealthRoutes[r]]

RouteOf(c) == ROUTES[call[c].request.route]

\* Routes that look one asset up in the scope and answer from it (or queue a job for it),
\* that write it by its id in a further query, or that commit a version to it
Reading == {"get", "variants", "reprocess"}
Writing == {"update", "remove"}
Committing == {"replaceSource", "completeUpload"}
Creating == {"proxied", "createUpload"}
\* Routes that refuse a malformed body, once past the guard
Checked == {"createUpload", "proxied", "replaceSource", "createKey", "completeOptimize", "markFailed", "recordDerivative"}

\* What is thrown, and what the exception filter makes of it: an error of the API
\* carries its status, a missing asset is a 404 whoever finds it missing, and anything
\* else is a 500.
ApiError == [validation |-> 400, unauthorized |-> 401, forbidden |-> 403, notFound |-> 404,
             conflict |-> 409, unavailable |-> 503]
statusOf(thrown) ==
  CASE thrown \in DOMAIN ApiError -> ApiError[thrown]
    [] thrown = "AssetNotFoundError" -> 404
    [] OTHER -> 500

Idle == [at |-> "idle", request |-> <<>>, scope |-> "", known |-> {}, status |-> 0, body |-> {},
         next |-> 0, seen |-> <<>>, wanted |-> {}]

ApiInit ==
  /\ counters = <<>>
  /\ keys = [k \in DOMAIN FirstKeys |->
               [tenant |-> FirstKeys[k].tenant, permissions |-> FirstKeys[k].permissions,
                revokedAt |-> Never, by |-> FirstKeys[k].tenant]]
  /\ assets = [a \in DOMAIN FirstAssets |->
                 [tenant |-> FirstAssets[a].tenant, stored |-> FirstAssets[a].stored,
                  deleted |-> FALSE, by |-> FirstAssets[a].tenant]]
  /\ call = [c \in Callers |-> Idle]
  /\ traffic \in Traffic
  /\ arrivals = traffic.arrivals
  /\ recent = [s \in Sources |-> [a \in 0..(Window - 1) |-> [all |-> 0, mutating |-> 0]]]
  /\ forgiven = {}

rows == <<keys, assets>>
limiter == <<counters, recent, forgiven, arrivals>>

Advance(c, changes) == call' = [call EXCEPT ![c] = [f \in DOMAIN call[c] |-> IF f \in DOMAIN changes THEN changes[f] ELSE call[c][f]]]
Answer(c, body) == Advance(c, [at |-> "done", status |-> 200, body |-> body])
Throw(c, error) == Advance(c, [at |-> "done", status |-> statusOf(error), body |-> {}])

---------------------------------------------------------------------------
\* The way in: the limiter, then the guard of the route, all before the first await

revokedKeys == {k \in DOMAIN keys : keys[k].revokedAt # Never}

\* The credentials are not interchangeable: each guard looks at its own header.
canActivateWorker(credential) == credential.kind = "worker" /\ credential.genuine
extractKey(credential) == IF credential.kind = "key" THEN {credential.key} ELSE {}

\* The guard of keys lets the other credential's routes through, and stops at the query.
AtGuard(request) ==
  LET guard == ROUTES[request.route].guard
      passes == [at |-> "handler", status |-> 0]
      refused == [at |-> "done", status |-> statusOf("unauthorized")]
  IN  CASE guard = "public" -> passes
        [] guard = "worker" -> IF canActivateWorker(request.credential) THEN passes ELSE refused
        [] OTHER -> IF extractKey(request.credential) = {} THEN refused ELSE [at |-> "verify", status |-> 0]

\* The table, and for the record who was let through and whose window was cut short
Limit(source, mutating, admitted) ==
  LET after == Recorded(counters, source, mutating)
      dropped == {s \in Tracked(counters) \ Tracked(after) :
                    \E i \in At(counters, s) : ~Expired(counters[i])}
      more == IF mutating THEN 1 ELSE 0
  IN  /\ counters' = after
      /\ forgiven' = forgiven \cup dropped
      /\ recent' = IF ~admitted THEN recent
                   ELSE [recent EXCEPT ![source][0] = [all |-> @.all + 1, mutating |-> @.mutating + more]]

Enter(c, request, seen, wanted) ==
  LET mutating == ROUTES[request.route].mutating
      refused == Refused(counters, request.source, mutating)
      gate == AtGuard(request)
  IN  /\ arrivals > 0 /\ arrivals' = arrivals - 1
      /\ Limit(request.source, mutating, ~refused)
      /\ call' = [call EXCEPT ![c] =
           [at |-> IF refused THEN "done" ELSE gate.at, request |-> request, scope |-> "",
            known |-> revokedKeys, status |-> IF refused THEN 429 ELSE gate.status, body |-> {},
            next |-> 0, seen |-> seen, wanted |-> wanted]]
      /\ UNCHANGED <<rows, traffic>>

Visible(tenant) == {a \in DOMAIN assets : assets[a].tenant = tenant /\ ~assets[a].deleted}

\* A genuine key has been issued; a forged one may name any id.  What the caller of a
\* listing ought to see is noted as it sets out.
Arrive(c) ==
  /\ call[c].at \in {"idle", "done"}
  /\ \E request \in traffic.requests :
       LET known == extractKey(request.credential) \cap DOMAIN keys
       IN  /\ request.credential.kind = "key" /\ request.credential.genuine => known # {}
           /\ Enter(c, request, <<>>,
                    IF request.route = "list" THEN UNION {Visible(keys[k].tenant) : k \in known} ELSE {})

\* The id is read from the presented key, the secret is compared with the row's hash.
keyIdFromPlaintext(credential) == {credential.key}
hashesMatch(credential) == credential.genuine

\* Revocation left out, and the check: unknown, forged and revoked look the same outside.
verifyUnrevoked(credential) ==
  {k \in keyIdFromPlaintext(credential) \cap DOMAIN keys : hashesMatch(credential)}
verify(credential) ==
  {k \in keyIdFromPlaintext(credential) \cap DOMAIN keys : hashesMatch(credential) /\ keys[k].revokedAt = Never}

scopeOf(key) == key.tenant

Verify(c) ==
  LET valid == verify(call[c].request.credential)
      permitted == {k \in valid : RouteOf(c).permission \in keys[k].permissions}
  IN  /\ call[c].at = "verify"
      /\ CASE valid = {} -> Throw(c, "unauthorized")
           [] valid # {} /\ permitted = {} -> Throw(c, "forbidden")
           [] OTHER -> \E k \in permitted : Advance(c, [at |-> "handler", scope |-> scopeOf(keys[k])])
      /\ UNCHANGED <<rows, limiter, traffic>>

---------------------------------------------------------------------------
\* Handlers

Target(c) == call[c].request.target
InHandler(c, routes) == call[c].at = "handler" /\ call[c].request.route \in routes
Malformed(c) == call[c].request.route \in Checked /\ ~call[c].request.wellFormed

RefuseBody(c) ==
  /\ call[c].at = "handler" /\ Malformed(c)
  /\ Throw(c, "validation")
  /\ UNCHANGED <<rows, limiter, traffic>>

\* The row of this id, in no particular tenant
findAnywhere(id, scope, includeDeleted) == {a \in {id} \cap DOMAIN assets : includeDeleted \/ ~assets[a].deleted}

findById(id, scope, includeDeleted) ==
  {a \in {id} \cap DOMAIN assets : assets[a].tenant = scope /\ (includeDeleted \/ ~assets[a].deleted)}

\* An upload is completed once, deleted or not; a reprocess needs a stored source.
Lookup(c) ==
  LET route == call[c].request.route
      completes == route = "completeUpload"
      found == findById(Target(c), call[c].scope, completes)
      clashes == \E a \in found : IF completes THEN assets[a].stored ELSE route = "reprocess" /\ ~assets[a].stored
  IN  /\ InHandler(c, Reading \cup Writing \cup Committing) /\ ~Malformed(c)
      /\ CASE found = {} -> Throw(c, IF completes THEN "notFound" ELSE "AssetNotFoundError")
           [] found # {} /\ clashes -> Throw(c, "conflict")
           [] found # {} /\ ~clashes /\ route \in Reading -> Answer(c, found)
           [] OTHER -> Advance(c, [at |-> IF route \in Writing THEN "write" ELSE "commit"])
      /\ UNCHANGED <<rows, limiter, traffic>>

Touched(row, writer, stores, removes) ==
  [tenant |-> row.tenant, stored |-> row.stored \/ stores, deleted |-> row.deleted \/ removes, by |-> writer]

\* By id alone: neither the tenant nor deletedAt is looked at again.  An update then
\* reads the asset once more for its answer.
WriteAsset(c) ==
  LET removes == call[c].request.route = "remove"
  IN  /\ call[c].at = "write"
      /\ assets' = [assets EXCEPT ![Target(c)] = Touched(@, call[c].scope, FALSE, removes)]
      /\ IF removes THEN Answer(c, {}) ELSE Advance(c, [at |-> "reread"])
      /\ UNCHANGED <<keys, limiter, traffic>>

Reread(c) ==
  LET found == findById(Target(c), call[c].scope, FALSE)
  IN  /\ call[c].at = "reread"
      /\ IF found = {} THEN Throw(c, "AssetNotFoundError") ELSE Answer(c, found)
      /\ UNCHANGED <<rows, limiter, traffic>>

\* One transaction, whose opening lookup is scoped; a deleted asset takes no version.
\* Bytes that are missing or refused end the request before it.
CommitVersion(c) ==
  /\ call[c].at = "commit"
  /\ CASE findById(Target(c), call[c].scope, TRUE) = {} -> assets' = assets /\ Throw(c, "AssetNotFoundError")
       [] assets[Target(c)].deleted -> assets' = assets /\ Throw(c, "IllegalStatusTransition")
       [] OTHER -> /\ assets' = [assets EXCEPT ![Target(c)] = Touched(@, call[c].scope, TRUE, FALSE)]
                   /\ Answer(c, {Target(c)})
  /\ UNCHANGED <<keys, limiter, traffic>>

RefuseBytes(c) ==
  /\ call[c].at = "commit"
  /\ \E error \in {"validation", "notFound"} : Throw(c, error)
  /\ UNCHANGED <<rows, limiter, traffic>>

CreateAsset(c) ==
  /\ InHandler(c, Creating) /\ ~Malformed(c)
  /\ \E a \in NewAssets \ DOMAIN assets :
       /\ \A b \in NewAssets \ DOMAIN assets : a <= b
       /\ assets' = [b \in DOMAIN assets \cup {a} |->
                       IF b # a THEN assets[b]
                       ELSE [tenant |-> call[c].scope, stored |-> call[c].request.route = "proxied",
                             deleted |-> FALSE, by |-> call[c].scope]]
       /\ Answer(c, {a})
  /\ UNCHANGED <<keys, limiter, traffic>>

\* A page of the newest assets below the cursor: one row more than the page is read to
\* know whether there is a next, and the cursor is the last row of the page.
Newest(S, n) == {a \in S : Cardinality({b \in S : b > a}) < n}
Lowest(S) == CHOOSE a \in S : \A b \in S : a <= b
PageSize(limit) == IF limit <= MaxPage THEN limit ELSE MaxPage

\* The cursor taken as the first row of the page instead of the last of the one before
pageInclusive(tenant, cursor, size) == Newest({a \in Visible(tenant) : cursor = 0 \/ a <= cursor}, size)
page(tenant, cursor, size) == Newest({a \in Visible(tenant) : cursor = 0 \/ a < cursor}, size)

\* A page of none with more to come has no last row to take the cursor from.
List(c) ==
  LET size == PageSize(call[c].request.limit)
      read == page(call[c].scope, call[c].request.cursor, size + 1)
      shown == Newest(read, size)
      more == Cardinality(read) > size
  IN  /\ InHandler(c, {"list"})
      /\ IF more /\ shown = {} THEN Throw(c, "TypeError")
         ELSE Advance(c, [at |-> "done", status |-> 200, body |-> shown,
                          next |-> IF more THEN Lowest(shown) ELSE 0,
                          seen |-> Append(call[c].seen, shown)])
      /\ UNCHANGED <<rows, limiter, traffic>>

\* The caller follows the cursor it was given.
NextPage(c) ==
  /\ call[c].at = "done" /\ call[c].request.route = "list" /\ call[c].next # 0
  /\ Enter(c, [call[c].request EXCEPT !.cursor = call[c].next], call[c].seen, call[c].wanted)

CreateKey(c) ==
  /\ InHandler(c, {"createKey"}) /\ ~Malformed(c)
  /\ \E k \in KeyIds \ DOMAIN keys :
       /\ keys' = [j \in DOMAIN keys \cup {k} |->
                     IF j = k THEN [tenant |-> call[c].scope, permissions |-> call[c].request.permissions,
                                    revokedAt |-> Never, by |-> call[c].scope]
                     ELSE keys[j]]
       /\ Answer(c, {k})
  /\ UNCHANGED <<assets, limiter, traffic>>

ListKeys(c) ==
  /\ InHandler(c, {"listKeys"})
  /\ Answer(c, {k \in DOMAIN keys : keys[k].tenant = call[c].scope})
  /\ UNCHANGED <<rows, limiter, traffic>>

\* Revoking without a look at what is there, and keeping the first time
revocable(k) == TRUE
stillValid(k) == keys[k].revokedAt = Never

RevokeRead(c) ==
  LET found == {k \in {Target(c)} \cap DOMAIN keys : keys[k].tenant = call[c].scope}
  IN  /\ InHandler(c, {"revokeKey"})
      /\ CASE found = {} -> Throw(c, "notFound")
           [] found # {} -> IF stillValid(Target(c)) THEN Advance(c, [at |-> "revoke"])
                            ELSE Answer(c, found)
      /\ UNCHANGED <<rows, limiter, traffic>>

\* The time is that of the request that wrote it.
RevokeWrite(c) ==
  /\ call[c].at = "revoke"
  /\ keys' = [keys EXCEPT ![Target(c)] =
                [tenant |-> @.tenant, permissions |-> @.permissions, revokedAt |-> <<c, arrivals>>, by |-> call[c].scope]]
  /\ Answer(c, {Target(c)})
  /\ UNCHANGED <<assets, limiter, traffic>>

\* The workers' callbacks are in no tenant's scope.  Completing and failing move the
\* status, which a deleted asset refuses, and completing an old version is a conflict;
\* the rest answers whatever is asked.
WorkerCall(c) ==
  LET route == call[c].request.route
      moves == route \in {"completeOptimize", "markFailed"}
  IN  /\ call[c].at = "handler" /\ RouteOf(c).guard = "worker" /\ ~Malformed(c)
      /\ \/ /\ moves /\ Target(c) \in DOMAIN assets /\ ~assets[Target(c)].deleted
            /\ assets' = [assets EXCEPT ![Target(c)] = Touched(@, "worker", FALSE, FALSE)]
            /\ Answer(c, {})
         \/ /\ assets' = assets
            /\ CASE ~moves -> Answer(c, {})
                 [] moves /\ Target(c) \notin DOMAIN assets -> Throw(c, "notFound")
                 [] OTHER -> \/ route = "completeOptimize" /\ Throw(c, "conflict")
                             \/ assets[Target(c)].deleted /\ Throw(c, "IllegalStatusTransition")
      /\ UNCHANGED <<keys, limiter, traffic>>

\* Readiness asks database and storage, and says so when one does not answer.
Health(c) ==
  /\ call[c].at = "handler" /\ RouteOf(c).guard = "public"
  /\ \/ Answer(c, {})
     \/ call[c].request.route = "readyz" /\ Throw(c, "unavailable")
  /\ UNCHANGED <<rows, limiter, traffic>>

CallerStep(c) ==
  \/ Arrive(c) \/ NextPage(c) \/ Verify(c) \/ RefuseBody(c) \/ Lookup(c) \/ WriteAsset(c)
  \/ Reread(c) \/ CommitVersion(c) \/ RefuseBytes(c)
  \/ CreateAsset(c) \/ List(c) \/ CreateKey(c) \/ ListKeys(c) \/ RevokeRead(c) \/ RevokeWrite(c)
  \/ WorkerCall(c) \/ Health(c)

ApiNext == \E c \in Callers : CallerStep(c)

\* Time passes for the limiter, and for the record.
ApiTick ==
  /\ counters' = Older(counters)
  /\ recent' = [s \in Sources |-> [a \in 0..(Window - 1) |->
                  IF a = 0 THEN [all |-> 0, mutating |-> 0] ELSE recent[s][a - 1]]]
  /\ UNCHANGED <<rows, call, traffic, arrivals, forgiven>>

---------------------------------------------------------------------------
\* Properties

Total(source, ages, count) == FoldFunctionOnSet(+, 0, [a \in ages |-> recent[source][a][count]], ages)

\* Rows, requests and the limiter's table are of their types; the table never tracks a
\* source twice, nor more sources than its cap (rate-limit.middleware.ts evict).
ApiTypeOK ==
  /\ Len(counters) <= MaxTracked
  /\ \A i, j \in DOMAIN counters : counters[i].source = counters[j].source => i = j
  /\ Tracked(counters) \subseteq Sources
  /\ DOMAIN keys \subseteq KeyIds
  /\ DOMAIN assets \subseteq DOMAIN FirstAssets \cup NewAssets
  /\ \A c \in Callers :
       /\ call[c].at \in {"idle", "verify", "handler", "write", "reread", "commit", "revoke", "done"}
       /\ call[c].status \in {0, 200, 400, 401, 403, 404, 409, 429, 500, 503}
       /\ (call[c].status # 0) <=> (call[c].at = "done")

\* Unless its window was dropped by the cap, a source gets no more requests through in a
\* window than the limits say, and in any stretch as long as a window no more than
\* twice that, since windows are fixed and not sliding (rate-limit.middleware.ts use).
WithinBudget ==
  \A s \in Sources \ forgiven :
    LET ever == 0..(Window - 1)
        now == {a \in ever : \E i \in At(counters, s) : ~Expired(counters[i]) /\ a <= counters[i].age}
    IN  /\ Total(s, now, "all") <= OverallLimit /\ Total(s, now, "mutating") <= MutatingLimit
        /\ Total(s, ever, "all") <= 2 * OverallLimit /\ Total(s, ever, "mutating") <= 2 * MutatingLimit

\* Whatever the interleaving, an asset is written by its own tenant or by a worker, a
\* key is issued and revoked within its tenant, and a caller is shown its own tenant's
\* assets and keys only (tenant-scoped-repository.ts, api-key.service.ts list, revoke).
OwnTenantOnly ==
  /\ \A a \in DOMAIN assets : assets[a].by \in {assets[a].tenant, "worker"}
  /\ \A k \in DOMAIN keys : keys[k].by = keys[k].tenant
  /\ \A c \in Callers : call[c].at = "done" /\ call[c].scope # "" =>
       \A x \in call[c].body :
         IF RouteOf(c).permission = "admin" THEN keys[x].tenant = call[c].scope
         ELSE assets[x].tenant = call[c].scope

\* A request gets past the guard only with a key that exists, has the permission and
\* had not been revoked when the request arrived; one that was being served when its
\* key was revoked may finish (api-key.guard.ts canActivate).
RevokedIsRefused ==
  \A c \in Callers :
    call[c].scope # "" =>
      LET k == call[c].request.credential.key
      IN  /\ call[c].request.credential.genuine /\ k \in DOMAIN keys \ call[c].known
          /\ keys[k].tenant = call[c].scope /\ RouteOf(c).permission \in keys[k].permissions

\* The record of when access was cut is kept: no request that arrived after a
\* revocation moves its time, and none undoes it (api-key.service.ts revoke:
\* "re-revoking keeps the original timestamp").
RevocationTimeStands ==
  [][\A k \in DOMAIN keys :
       keys[k].revokedAt # Never =>
         /\ keys'[k].revokedAt # Never
         /\ keys'[k].revokedAt # keys[k].revokedAt =>
              \E c \in Callers : call[c].at = "revoke" /\ Target(c) = k /\ k \notin call[c].known]_keys

\* A caller who follows the cursors to the end has seen every asset that was there when
\* it set out and still is on exactly one page, though assets come and go between pages
\* (tenant-scoped-repository.ts list).
PagesMissNothing ==
  \A c \in Callers :
    call[c].at = "done" /\ call[c].request.route = "list" /\ call[c].status = 200 /\ call[c].next = 0 =>
      \A a \in call[c].wanted \cap Visible(call[c].scope) :
        Cardinality({n \in DOMAIN call[c].seen : a \in call[c].seen[n]}) = 1
=============================================================================
