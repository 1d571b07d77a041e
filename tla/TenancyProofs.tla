---------------------------- MODULE TenancyProofs ----------------------------
(***************************************************************************)
(* Keys and tenants at the API, for every mix of requests: what gets past  *)
(* the guard, what it may write and be shown, and what a revocation leaves *)
(* behind.                                                                 *)
(*                                                                         *)
(* Handlers act on rows they looked up earlier.  The invariant therefore   *)
(* says what a request in flight still knows of its rows when it acts, and *)
(* rests on rows being only added, never moved to another tenant.          *)
(***************************************************************************)
EXTENDS Host, CountingLemmas

CallFields == {"at", "request", "scope", "known", "status", "body", "next", "seen", "wanted"}

CallsShaped ==
  /\ DOMAIN call = Callers
  /\ \A c \in Callers : DOMAIN call[c] = CallFields

\* A request with a scope came with a key of that scope, valid as it arrived.
Admitted(c) ==
  call[c].scope # "" =>
    LET k == call[c].request.credential.key
    IN  /\ call[c].request.credential.genuine /\ k \in DOMAIN keys \ call[c].known
        /\ keys[k].tenant = call[c].scope /\ RouteOf(c).permission \in keys[k].permissions

\* What it found in its scope is still there when it writes.
FoundAsset(c) ==
  call[c].at \in {"write", "reread"} =>
    /\ Target(c) \in DOMAIN assets /\ assets[Target(c)].tenant = call[c].scope
    /\ call[c].request.route \in Writing

FoundKey(c) ==
  call[c].at = "revoke" =>
    /\ Target(c) \in DOMAIN keys /\ keys[Target(c)].tenant = call[c].scope
    /\ Target(c) \notin call[c].known
    /\ call[c].request.route = "revokeKey"

OnCommittingRoute(c) == call[c].at = "commit" => call[c].request.route \in Committing

\* What it was shown is of its scope.
Shown(c) ==
  call[c].at = "done" /\ call[c].scope # "" =>
    \A x \in call[c].body :
      IF RouteOf(c).permission = "admin" THEN x \in DOMAIN keys /\ keys[x].tenant = call[c].scope
      ELSE x \in DOMAIN assets /\ assets[x].tenant = call[c].scope

CallInv(c) ==
  /\ call[c].known \subseteq revokedKeys
  /\ Admitted(c) /\ FoundAsset(c) /\ FoundKey(c) /\ OnCommittingRoute(c) /\ Shown(c)

RowsOwned ==
  /\ \A a \in DOMAIN assets : assets[a].by \in {assets[a].tenant, "worker"}
  /\ \A k \in DOMAIN keys : keys[k].by = keys[k].tenant

TenancyInv == CallsShaped /\ RowsOwned /\ \A c \in Callers : CallInv(c)

---------------------------------------------------------------------------
(* Routes and rows *)

\* Routes about keys need the admin permission, routes about assets another.
LEMMA RoutePermissions ==
  /\ \A r \in Reading \cup Writing \cup Committing \cup Creating \cup {"list"} : ROUTES[r].permission # "admin"
  /\ \A r \in {"createKey", "listKeys", "revokeKey"} : ROUTES[r].permission = "admin"
  <1>0. /\ DOMAIN AssetRoutes \cap (DOMAIN UploadRoutes \cup DOMAIN KeyRoutes \cup DOMAIN WorkerRoutes \cup DOMAIN HealthRoutes) = {}
        /\ DOMAIN UploadRoutes \cap (DOMAIN KeyRoutes \cup DOMAIN WorkerRoutes \cup DOMAIN HealthRoutes) = {}
        /\ DOMAIN KeyRoutes \cap (DOMAIN WorkerRoutes \cup DOMAIN HealthRoutes) = {}
    BY DEF AssetRoutes, UploadRoutes, KeyRoutes, WorkerRoutes, HealthRoutes
  <1>1. \A r \in DOMAIN AssetRoutes : ROUTES[r] = AssetRoutes[r]
    BY <1>0 DEF ROUTES
  <1>2. \A r \in DOMAIN UploadRoutes : ROUTES[r] = UploadRoutes[r]
    BY <1>0 DEF ROUTES
  <1>3. \A r \in DOMAIN KeyRoutes : ROUTES[r] = KeyRoutes[r]
    BY <1>0 DEF ROUTES
  <1>4. \A r \in {"get", "variants", "reprocess", "update", "remove", "replaceSource", "list"} :
           r \in DOMAIN AssetRoutes /\ AssetRoutes[r].permission # "admin"
    BY DEF AssetRoutes, Route
  <1>5. \A r \in {"completeUpload", "proxied", "createUpload"} :
           r \in DOMAIN UploadRoutes /\ UploadRoutes[r].permission # "admin"
    BY DEF UploadRoutes, Route
  <1>6. \A r \in {"createKey", "listKeys", "revokeKey"} :
           r \in DOMAIN KeyRoutes /\ KeyRoutes[r].permission = "admin"
    BY DEF KeyRoutes, Route
  <1> QED
    BY <1>1, <1>2, <1>3, <1>4, <1>5, <1>6 DEF Reading, Writing, Committing, Creating

\* Rows are only added, and never change hands; what is revoked stays revoked.
KeysKept ==
  \A k \in DOMAIN keys :
    /\ k \in DOMAIN keys'
    /\ keys'[k].tenant = keys[k].tenant /\ keys'[k].permissions = keys[k].permissions
    /\ keys[k].revokedAt # Never => keys'[k].revokedAt # Never

AssetsKept ==
  \A a \in DOMAIN assets : a \in DOMAIN assets' /\ assets'[a].tenant = assets[a].tenant

LEMMA UnchangedKept ==
  /\ UNCHANGED keys => KeysKept
  /\ UNCHANGED assets => AssetsKept
  BY DEF KeysKept, AssetsKept

\* A request that does not move keeps what it knows.
LEMMA CallInvKept ==
  ASSUME KeysKept, AssetsKept, NEW c \in Callers, CallInv(c), call'[c] = call[c]
  PROVE  CallInv(c)'
PROOF
  <1>1. call'[c].known \subseteq revokedKeys'
    BY DEF CallInv, KeysKept, revokedKeys
  <1>2. Admitted(c)'
    BY DEF CallInv, KeysKept, Admitted, RouteOf
  <1>3. FoundAsset(c)'
    BY DEF CallInv, AssetsKept, FoundAsset, Target
  <1>4. FoundKey(c)'
    BY DEF CallInv, KeysKept, FoundKey, Target
  <1>5. Shown(c)'
    BY DEF CallInv, KeysKept, AssetsKept, Shown, RouteOf
  <1>6. OnCommittingRoute(c)'
    BY DEF CallInv, OnCommittingRoute
  <1> QED
    BY <1>1, <1>2, <1>3, <1>4, <1>5, <1>6 DEF CallInv

OnlyMoves(c) ==
  /\ DOMAIN call' = Callers /\ DOMAIN call'[c] = CallFields
  /\ \A d \in Callers : d # c => call'[d] = call[d]

\* One caller moved and is in order, the others kept what they know.
LEMMA OneCallerMoved ==
  ASSUME TenancyInv, KeysKept, AssetsKept, RowsOwned', NEW c \in Callers, OnlyMoves(c), CallInv(c)'
  PROVE  TenancyInv'
  BY CallInvKept DEF TenancyInv, CallsShaped, OnlyMoves

---------------------------------------------------------------------------
(* The ways a handler moves its request on *)

\* Request, key and scope stay; the rest is as stated.
Moved(c, at, body) ==
  /\ call'[c].at = at /\ call'[c].body = body
  /\ call'[c].request = call[c].request /\ call'[c].known = call[c].known

LEMMA AdvanceShape ==
  ASSUME CallsShaped, NEW c \in Callers, NEW STATE changes, Advance(c, changes)
  PROVE  OnlyMoves(c)
  BY DEF CallsShaped, Advance, OnlyMoves

LEMMA AnswerMoves ==
  ASSUME CallsShaped, NEW c \in Callers, NEW STATE body, Answer(c, body)
  PROVE  Moved(c, "done", body) /\ call'[c].scope = call[c].scope
  BY DEF CallsShaped, Advance, Answer, Moved, CallFields

LEMMA ThrowMoves ==
  ASSUME CallsShaped, NEW c \in Callers, NEW STATE error, Throw(c, error)
  PROVE  Moved(c, "done", {}) /\ call'[c].scope = call[c].scope
  BY DEF CallsShaped, Advance, Throw, Moved, CallFields

LEMMA GotoMoves ==
  ASSUME CallsShaped, NEW c \in Callers, NEW STATE label, Advance(c, [at |-> label])
  PROVE  Moved(c, label, call[c].body) /\ call'[c].scope = call[c].scope
  BY DEF CallsShaped, Advance, Moved, CallFields

\* A request answered keeps its promise if what it shows is of its scope.
LEMMA DoneInOrder ==
  ASSUME KeysKept, AssetsKept, NEW c \in Callers, CallInv(c), NEW STATE body,
         Moved(c, "done", body), call'[c].scope = call[c].scope,
         call[c].scope # "" =>
           \A x \in body :
             IF RouteOf(c).permission = "admin" THEN x \in DOMAIN keys' /\ keys'[x].tenant = call[c].scope
             ELSE x \in DOMAIN assets' /\ assets'[x].tenant = call[c].scope
  PROVE  CallInv(c)'
PROOF
  <1>1. call'[c].known \subseteq revokedKeys'
    BY DEF CallInv, KeysKept, revokedKeys, Moved
  <1>2. Admitted(c)'
    BY DEF CallInv, KeysKept, Admitted, RouteOf, Moved
  <1>3. FoundAsset(c)' /\ FoundKey(c)' /\ OnCommittingRoute(c)'
    BY DEF FoundAsset, FoundKey, OnCommittingRoute, Moved
  <1>4. Shown(c)'
    BY DEF Shown, RouteOf, Moved
  <1> QED
    BY <1>1, <1>2, <1>3, <1>4 DEF CallInv

\* A request that goes on must know what its next step rests on.
LEMMA GoesOnInOrder ==
  ASSUME KeysKept, AssetsKept, NEW c \in Callers, CallInv(c), NEW STATE label, NEW STATE body,
         Moved(c, label, body), call'[c].scope = call[c].scope, label # "done",
         label \in {"write", "reread"} =>
           Target(c) \in DOMAIN assets' /\ assets'[Target(c)].tenant = call[c].scope /\ call[c].request.route \in Writing,
         label = "revoke" =>
           /\ Target(c) \in DOMAIN keys' /\ keys'[Target(c)].tenant = call[c].scope
           /\ Target(c) \notin call[c].known /\ call[c].request.route = "revokeKey",
         label = "commit" => call[c].request.route \in Committing
  PROVE  CallInv(c)'
PROOF
  <1>1. call'[c].known \subseteq revokedKeys'
    BY DEF CallInv, KeysKept, revokedKeys, Moved
  <1>2. Admitted(c)'
    BY DEF CallInv, KeysKept, Admitted, RouteOf, Moved
  <1>3. FoundAsset(c)' /\ FoundKey(c)' /\ OnCommittingRoute(c)' /\ Shown(c)'
    BY DEF FoundAsset, FoundKey, OnCommittingRoute, Moved, Target, Shown
  <1> QED
    BY <1>1, <1>2, <1>3 DEF CallInv

---------------------------------------------------------------------------
(* Step by step *)

RowsStay == UNCHANGED rows

LEMMA RowsStayKept ==
  ASSUME TenancyInv, RowsStay
  PROVE  KeysKept /\ AssetsKept /\ RowsOwned'
  BY UnchangedKept DEF TenancyInv, RowsStay, rows, RowsOwned

\* A request that has only just arrived knows nothing that could be wrong.
LEMMA EnterInOrder ==
  ASSUME TenancyInv, NEW c \in Callers, NEW STATE request, NEW STATE seen, NEW STATE wanted,
         Enter(c, request, seen, wanted)
  PROVE  TenancyInv'
PROOF
  <1>1. RowsStay
    BY DEF Enter, RowsStay
  <1>2. OnlyMoves(c) /\ call'[c].scope = "" /\ call'[c].known = revokedKeys
    BY DEF Enter, OnlyMoves, TenancyInv, CallsShaped, CallFields
  <1>3. AtGuard(request).at \in {"done", "handler", "verify"}
    BY DEF AtGuard
  <1>4. call'[c].at \in {"done", "handler", "verify"}
    BY <1>3 DEF Enter, TenancyInv, CallsShaped
  <1>5. revokedKeys' = revokedKeys
    BY <1>1 DEF RowsStay, rows, revokedKeys
  <1>6. CallInv(c)'
    BY <1>2, <1>4, <1>5 DEF CallInv, Admitted, FoundAsset, FoundKey, OnCommittingRoute, Shown
  <1> QED
    BY <1>1, <1>2, <1>6, RowsStayKept, OneCallerMoved

\* A request refused keeps its promises: it shows nothing.
LEMMA ThrowInOrder ==
  ASSUME TenancyInv, NEW c \in Callers, NEW STATE error, Throw(c, error), RowsStay
  PROVE  TenancyInv'
PROOF
  <1>1. OnlyMoves(c)
    BY AdvanceShape DEF Throw, TenancyInv
  <1>2. KeysKept /\ AssetsKept /\ RowsOwned'
    BY RowsStayKept
  <1>3. CallInv(c)'
    BY <1>2, ThrowMoves, DoneInOrder DEF TenancyInv
  <1> QED
    BY <1>1, <1>2, <1>3, OneCallerMoved

\* An answer keeps them if it shows what is of the request's scope.
LEMMA AnswerInOrder ==
  ASSUME TenancyInv, NEW c \in Callers, NEW STATE body, Answer(c, body),
         KeysKept, AssetsKept, RowsOwned',
         call[c].scope # "" =>
           \A x \in body :
             IF RouteOf(c).permission = "admin" THEN x \in DOMAIN keys' /\ keys'[x].tenant = call[c].scope
             ELSE x \in DOMAIN assets' /\ assets'[x].tenant = call[c].scope
  PROVE  TenancyInv'
PROOF
  <1>1. OnlyMoves(c)
    BY AdvanceShape DEF Answer, TenancyInv
  <1>2. CallInv(c)'
    BY AnswerMoves, DoneInOrder DEF TenancyInv
  <1> QED
    BY <1>1, <1>2, OneCallerMoved

\* A step to another label needs what that label rests on.
LEMMA GotoInOrder ==
  ASSUME TenancyInv, NEW c \in Callers, NEW STATE label, Advance(c, [at |-> label]), label # "done",
         KeysKept, AssetsKept, RowsOwned',
         label \in {"write", "reread"} =>
           Target(c) \in DOMAIN assets' /\ assets'[Target(c)].tenant = call[c].scope /\ call[c].request.route \in Writing,
         label = "revoke" =>
           /\ Target(c) \in DOMAIN keys' /\ keys'[Target(c)].tenant = call[c].scope
           /\ Target(c) \notin call[c].known /\ call[c].request.route = "revokeKey",
         label = "commit" => call[c].request.route \in Committing
  PROVE  TenancyInv'
PROOF
  <1>1. OnlyMoves(c)
    BY AdvanceShape DEF TenancyInv
  <1>2. CallInv(c)'
    BY GotoMoves, GoesOnInOrder DEF TenancyInv
  <1> QED
    BY <1>1, <1>2, OneCallerMoved

\* The guard gives a scope only to the holder of a key that is valid now.
LEMMA VerifyInOrder ==
  ASSUME TenancyInv, NEW c \in Callers, Verify(c)
  PROVE  TenancyInv'
PROOF
  <1>1. RowsStay
    BY DEF Verify, RowsStay
  <1>2. ASSUME NEW error, Throw(c, error) PROVE TenancyInv'
    BY <1>1, <1>2, ThrowInOrder
  <1>3. ASSUME NEW k \in verify(call[c].request.credential), RouteOf(c).permission \in keys[k].permissions,
               Advance(c, [at |-> "handler", scope |-> scopeOf(keys[k])])
        PROVE  TenancyInv'
    <2>1. OnlyMoves(c)
      BY <1>3, AdvanceShape DEF TenancyInv
    <2>2. /\ call'[c].at = "handler" /\ call'[c].scope = keys[k].tenant
          /\ call'[c].request = call[c].request /\ call'[c].known = call[c].known
      BY <1>3 DEF Advance, TenancyInv, CallsShaped, CallFields, scopeOf
    <2>3. /\ k = call[c].request.credential.key /\ call[c].request.credential.genuine
          /\ k \in DOMAIN keys /\ k \notin revokedKeys
      BY <1>3 DEF verify, keyIdFromPlaintext, hashesMatch, revokedKeys
    <2>4. keys' = keys /\ revokedKeys' = revokedKeys /\ call[c].known \subseteq revokedKeys
      BY <1>1 DEF RowsStay, rows, revokedKeys, TenancyInv, CallInv
    <2>5. Admitted(c)'
      BY <1>3, <2>2, <2>3, <2>4 DEF Admitted, RouteOf
    <2>6. CallInv(c)'
      BY <2>2, <2>4, <2>5 DEF CallInv, FoundAsset, FoundKey, OnCommittingRoute, Shown
    <2> QED
      BY <1>1, <2>1, <2>6, RowsStayKept, OneCallerMoved
  <1> QED
    BY <1>2, <1>3 DEF Verify

LEMMA LookupInOrder ==
  ASSUME TenancyInv, NEW c \in Callers, Lookup(c)
  PROVE  TenancyInv'
PROOF
  <1> DEFINE route == call[c].request.route
             completes == route = "completeUpload"
             found == findById(Target(c), call[c].scope, completes)
  <1>1. RowsStay /\ KeysKept /\ AssetsKept /\ RowsOwned'
    <2>1. RowsStay
      BY DEF Lookup, RowsStay
    <2> QED
      BY <2>1, RowsStayKept
  <1>2. found = {} \/ (found = {Target(c)} /\ Target(c) \in DOMAIN assets /\ assets[Target(c)].tenant = call[c].scope)
    BY DEF findById
  <1>3. keys' = keys /\ assets' = assets
    BY <1>1 DEF RowsStay, rows
  <1>4. ASSUME NEW error, Throw(c, error) PROVE TenancyInv'
    BY <1>1, <1>4, ThrowInOrder
  <1>5. ASSUME route \in Reading, Answer(c, found), found # {} PROVE TenancyInv'
    <2>1. RouteOf(c).permission # "admin"
      BY <1>5, RoutePermissions DEF RouteOf
    <2> HIDE DEF found
    <2> QED
      BY <1>1, <1>2, <1>3, <1>5, <2>1, AnswerInOrder
  <1>6. ASSUME Advance(c, [at |-> IF route \in Writing THEN "write" ELSE "commit"]), found # {}, route \notin Reading,
               route \in Reading \cup Writing \cup Committing
        PROVE  TenancyInv'
    <2> DEFINE label == IF route \in Writing THEN "write" ELSE "commit"
    <2>1. /\ label # "done" /\ label # "revoke" /\ label # "reread"
          /\ (label = "write" => route \in Writing) /\ (label = "commit" => route \in Committing)
      BY <1>6
    <2>2. Advance(c, [at |-> label])
      BY <1>6
    <2>3. Target(c) \in DOMAIN assets' /\ assets'[Target(c)].tenant = call[c].scope
      BY <1>2, <1>3, <1>6
    <2> HIDE DEF label, found
    <2> QED
      BY <1>1, <2>1, <2>2, <2>3, GotoInOrder
  <1> QED
    BY <1>4, <1>5, <1>6 DEF Lookup, InHandler

\* What a handler writes to an asset it found in its scope stays in that scope.
LEMMA TouchedKept ==
  ASSUME TenancyInv, NEW c \in Callers, NEW a \in DOMAIN assets, NEW stores, NEW removes, NEW writer,
         writer = "worker" \/ (writer = call[c].scope /\ assets[a].tenant = call[c].scope),
         assets' = [assets EXCEPT ![a] = Touched(@, writer, stores, removes)], UNCHANGED keys
  PROVE  KeysKept /\ AssetsKept /\ RowsOwned'
  BY DEF TenancyInv, RowsOwned, KeysKept, AssetsKept, Touched

LEMMA WriteAssetInOrder ==
  ASSUME TenancyInv, NEW c \in Callers, WriteAsset(c)
  PROVE  TenancyInv'
PROOF
  <1>1. /\ Target(c) \in DOMAIN assets /\ assets[Target(c)].tenant = call[c].scope
        /\ call[c].request.route \in Writing
    BY DEF WriteAsset, TenancyInv, CallInv, FoundAsset
  <1>2. KeysKept /\ AssetsKept /\ RowsOwned'
    BY <1>1, TouchedKept DEF WriteAsset
  <1>3. CASE Answer(c, {})
    BY <1>2, <1>3, AnswerInOrder
  <1>4. CASE Advance(c, [at |-> "reread"])
    <2>1. Target(c) \in DOMAIN assets' /\ assets'[Target(c)].tenant = call[c].scope
      BY <1>1, <1>2 DEF AssetsKept
    <2> QED
      BY <1>1, <1>2, <1>4, <2>1, GotoInOrder
  <1> QED
    BY <1>3, <1>4 DEF WriteAsset

LEMMA RereadInOrder ==
  ASSUME TenancyInv, NEW c \in Callers, Reread(c)
  PROVE  TenancyInv'
PROOF
  <1> DEFINE found == findById(Target(c), call[c].scope, FALSE)
  <1>1. RowsStay /\ KeysKept /\ AssetsKept /\ RowsOwned'
    <2>1. RowsStay
      BY DEF Reread, RowsStay
    <2> QED
      BY <2>1, RowsStayKept
  <1>2. RouteOf(c).permission # "admin"
    BY RoutePermissions DEF Reread, TenancyInv, CallInv, FoundAsset, RouteOf
  <1>3. \A x \in found : x \in DOMAIN assets' /\ assets'[x].tenant = call[c].scope
    BY <1>1 DEF findById, RowsStay, rows
  <1>4. CASE Throw(c, "AssetNotFoundError")
    BY <1>1, <1>4, ThrowInOrder
  <1>5. CASE Answer(c, found)
    <2> HIDE DEF found
    <2> QED
      BY <1>1, <1>2, <1>3, <1>5, AnswerInOrder
  <1> QED
    BY <1>4, <1>5 DEF Reread

LEMMA CommitInOrder ==
  ASSUME TenancyInv, NEW c \in Callers, CommitVersion(c)
  PROVE  TenancyInv'
PROOF
  <1>1. UNCHANGED keys
    BY DEF CommitVersion
  <1>2. RouteOf(c).permission # "admin"
    BY RoutePermissions DEF CommitVersion, TenancyInv, CallInv, OnCommittingRoute, RouteOf
  <1>3. ASSUME NEW error, assets' = assets, Throw(c, error) PROVE TenancyInv'
    BY <1>1, <1>3, ThrowInOrder DEF RowsStay, rows
  <1>4. ASSUME findById(Target(c), call[c].scope, TRUE) # {}, Answer(c, {Target(c)}),
               assets' = [assets EXCEPT ![Target(c)] = Touched(@, call[c].scope, TRUE, FALSE)]
        PROVE  TenancyInv'
    <2>1. Target(c) \in DOMAIN assets /\ assets[Target(c)].tenant = call[c].scope
      BY <1>4 DEF findById
    <2>2. KeysKept /\ AssetsKept /\ RowsOwned'
      BY <1>1, <1>4, <2>1, TouchedKept
    <2>3. \A x \in {Target(c)} : x \in DOMAIN assets' /\ assets'[x].tenant = call[c].scope
      BY <2>1, <2>2 DEF AssetsKept
    <2> QED
      BY <1>2, <1>4, <2>2, <2>3, AnswerInOrder
  <1> QED
    BY <1>3, <1>4 DEF CommitVersion

LEMMA CreateAssetInOrder ==
  ASSUME TenancyInv, NEW c \in Callers, CreateAsset(c)
  PROVE  TenancyInv'
PROOF
  <1>1. PICK a \in NewAssets \ DOMAIN assets :
          /\ assets' = [b \in DOMAIN assets \cup {a} |->
                          IF b # a THEN assets[b]
                          ELSE [tenant |-> call[c].scope, stored |-> call[c].request.route = "proxied",
                                deleted |-> FALSE, by |-> call[c].scope]]
          /\ Answer(c, {a})
    BY DEF CreateAsset
  <1>2. UNCHANGED keys
    BY DEF CreateAsset
  <1>3. /\ DOMAIN assets' = DOMAIN assets \cup {a}
        /\ \A b \in DOMAIN assets : assets'[b] = assets[b]
        /\ assets'[a].tenant = call[c].scope /\ assets'[a].by = call[c].scope
    BY <1>1
  <1>4. KeysKept /\ AssetsKept /\ RowsOwned'
    BY <1>2, <1>3 DEF TenancyInv, RowsOwned, KeysKept, AssetsKept
  <1>5. RouteOf(c).permission # "admin"
    BY RoutePermissions DEF CreateAsset, InHandler, RouteOf
  <1> QED
    BY <1>1, <1>3, <1>4, <1>5, AnswerInOrder

LEMMA ListInOrder ==
  ASSUME TenancyInv, NEW c \in Callers, List(c)
  PROVE  TenancyInv'
PROOF
  <1> DEFINE size == PageSize(call[c].request.limit)
             read == page(call[c].scope, call[c].request.cursor, size + 1)
             shown == Newest(read, size)
             more == Cardinality(read) > size
             changes == [at |-> "done", status |-> 200, body |-> shown,
                         next |-> IF more THEN Lowest(shown) ELSE 0, seen |-> Append(call[c].seen, shown)]
  <1>1. RowsStay /\ KeysKept /\ AssetsKept /\ RowsOwned'
    <2>1. RowsStay
      BY DEF List, RowsStay
    <2> QED
      BY <2>1, RowsStayKept
  <1>2. RouteOf(c).permission # "admin"
    BY RoutePermissions DEF List, InHandler, RouteOf
  <1>3. \A x \in shown : x \in DOMAIN assets' /\ assets'[x].tenant = call[c].scope
    BY <1>1 DEF Newest, page, Visible, RowsStay, rows
  <1>4. CASE Throw(c, "TypeError")
    BY <1>1, <1>4, ThrowInOrder
  <1>5. CASE Advance(c, changes)
    <2>1. OnlyMoves(c)
      BY <1>5, AdvanceShape DEF TenancyInv
    <2>2. Moved(c, "done", shown) /\ call'[c].scope = call[c].scope
      <3> HIDE DEF shown, more
      <3> QED
        BY <1>5 DEF TenancyInv, CallsShaped, Advance, Moved, CallFields
    <2>3. CallInv(c)'
      <3> HIDE DEF shown
      <3> QED
        BY <1>1, <1>2, <1>3, <2>2, DoneInOrder DEF TenancyInv
    <2> QED
      BY <1>1, <2>1, <2>3, OneCallerMoved
  <1> QED
    BY <1>4, <1>5 DEF List

LEMMA CreateKeyInOrder ==
  ASSUME TenancyInv, NEW c \in Callers, CreateKey(c)
  PROVE  TenancyInv' /\ KeysKept /\ \A k \in DOMAIN keys : keys'[k] = keys[k]
PROOF
  <1>1. PICK k \in KeyIds \ DOMAIN keys :
          /\ keys' = [j \in DOMAIN keys \cup {k} |->
                        IF j = k THEN [tenant |-> call[c].scope, permissions |-> call[c].request.permissions,
                                       revokedAt |-> Never, by |-> call[c].scope]
                        ELSE keys[j]]
          /\ Answer(c, {k})
    BY DEF CreateKey
  <1>2. UNCHANGED assets
    BY DEF CreateKey
  <1>3. /\ DOMAIN keys' = DOMAIN keys \cup {k}
        /\ \A j \in DOMAIN keys : keys'[j] = keys[j]
        /\ keys'[k].tenant = call[c].scope /\ keys'[k].by = call[c].scope
    BY <1>1
  <1>4. KeysKept /\ AssetsKept /\ RowsOwned'
    BY <1>2, <1>3 DEF TenancyInv, RowsOwned, KeysKept, AssetsKept
  <1>5. RouteOf(c).permission = "admin"
    BY RoutePermissions DEF CreateKey, InHandler, RouteOf
  <1> QED
    BY <1>1, <1>3, <1>4, <1>5, AnswerInOrder

LEMMA ListKeysInOrder ==
  ASSUME TenancyInv, NEW c \in Callers, ListKeys(c)
  PROVE  TenancyInv'
PROOF
  <1> DEFINE found == {k \in DOMAIN keys : keys[k].tenant = call[c].scope}
  <1>1. RowsStay /\ KeysKept /\ AssetsKept /\ RowsOwned'
    <2>1. RowsStay
      BY DEF ListKeys, RowsStay
    <2> QED
      BY <2>1, RowsStayKept
  <1>2. RouteOf(c).permission = "admin"
    BY RoutePermissions DEF ListKeys, InHandler, RouteOf
  <1>3. \A x \in found : x \in DOMAIN keys' /\ keys'[x].tenant = call[c].scope
    BY <1>1 DEF RowsStay, rows
  <1>4. Answer(c, found)
    BY DEF ListKeys
  <1> HIDE DEF found
  <1> QED
    BY <1>1, <1>2, <1>3, <1>4, AnswerInOrder

LEMMA RevokeReadInOrder ==
  ASSUME TenancyInv, NEW c \in Callers, RevokeRead(c)
  PROVE  TenancyInv'
PROOF
  <1> DEFINE found == {k \in {Target(c)} \cap DOMAIN keys : keys[k].tenant = call[c].scope}
  <1>1. RowsStay /\ KeysKept /\ AssetsKept /\ RowsOwned'
    <2>1. RowsStay
      BY DEF RevokeRead, RowsStay
    <2> QED
      BY <2>1, RowsStayKept
  <1>2. call[c].request.route = "revokeKey" /\ RouteOf(c).permission = "admin"
    BY RoutePermissions DEF RevokeRead, InHandler, RouteOf
  <1>3. keys' = keys
    BY <1>1 DEF RowsStay, rows
  <1>4. CASE Throw(c, "notFound")
    BY <1>1, <1>4, ThrowInOrder
  <1>5. CASE Answer(c, found)
    <2>1. \A x \in found : x \in DOMAIN keys' /\ keys'[x].tenant = call[c].scope
      BY <1>3
    <2> HIDE DEF found
    <2> QED
      BY <1>1, <1>2, <1>5, <2>1, AnswerInOrder
  <1>6. ASSUME found # {}, stillValid(Target(c)), Advance(c, [at |-> "revoke"]) PROVE TenancyInv'
    <2>1. Target(c) \in DOMAIN keys /\ keys[Target(c)].tenant = call[c].scope /\ Target(c) \notin revokedKeys
      BY <1>6 DEF stillValid, revokedKeys
    <2>2. Target(c) \notin call[c].known
      BY <2>1 DEF TenancyInv, CallInv
    <2> QED
      BY <1>1, <1>2, <1>3, <1>6, <2>1, <2>2, GotoInOrder
  <1> QED
    BY <1>4, <1>5, <1>6 DEF RevokeRead

\* The write of a revocation: the one step that changes a key.
LEMMA RevokeWriteInOrder ==
  ASSUME TenancyInv, NEW c \in Callers, RevokeWrite(c)
  PROVE  /\ TenancyInv' /\ KeysKept
         /\ call[c].at = "revoke" /\ Target(c) \notin call[c].known
         /\ \A k \in DOMAIN keys : k # Target(c) => keys'[k] = keys[k]
PROOF
  <1> DEFINE time == <<c, arrivals>>
  <1>1. /\ call[c].at = "revoke" /\ Target(c) \in DOMAIN keys /\ keys[Target(c)].tenant = call[c].scope
        /\ Target(c) \notin call[c].known /\ call[c].request.route = "revokeKey"
    BY DEF RevokeWrite, TenancyInv, CallInv, FoundKey
  <1>2. time # Never
    BY DEF Never
  <1> HIDE DEF time
  <1>3. /\ DOMAIN keys' = DOMAIN keys
        /\ \A k \in DOMAIN keys : k # Target(c) => keys'[k] = keys[k]
        /\ keys'[Target(c)] = [tenant |-> keys[Target(c)].tenant, permissions |-> keys[Target(c)].permissions,
                               revokedAt |-> time, by |-> call[c].scope]
    BY <1>1 DEF RevokeWrite, time
  <1>4. KeysKept /\ RowsOwned' /\ AssetsKept
    BY <1>1, <1>2, <1>3, UnchangedKept DEF RevokeWrite, KeysKept, TenancyInv, RowsOwned
  <1>5. RouteOf(c).permission = "admin"
    BY <1>1, RoutePermissions DEF RouteOf
  <1>6. \A x \in {Target(c)} : x \in DOMAIN keys' /\ keys'[x].tenant = call[c].scope
    BY <1>1, <1>3
  <1>7. Answer(c, {Target(c)})
    BY DEF RevokeWrite
  <1> QED
    BY <1>1, <1>3, <1>4, <1>5, <1>6, <1>7, AnswerInOrder

LEMMA WorkerCallInOrder ==
  ASSUME TenancyInv, NEW c \in Callers, WorkerCall(c)
  PROVE  TenancyInv'
PROOF
  <1>1. UNCHANGED keys
    BY DEF WorkerCall
  <1>2. ASSUME Target(c) \in DOMAIN assets, Answer(c, {}),
               assets' = [assets EXCEPT ![Target(c)] = Touched(@, "worker", FALSE, FALSE)]
        PROVE  TenancyInv'
    <2>1. KeysKept /\ AssetsKept /\ RowsOwned'
      BY <1>1, <1>2, TouchedKept
    <2> QED
      BY <1>2, <2>1, AnswerInOrder
  <1>3. ASSUME assets' = assets, Answer(c, {}) PROVE TenancyInv'
    BY <1>1, <1>3, RowsStayKept, AnswerInOrder DEF RowsStay, rows
  <1>4. ASSUME assets' = assets, NEW error, Throw(c, error) PROVE TenancyInv'
    BY <1>1, <1>4, ThrowInOrder DEF RowsStay, rows
  <1> QED
    BY <1>2, <1>3, <1>4 DEF WorkerCall

---------------------------------------------------------------------------
(* The host *)

LEMMA CallerStepInOrder ==
  ASSUME TenancyInv, NEW c \in Callers, CallerStep(c)
  PROVE  TenancyInv'
PROOF
  <1>1. CASE Arrive(c) \/ NextPage(c)
    BY <1>1, EnterInOrder DEF Arrive, NextPage
  <1>2. CASE RefuseBody(c) \/ RefuseBytes(c)
    BY <1>2, ThrowInOrder DEF RefuseBody, RefuseBytes, RowsStay
  <1>3. CASE Health(c)
    <2>1. RowsStay
      BY <1>3 DEF Health, RowsStay
    <2>2. Answer(c, {}) \/ Throw(c, "unavailable")
      BY <1>3 DEF Health
    <2> QED
      BY <2>1, <2>2, RowsStayKept, ThrowInOrder, AnswerInOrder
  <1> QED
    BY <1>1, <1>2, <1>3, VerifyInOrder, LookupInOrder, WriteAssetInOrder, RereadInOrder, CommitInOrder,
       CreateAssetInOrder, ListInOrder, CreateKeyInOrder, ListKeysInOrder, RevokeReadInOrder,
       RevokeWriteInOrder, WorkerCallInOrder
    DEF CallerStep

LEMMA TenancyInvUnchanged ==
  ASSUME TenancyInv, UNCHANGED <<keys, assets, call>>
  PROVE  TenancyInv'
PROOF
  <1>1. KeysKept /\ AssetsKept
    BY UnchangedKept
  <1>2. \A c \in Callers : CallInv(c)'
    BY <1>1, CallInvKept DEF TenancyInv
  <1> QED
    BY <1>2 DEF TenancyInv, CallsShaped, RowsOwned

\* The steps that touch keys, assets or requests are the callers'.
LEMMA HostSteps ==
  ASSUME [Next]_vars
  PROVE  (\E c \in Callers : CallerStep(c)) \/ UNCHANGED <<keys, assets, call>>
  BY DEF Next, vars, apiVars, ApiNext, Tick, ApiTick, rows

LEMMA TenancyInvInductive ==
  /\ Init => TenancyInv
  /\ TenancyInv /\ [Next]_vars => TenancyInv'
PROOF
  <1>1. Init => TenancyInv
    <2> SUFFICES ASSUME ApiInit PROVE TenancyInv
      BY DEF Init
    <2>1. \A c \in Callers : call[c] = Idle
      BY DEF ApiInit
    <2>2. CallsShaped
      BY <2>1 DEF ApiInit, CallsShaped, Idle, CallFields
    <2>3. RowsOwned
      BY DEF ApiInit, RowsOwned
    <2>4. \A c \in Callers : CallInv(c)
      <3>1. Idle.known = {} /\ Idle.scope = "" /\ Idle.at = "idle"
        BY DEF Idle
      <3> QED
        BY <2>1, <3>1 DEF CallInv, Admitted, FoundAsset, FoundKey, OnCommittingRoute, Shown
    <2> QED
      BY <2>2, <2>3, <2>4 DEF TenancyInv
  <1>2. TenancyInv /\ [Next]_vars => TenancyInv'
    BY HostSteps, CallerStepInOrder, TenancyInvUnchanged
  <1> QED
    BY <1>1, <1>2

\* For any requests in any interleaving: assets and keys are written within their
\* tenant or by a worker, and callers are shown their own (tenant-scoped-repository.ts,
\* api-key.service.ts).
THEOREM OwnTenantOnlyCorrect == Spec => []OwnTenantOnly
PROOF
  <1>1. TenancyInv => OwnTenantOnly
    BY DEF TenancyInv, RowsOwned, CallInv, Shown, OwnTenantOnly
  <1> QED
    BY <1>1, TenancyInvInductive, PTL DEF Spec

\* For any keys and any interleaving of issuing, revoking and presenting them: what got
\* past the guard came with a genuine key, permitted, of its scope, and not revoked when
\* it arrived (api-key.guard.ts canActivate).
THEOREM RevokedIsRefusedCorrect == Spec => []RevokedIsRefused
PROOF
  <1>1. TenancyInv => RevokedIsRefused
    BY DEF TenancyInv, CallInv, Admitted, RevokedIsRefused
  <1> QED
    BY <1>1, TenancyInvInductive, PTL DEF Spec

\* A revocation is never undone, and only a request under way since before it can move
\* its time (api-key.service.ts revoke).
THEOREM RevocationTimeStandsCorrect == Spec => RevocationTimeStands
PROOF
  <1> DEFINE Stands ==
        \A k \in DOMAIN keys :
          keys[k].revokedAt # Never =>
            /\ keys'[k].revokedAt # Never
            /\ keys'[k].revokedAt # keys[k].revokedAt =>
                 \E c \in Callers : call[c].at = "revoke" /\ Target(c) = k /\ k \notin call[c].known
  <1>1. TenancyInv /\ [Next]_vars => [Stands]_keys
    <2> SUFFICES ASSUME TenancyInv, [Next]_vars, keys' # keys PROVE Stands
      OBVIOUS
    <2>1. PICK c \in Callers : CallerStep(c)
      BY HostSteps
    <2>2. CASE CreateKey(c)
      BY <2>2, CreateKeyInOrder
    <2>3. CASE RevokeWrite(c)
      BY <2>3, RevokeWriteInOrder DEF KeysKept
    <2> QED
      BY <2>1, <2>2, <2>3
      DEF CallerStep, Arrive, NextPage, Enter, Verify, RefuseBody, Lookup, WriteAsset, Reread, CommitVersion,
          RefuseBytes, CreateAsset, List, ListKeys, RevokeRead, WorkerCall, Health, rows
  <1> QED
    BY <1>1, TenancyInvInductive, PTL DEF Spec, RevocationTimeStands

---------------------------------------------------------------------------
(* Pages.  A page is the newest part of what is below the cursor, so that   *)
(* what lies above its last row has been shown and the rest has not.        *)

\* The newest are the upper end of the set they are taken from.
LEMMA NewestIsUpperEnd ==
  ASSUME NEW S, IsFiniteSet(S), S \subseteq Nat, NEW n \in Nat, NEW a \in Newest(S, n), NEW b \in S, a <= b
  PROVE  b \in Newest(S, n)
PROOF
  <1> DEFINE A == {x \in S : x > a}
             B == {x \in S : x > b}
  <1>0. a \in S
    BY DEF Newest
  <1>1. B \subseteq A /\ A \subseteq S
    <2>1. \A x \in S : x > b => x > a
      BY <1>0
    <2> QED
      BY <2>1
  <1>2. Cardinality(A) \in Nat /\ Cardinality(B) \in Nat /\ Cardinality(B) <= Cardinality(A)
    <2> HIDE DEF A, B
    <2>1. IsFiniteSet(A)
      BY <1>1, FS_Subset
    <2> QED
      BY <1>1, <2>1, FS_Subset, FS_CardinalityType
  <1>3. Cardinality(A) < n
    BY DEF Newest
  <1>4. Cardinality(B) < n
    <2> HIDE DEF A, B
    <2> QED
      BY <1>2, <1>3
  <1> QED
    BY <1>4 DEF Newest

\* Asked for one more than it holds, a set has no more to give: all of it was read.
LEMMA NewestHasAll ==
  ASSUME NEW S, IsFiniteSet(S), S \subseteq Nat, NEW n \in Nat, Cardinality(Newest(S, n + 1)) <= n
  PROVE  Newest(S, n + 1) = S
PROOF
  <1> DEFINE N == Newest(S, n + 1)
  <1>1. N \subseteq S /\ IsFiniteSet(N) /\ IsFiniteSet(S \ N)
    BY FS_Subset DEF Newest
  <1>2. SUFFICES ASSUME S \ N # {} PROVE FALSE
    BY <1>1
  <1>3. PICK a \in S \ N : \A b \in S \ N : b <= a
    <2> HIDE DEF N
    <2> DEFINE T == S \ N
    <2>1. T \subseteq Int /\ IsFiniteSet(T) /\ T # {}
      BY <1>1, <1>2
    <2> HIDE DEF T
    <2>2. \E a \in T : \A b \in T : b <= a
      BY <2>1, GreatestMember
    <2> QED
      BY <2>2 DEF T
  <1> DEFINE A == {b \in S : b > a}
  <1>4. A \subseteq N
    <2> HIDE DEF N
    <2>1. \A x \in S \ N : ~(x > a)
      BY <1>3
    <2> QED
      BY <2>1
  <1>5. Cardinality(A) \in Nat /\ Cardinality(N) \in Nat /\ Cardinality(A) <= Cardinality(N)
    <2> HIDE DEF A, N
    <2>1. IsFiniteSet(A) /\ Cardinality(A) <= Cardinality(N)
      BY <1>1, <1>4, FS_Subset
    <2> QED
      BY <1>1, <2>1, FS_CardinalityType
  <1>6. ~(Cardinality(A) < n + 1)
    BY <1>3 DEF Newest
  <1>7. Cardinality(N) <= n
    OBVIOUS
  <1> HIDE DEF N, A
  <1> QED
    BY <1>5, <1>6, <1>7

\* A set no larger than the page is shown whole.
LEMMA NewestShowsAll ==
  ASSUME NEW S, IsFiniteSet(S), S \subseteq Nat, NEW n \in Nat, Cardinality(S) <= n
  PROVE  Newest(S, n) = S
PROOF
  <1> SUFFICES ASSUME NEW a \in S PROVE a \in Newest(S, n)
    BY DEF Newest
  <1> DEFINE A == {b \in S : b > a}
  <1>1. A \subseteq S \ {a}
    OBVIOUS
  <1>2. Cardinality(A) <= Cardinality(S \ {a}) /\ Cardinality(A) \in Nat
    <2> HIDE DEF A
    <2> QED
      BY <1>1, FS_Subset, FS_RemoveElement, FS_CardinalityType
  <1>3. Cardinality(S \ {a}) = Cardinality(S) - 1 /\ Cardinality(S) \in Nat
    BY FS_RemoveElement, FS_CardinalityType
  <1>4. Cardinality(A) < n
    <2> HIDE DEF A
    <2> QED
      BY <1>2, <1>3
  <1> QED
    BY <1>4 DEF Newest

LEMMA LowestIsLeast ==
  ASSUME NEW S, S \subseteq Nat, S # {}
  PROVE  Lowest(S) \in S /\ \A b \in S : Lowest(S) <= b
  BY LeastNatural DEF Lowest

OnPages(c, a) == {n \in DOMAIN call[c].seen : a \in call[c].seen[n]}
OnNone(c, a) == OnPages(c, a) = {}
OnOne(c, a) == \E n : OnPages(c, a) = {n}

\* Before a page is read the cursor parts what has been shown from what has not; after
\* it the next cursor does.
ShownAbove(c, a) ==
  IF call[c].at = "done"
  THEN call[c].status = 200 =>
         IF call[c].next # 0 /\ a < call[c].next THEN OnNone(c, a) ELSE OnOne(c, a)
  ELSE IF call[c].request.cursor = 0 \/ a < call[c].request.cursor THEN OnNone(c, a) ELSE OnOne(c, a)

\* What a caller of a listing ought to see is in the scope its key stands for.
Wanted(c, a) ==
  LET key == call[c].request.credential.key
  IN  /\ call[c].at \in {"verify", "handler", "done"} /\ call[c].request.route = "list"
      /\ a \in DOMAIN assets /\ key \in DOMAIN keys /\ assets[a].tenant = keys[key].tenant
      /\ call[c].at = "handler" => call[c].scope = keys[key].tenant
      /\ ~assets[a].deleted => ShownAbove(c, a)

ListingInv(c) ==
  /\ call[c].next \in Nat /\ call[c].seen \in Seq(SUBSET Nat)
  /\ call[c].next # 0 => call[c].at = "done" /\ call[c].status = 200
  /\ call[c].at # "idle" =>
       /\ RequestFields \subseteq DOMAIN call[c].request
       /\ call[c].request.route = "list" => call[c].request.limit \in Nat /\ call[c].request.cursor \in Nat
  /\ \A a \in call[c].wanted : Wanted(c, a)

PagesInv ==
  /\ DOMAIN assets \subseteq Nat \ {0} /\ IsFiniteSet(DOMAIN assets)
  /\ traffic \in Traffic
  /\ \A c \in Callers : ListingInv(c)

\* Rows are added one at a time, and never restored.
AssetsGrow ==
  /\ DOMAIN assets' = DOMAIN assets \/ \E a \in NewAssets : DOMAIN assets' = DOMAIN assets \cup {a}
  /\ \A a \in DOMAIN assets : assets[a].deleted => assets'[a].deleted

LEMMA CallersOnlyAdd ==
  ASSUME TenancyInv, NEW c \in Callers, CallerStep(c)
  PROVE  KeysKept /\ AssetsKept /\ AssetsGrow
PROOF
  <1>0. UNCHANGED rows => KeysKept /\ AssetsKept /\ AssetsGrow
    BY UnchangedKept DEF rows, AssetsGrow
  <1>1. CASE UNCHANGED rows
    BY <1>0, <1>1
  <1>t. ASSUME NEW a, NEW stores, NEW removes, NEW writer, UNCHANGED keys,
               assets' = [assets EXCEPT ![a] = Touched(@, writer, stores, removes)]
        PROVE  KeysKept /\ AssetsKept /\ AssetsGrow
    BY <1>t, UnchangedKept DEF AssetsKept, AssetsGrow, Touched
  <1>2. CASE WriteAsset(c)
    <2> DEFINE removes == call[c].request.route = "remove"
    <2>1. UNCHANGED keys /\ assets' = [assets EXCEPT ![Target(c)] = Touched(@, call[c].scope, FALSE, removes)]
      BY <1>2 DEF WriteAsset
    <2> HIDE DEF removes
    <2> QED
      BY <2>1, <1>t
  <1>3. CASE CommitVersion(c)
    BY <1>3, <1>t, <1>0 DEF CommitVersion, rows
  <1>4. CASE WorkerCall(c)
    <2>1. UNCHANGED keys /\ (UNCHANGED assets \/ assets' = [assets EXCEPT ![Target(c)] = Touched(@, "worker", FALSE, FALSE)])
      BY <1>4 DEF WorkerCall
    <2>2. CASE UNCHANGED assets
      BY <1>0, <2>1, <2>2 DEF rows
    <2>3. CASE assets' = [assets EXCEPT ![Target(c)] = Touched(@, "worker", FALSE, FALSE)]
      BY <1>t, <2>1, <2>3
    <2> QED
      BY <2>1, <2>2, <2>3
  <1>5. CASE CreateAsset(c)
    <2>1. PICK a \in NewAssets \ DOMAIN assets :
            assets' = [b \in DOMAIN assets \cup {a} |->
                         IF b # a THEN assets[b]
                         ELSE [tenant |-> call[c].scope, stored |-> call[c].request.route = "proxied",
                               deleted |-> FALSE, by |-> call[c].scope]]
      BY <1>5 DEF CreateAsset
    <2>2. DOMAIN assets' = DOMAIN assets \cup {a} /\ \A b \in DOMAIN assets : assets'[b] = assets[b]
      BY <2>1
    <2> QED
      BY <1>5, <2>2, UnchangedKept DEF CreateAsset, AssetsKept, AssetsGrow
  <1>6. CASE CreateKey(c)
    BY <1>6, CreateKeyInOrder, UnchangedKept DEF CreateKey, AssetsGrow
  <1>7. CASE RevokeWrite(c)
    BY <1>7, RevokeWriteInOrder, UnchangedKept DEF RevokeWrite, AssetsGrow
  <1> QED
    BY <1>1, <1>2, <1>3, <1>4, <1>5, <1>6, <1>7
    DEF CallerStep, Arrive, NextPage, Enter, Verify, RefuseBody, Lookup, Reread,
        RefuseBytes, List, ListKeys, RevokeRead, Health

\* A listing that does not move keeps its place, whatever the others add or delete.
LEMMA ListingKept ==
  ASSUME KeysKept, AssetsKept, AssetsGrow, NEW c \in Callers, ListingInv(c), call'[c] = call[c]
  PROVE  ListingInv(c)'
PROOF
  <1> SUFFICES ASSUME NEW a \in call[c].wanted PROVE Wanted(c, a)'
    BY DEF ListingInv
  <1>1. Wanted(c, a)
    BY DEF ListingInv
  <1>2. ShownAbove(c, a) => ShownAbove(c, a)'
    BY DEF ShownAbove, OnNone, OnOne, OnPages
  <1> QED
    BY <1>1, <1>2 DEF Wanted, KeysKept, AssetsKept, AssetsGrow

\* A handler's answer, its refusal and its going on leave the caller's place alone.
Onward(c) ==
  \/ \E body : Answer(c, body)
  \/ \E error : Throw(c, error)
  \/ \E label \in {"write", "reread", "commit", "revoke"} : Advance(c, [at |-> label])

LEMMA OnwardKeepsPlace ==
  ASSUME CallsShaped, NEW c \in Callers, Onward(c), ListingInv(c),
         call[c].wanted = {}, call[c].at \notin {"idle", "done"}
  PROVE  ListingInv(c)' /\ OnlyMoves(c)
PROOF
  <1> DEFINE InPlace == /\ call'[c].request = call[c].request /\ call'[c].seen = call[c].seen
                        /\ call'[c].wanted = call[c].wanted /\ call'[c].next = call[c].next
  <1>1. OnlyMoves(c)
    BY AdvanceShape DEF Onward, Answer, Throw
  <1>2. InPlace
    <2>1. ASSUME NEW changes, Advance(c, changes), DOMAIN changes \subseteq {"at", "status", "body"}
          PROVE  InPlace
      BY <2>1 DEF Advance, CallsShaped, CallFields
    <2>2. ASSUME NEW body, Answer(c, body) PROVE InPlace
      BY <2>1, <2>2 DEF Answer
    <2>3. ASSUME NEW error, Throw(c, error) PROVE InPlace
      BY <2>1, <2>3 DEF Throw
    <2>4. ASSUME NEW label, Advance(c, [at |-> label]) PROVE InPlace
      BY <2>1, <2>4
    <2> QED
      BY <2>2, <2>3, <2>4 DEF Onward
  <1> QED
    BY <1>1, <1>2 DEF ListingInv

LEMMA ListRoute == ROUTES["list"].guard = "key" /\ "list" \notin Checked
PROOF
  <1>1. "list" \in DOMAIN AssetRoutes
        /\ "list" \notin DOMAIN UploadRoutes \cup DOMAIN KeyRoutes \cup DOMAIN WorkerRoutes \cup DOMAIN HealthRoutes
    BY DEF AssetRoutes, UploadRoutes, KeyRoutes, WorkerRoutes, HealthRoutes
  <1>2. ROUTES["list"] = AssetRoutes["list"]
    BY <1>1 DEF ROUTES
  <1>3. AssetRoutes["list"].guard = "key"
    BY DEF AssetRoutes, Route
  <1> QED
    BY <1>2, <1>3 DEF Checked

\* The steps of other routes, which no listing takes.
LEMMA OtherStepsGoOnward ==
  ASSUME NEW c \in Callers, ListingInv(c),
         \/ RefuseBody(c) \/ Lookup(c) \/ WriteAsset(c) \/ Reread(c) \/ CommitVersion(c) \/ RefuseBytes(c)
         \/ CreateAsset(c) \/ CreateKey(c) \/ ListKeys(c) \/ RevokeRead(c) \/ RevokeWrite(c)
         \/ WorkerCall(c) \/ Health(c)
  PROVE  Onward(c) /\ call[c].wanted = {} /\ call[c].at \notin {"idle", "done"}
PROOF
  <1>1. ASSUME NEW a \in call[c].wanted
        PROVE  call[c].at \in {"verify", "handler", "done"} /\ call[c].request.route = "list"
    BY <1>1 DEF ListingInv, Wanted
  <1>2. CASE RefuseBody(c)
    BY <1>1, <1>2, ListRoute DEF RefuseBody, Malformed, Onward
  <1>3. CASE Lookup(c)
    BY <1>1, <1>3 DEF Lookup, InHandler, Reading, Writing, Committing, Onward
  <1>4. CASE WriteAsset(c) \/ Reread(c) \/ CommitVersion(c) \/ RefuseBytes(c) \/ RevokeWrite(c)
    BY <1>1, <1>4 DEF WriteAsset, Reread, CommitVersion, RefuseBytes, RevokeWrite, Onward
  <1>5. CASE CreateAsset(c) \/ CreateKey(c) \/ ListKeys(c) \/ RevokeRead(c)
    BY <1>1, <1>5 DEF CreateAsset, CreateKey, ListKeys, RevokeRead, InHandler, Creating, Onward
  <1>6. CASE WorkerCall(c) \/ Health(c)
    BY <1>1, <1>6, ListRoute DEF WorkerCall, Health, RouteOf, Onward
  <1> QED
    BY <1>2, <1>3, <1>4, <1>5, <1>6

\* What a caller seeks as it sends a request, and what it has seen of that before.
Sought(request, seen, a) ==
  LET on == {n \in DOMAIN seen : a \in seen[n]}
  IN  /\ request.route = "list"
      /\ a \in DOMAIN assets /\ request.credential.key \in DOMAIN keys
      /\ assets[a].tenant = keys[request.credential.key].tenant
      /\ ~assets[a].deleted => IF request.cursor = 0 \/ a < request.cursor THEN on = {} ELSE \E n : on = {n}

\* A request that arrives is refused or goes on to have its key looked at.
LEMMA EnterKeepsPlace ==
  ASSUME TenancyInv, NEW c \in Callers, NEW STATE request, NEW STATE seen, NEW STATE wanted,
         Enter(c, request, seen, wanted), seen \in Seq(SUBSET Nat),
         RequestFields \subseteq DOMAIN request,
         request.route = "list" => request.limit \in Nat /\ request.cursor \in Nat,
         \A a \in wanted : Sought(request, seen, a)
  PROVE  ListingInv(c)'
PROOF
  <1> DEFINE gate == AtGuard(request)
             refused == Refused(counters, request.source, ROUTES[request.route].mutating)
  <1>1. UNCHANGED rows
    BY DEF Enter
  <1>2. /\ call'[c].request = request /\ call'[c].seen = seen /\ call'[c].wanted = wanted /\ call'[c].next = 0
        /\ call'[c].at = IF refused THEN "done" ELSE gate.at
        /\ call'[c].status = IF refused THEN 429 ELSE gate.status
    <2> HIDE DEF gate, refused
    <2> QED
      BY DEF Enter, TenancyInv, CallsShaped, gate, refused
  <1>3. gate.at \in {"verify", "handler", "done"}
        /\ (request.route = "list" => gate.at = "verify" \/ (gate.at = "done" /\ gate.status # 200))
    BY ListRoute DEF AtGuard, statusOf, ApiError
  <1> HIDE DEF gate, refused
  <1>4. call'[c].at \in {"verify", "handler", "done"}
        /\ (request.route = "list" => call'[c].at = "verify" \/ (call'[c].at = "done" /\ call'[c].status # 200))
    BY <1>2, <1>3
  <1>5. ASSUME NEW a \in wanted PROVE Wanted(c, a)'
    <2>1. ShownAbove(c, a)' \/ assets[a].deleted
      BY <1>2, <1>4, <1>5 DEF Sought, ShownAbove, OnNone, OnOne, OnPages
    <2> QED
      BY <1>1, <1>2, <1>4, <1>5, <2>1 DEF Sought, Wanted, rows
  <1> QED
    BY <1>2, <1>4, <1>5 DEF ListingInv

LEMMA ArriveKeepsPlace ==
  ASSUME TenancyInv, PagesInv, NEW c \in Callers, Arrive(c)
  PROVE  ListingInv(c)'
PROOF
  <1>1. PICK request \in traffic.requests :
          Enter(c, request, <<>>,
                IF request.route = "list" THEN UNION {Visible(keys[k].tenant) : k \in extractKey(request.credential) \cap DOMAIN keys}
                ELSE {})
    BY DEF Arrive
  <1> DEFINE wanted == IF request.route = "list"
                       THEN UNION {Visible(keys[k].tenant) : k \in extractKey(request.credential) \cap DOMAIN keys} ELSE {}
  <1>2. /\ RequestFields \subseteq DOMAIN request
        /\ request.route = "list" => request.limit \in Nat /\ request.cursor = 0
    BY RequestsSetOut DEF PagesInv
  <1> DEFINE none == <<>>
  <1>3. ASSUME NEW a \in wanted PROVE Sought(request, none, a)
    BY <1>2, <1>3 DEF Sought, Visible, extractKey
  <1>4. Enter(c, request, none, wanted)
    BY <1>1
  <1>5. none \in Seq(SUBSET Nat)
    OBVIOUS
  <1>6. request.route = "list" => request.limit \in Nat /\ request.cursor \in Nat
    BY <1>2
  <1> HIDE DEF wanted, none
  <1> QED
    BY <1>2, <1>3, <1>4, <1>5, <1>6, EnterKeepsPlace

LEMMA NextPageKeepsPlace ==
  ASSUME TenancyInv, PagesInv, NEW c \in Callers, NextPage(c)
  PROVE  ListingInv(c)'
PROOF
  <1> DEFINE request == [call[c].request EXCEPT !.cursor = call[c].next]
  <1>1. /\ call[c].at = "done" /\ call[c].status = 200 /\ call[c].next # 0 /\ call[c].next \in Nat
        /\ call[c].request.route = "list"
        /\ ListingInv(c)
    BY DEF NextPage, PagesInv, ListingInv
  <1>2. /\ RequestFields \subseteq DOMAIN call[c].request /\ call[c].request.limit \in Nat
        /\ call[c].seen \in Seq(SUBSET Nat)
    BY <1>1 DEF ListingInv
  <1>3. /\ DOMAIN request = DOMAIN call[c].request
        /\ request.cursor = call[c].next /\ request.route = "list" /\ request.limit = call[c].request.limit
        /\ request.credential = call[c].request.credential
    BY <1>1, <1>2 DEF RequestFields
  <1>4. Enter(c, request, call[c].seen, call[c].wanted)
    BY DEF NextPage
  <1> HIDE DEF request
  <1>5. ASSUME NEW a \in call[c].wanted PROVE Sought(request, call[c].seen, a)
    <2>1. Wanted(c, a)
      BY <1>1, <1>5 DEF ListingInv
    <2> QED
      BY <1>1, <1>3, <2>1 DEF Sought, Wanted, ShownAbove, OnNone, OnOne, OnPages
  <1> QED
    BY <1>1, <1>2, <1>3, <1>4, <1>5, EnterKeepsPlace

\* A listing refused ends there.
LEMMA ThrowKeepsPlace ==
  ASSUME CallsShaped, NEW c \in Callers, NEW STATE error, Throw(c, error), statusOf(error) # 200,
         UNCHANGED rows, ListingInv(c), call[c].at \in {"verify", "handler"}
  PROVE  ListingInv(c)'
PROOF
  <1> DEFINE status == statusOf(error)
  <1>1. /\ call'[c].request = call[c].request /\ call'[c].seen = call[c].seen
        /\ call'[c].wanted = call[c].wanted /\ call'[c].next = call[c].next
        /\ call'[c].at = "done" /\ call'[c].status = status
    <2> HIDE DEF status
    <2> QED
      BY DEF Throw, Advance, CallsShaped, CallFields, status
  <1>2. call[c].next = 0 /\ status # 200
    BY DEF ListingInv
  <1> HIDE DEF status
  <1>3. ASSUME NEW a \in call[c].wanted PROVE Wanted(c, a)'
    BY <1>1, <1>2, <1>3 DEF ListingInv, Wanted, ShownAbove, rows
  <1> QED
    BY <1>1, <1>2, <1>3 DEF ListingInv

LEMMA VerifyKeepsPlace ==
  ASSUME CallsShaped, NEW c \in Callers, Verify(c), ListingInv(c)
  PROVE  ListingInv(c)'
PROOF
  <1>1. call[c].at = "verify" /\ UNCHANGED rows
    BY DEF Verify
  <1>2. statusOf("unauthorized") = 401 /\ statusOf("forbidden") = 403
    BY DEF statusOf, ApiError
  <1>3. CASE Throw(c, "unauthorized") \/ Throw(c, "forbidden")
    BY <1>1, <1>2, <1>3, ThrowKeepsPlace
  <1>4. ASSUME NEW k \in verify(call[c].request.credential),
               Advance(c, [at |-> "handler", scope |-> scopeOf(keys[k])])
        PROVE  ListingInv(c)'
    <2>1. /\ call'[c].request = call[c].request /\ call'[c].seen = call[c].seen
          /\ call'[c].wanted = call[c].wanted /\ call'[c].next = call[c].next
          /\ call'[c].at = "handler" /\ call'[c].scope = keys[k].tenant
      BY <1>4 DEF Advance, CallsShaped, CallFields, scopeOf
    <2>2. k = call[c].request.credential.key
      BY <1>4 DEF verify, keyIdFromPlaintext
    <2>3. ASSUME NEW a \in call[c].wanted PROVE Wanted(c, a)'
      <3>1. ShownAbove(c, a) => ShownAbove(c, a)'
        BY <1>1, <2>1 DEF ShownAbove, OnNone, OnOne, OnPages
      <3> QED
        BY <1>1, <2>1, <2>2, <2>3, <3>1 DEF ListingInv, Wanted, rows
    <2> QED
      BY <1>1, <2>1, <2>3 DEF ListingInv
  <1> QED
    BY <1>3, <1>4 DEF Verify

\* A page shown: what was below the cursor and is not below the next one is on it.
LEMMA ListKeepsPlace ==
  ASSUME CallsShaped, PagesInv, NEW c \in Callers, List(c)
  PROVE  ListingInv(c)'
PROOF
  <1> DEFINE size == PageSize(call[c].request.limit)
             below == {a \in Visible(call[c].scope) : call[c].request.cursor = 0 \/ a < call[c].request.cursor}
             read == Newest(below, size + 1)
             shown == Newest(read, size)
             more == Cardinality(read) > size
             next == IF more THEN Lowest(shown) ELSE 0
             changes == [at |-> "done", status |-> 200, body |-> shown, next |-> next, seen |-> Append(call[c].seen, shown)]
  <1>1. call[c].at = "handler" /\ call[c].request.route = "list" /\ UNCHANGED rows /\ ListingInv(c)
    BY DEF List, InHandler, PagesInv
  <1>2. call[c].request.limit \in Nat /\ call[c].request.cursor \in Nat /\ call[c].seen \in Seq(SUBSET Nat)
    BY <1>1 DEF ListingInv
  <1>3. size \in Nat /\ size + 1 \in Nat
    BY <1>2, PageIsNat DEF PageSize
  <1>4. below \subseteq DOMAIN assets /\ below \subseteq Nat \ {0} /\ IsFiniteSet(below)
    <2>1. below \subseteq DOMAIN assets
      BY DEF Visible
    <2> HIDE DEF below
    <2> QED
      BY <2>1, FS_Subset DEF PagesInv
  <1>5. read \subseteq below /\ shown \subseteq read
    BY DEF Newest
  <1>6. (more /\ shown = {} /\ Throw(c, "TypeError")) \/ (~(more /\ shown = {}) /\ Advance(c, changes))
    BY DEF List, page
  <1> HIDE DEF size, below
  <1>7. IsFiniteSet(read) /\ read \subseteq Nat \ {0} /\ shown \subseteq Nat \ {0} /\ Cardinality(read) \in Nat
    <2> HIDE DEF read, shown
    <2> QED
      BY <1>4, <1>5, FS_Subset, FS_CardinalityType
  \* With more to come, the page is what lies from the next cursor on.
  <1>8. ASSUME more, shown # {}
        PROVE  /\ next \in below /\ next \in Nat \ {0}
               /\ \A a \in below : a \in shown <=> ~(a < next)
    <2>1. next \in shown /\ \A b \in shown : next <= b
      <3> HIDE DEF shown, more
      <3>1. shown \subseteq Nat
        BY <1>7
      <3> QED
        BY <1>8, <3>1, LowestIsLeast
    <2> HIDE DEF next
    <2>2. next \in read /\ next \in below /\ next \in Nat \ {0}
      BY <1>4, <1>5, <2>1
    <2>3. ASSUME NEW a \in below, ~(a < next) PROVE a \in shown
      <3>1. a \in Nat /\ next <= a
        BY <1>4, <2>2, <2>3
      <3>2. a \in read
        BY <1>3, <1>4, <2>2, <2>3, <3>1, NewestIsUpperEnd
      <3> HIDE DEF read
      <3> QED
        BY <1>3, <1>7, <2>1, <3>1, <3>2, NewestIsUpperEnd
    <2>4. ASSUME NEW a \in shown PROVE a \in Nat /\ ~(a < next)
      <3> HIDE DEF shown
      <3> QED
        BY <1>7, <2>1, <2>2, <2>4
    <2> HIDE DEF shown
    <2> QED
      BY <2>2, <2>3, <2>4
  \* Otherwise it is all there was.
  <1>9. ASSUME ~more PROVE shown = below
    <2>1. Cardinality(read) <= size
      <3> HIDE DEF read
      <3> QED
        BY <1>3, <1>7, <1>9
    <2>2. read = below
      BY <1>3, <1>4, <2>1, NewestHasAll
    <2>3. shown = read
      <3> HIDE DEF read
      <3> QED
        BY <1>3, <1>7, <2>1, NewestShowsAll
    <2> QED
      BY <2>2, <2>3
  <1>10. CASE more /\ shown = {} /\ Throw(c, "TypeError")
    <2>1. statusOf("TypeError") = 500
      BY DEF statusOf, ApiError
    <2> QED
      BY <1>1, <1>10, <2>1, ThrowKeepsPlace
  <1>11. CASE ~(more /\ shown = {}) /\ Advance(c, changes)
    <2>1. /\ call'[c].request = call[c].request /\ call'[c].seen = Append(call[c].seen, shown)
          /\ call'[c].wanted = call[c].wanted /\ call'[c].next = next
          /\ call'[c].at = "done" /\ call'[c].status = 200
      <3> HIDE DEF shown, next
      <3> QED
        BY <1>11 DEF Advance, CallsShaped, CallFields
    <2>2. next \in Nat
      <3> HIDE DEF shown, more
      <3> QED
        BY <1>8, <1>11
    <2>3. shown \in SUBSET Nat
      <3> HIDE DEF shown
      <3> QED
        BY <1>7
    <2>4. \A a : OnPages(c, a)' = IF a \in shown THEN OnPages(c, a) \cup {Len(call[c].seen) + 1} ELSE OnPages(c, a)
      <3> HIDE DEF shown
      <3> QED
        BY <1>2, <2>1, <2>3 DEF OnPages
    <2>5. ASSUME NEW a \in call[c].wanted PROVE Wanted(c, a)'
      <3>1. Wanted(c, a)
        BY <1>1, <2>5 DEF ListingInv
      <3>2. ASSUME ~assets[a].deleted PROVE ShownAbove(c, a)'
        <4>1. a \in Visible(call[c].scope) /\ a \in Nat /\ ShownAbove(c, a)
          BY <1>1, <3>1, <3>2 DEF Wanted, Visible, PagesInv
        <4>2. CASE call[c].request.cursor = 0 \/ a < call[c].request.cursor
          <5>1. a \in below /\ OnPages(c, a) = {}
            BY <1>1, <4>1, <4>2 DEF below, ShownAbove, OnNone
          <5>2. CASE more
            <6> HIDE DEF shown, more
            <6> DEFINE one == Len(call[c].seen) + 1
            <6>1. a \in shown <=> ~(a < next)
              BY <1>8, <1>11, <5>1, <5>2
            <6>2. next # 0
              BY <1>8, <1>11, <5>2
            <6>3. OnPages(c, a)' = IF a \in shown THEN {one} ELSE {}
              BY <2>4, <5>1
            <6> HIDE DEF one, next
            <6> QED
              BY <2>1, <6>1, <6>2, <6>3 DEF ShownAbove, OnNone, OnOne
          <5>3. CASE ~more
            <6> HIDE DEF shown, more
            <6> DEFINE one == Len(call[c].seen) + 1
            <6>1. a \in shown /\ next = 0
              BY <1>9, <5>1, <5>3
            <6>2. OnPages(c, a)' = {one}
              BY <2>4, <5>1, <6>1
            <6> HIDE DEF one, next
            <6> QED
              BY <2>1, <6>1, <6>2 DEF ShownAbove, OnOne
          <5> QED
            BY <5>2, <5>3
        <4>3. CASE ~(call[c].request.cursor = 0 \/ a < call[c].request.cursor)
          <5>1. a \notin below /\ OnOne(c, a)
            BY <1>1, <4>1, <4>3 DEF below, ShownAbove
          <5>2. a \notin shown
            <6> HIDE DEF read, shown
            <6> QED
              BY <1>5, <5>1
          <5>3. OnOne(c, a)'
            <6> HIDE DEF shown
            <6> QED
              BY <2>4, <5>1, <5>2 DEF OnOne
          <5>4. ~(next # 0 /\ a < next)
            <6> HIDE DEF shown, more
            <6>1. ASSUME more PROVE next < call[c].request.cursor
              <7>1. next \in below
                BY <1>8, <1>11, <6>1
              <7> HIDE DEF next
              <7> QED
                BY <4>3, <7>1 DEF below
            <6>2. ASSUME ~more PROVE next = 0
              BY <6>2
            <6> HIDE DEF next
            <6> QED
              BY <1>2, <2>2, <4>1, <4>3, <6>1, <6>2
          <5> HIDE DEF next
          <5> QED
            BY <2>1, <5>3, <5>4 DEF ShownAbove
        <4> QED
          BY <4>2, <4>3
      <3> HIDE DEF next, shown
      <3> QED
        BY <1>1, <2>1, <3>1, <3>2 DEF Wanted, rows
    <2>6. call'[c].seen \in Seq(SUBSET Nat)
      <3> HIDE DEF shown
      <3> QED
        BY <1>2, <2>1, <2>3
    <2> HIDE DEF next, shown
    <2> QED
      BY <1>1, <2>1, <2>2, <2>5, <2>6 DEF ListingInv
  <1> QED
    BY <1>6, <1>10, <1>11

LEMMA PagesInvStep ==
  ASSUME TenancyInv, PagesInv, NEW c \in Callers, CallerStep(c)
  PROVE  PagesInv'
PROOF
  <1>1. KeysKept /\ AssetsKept /\ AssetsGrow
    BY CallersOnlyAdd
  <1>2. DOMAIN assets' \subseteq Nat \ {0} /\ IsFiniteSet(DOMAIN assets')
    BY <1>1, IdsAreNumbers, FS_AddElement, ZenonT(60) DEF AssetsGrow, PagesInv
  <1>3. traffic' = traffic
    BY DEF CallerStep, Arrive, NextPage, Enter, Verify, RefuseBody, Lookup, WriteAsset, Reread, CommitVersion,
           RefuseBytes, CreateAsset, List, CreateKey, ListKeys, RevokeRead, RevokeWrite, WorkerCall, Health
  <1>4. ListingInv(c)
    BY DEF PagesInv
  <1>5. ListingInv(c)' /\ \A d \in Callers : d # c => call'[d] = call[d]
    <2>1. CASE Arrive(c) \/ NextPage(c)
      <3>1. \A d \in Callers : d # c => call'[d] = call[d]
        BY <2>1, ZenonT(60) DEF Arrive, NextPage, Enter, TenancyInv, CallsShaped
      <3> QED
        BY <2>1, <3>1, ArriveKeepsPlace, NextPageKeepsPlace
    <2>2. CASE Verify(c) \/ List(c)
      <3>1. \A d \in Callers : d # c => call'[d] = call[d]
        BY <2>2 DEF Verify, List, Throw, Advance, TenancyInv, CallsShaped
      <3> QED
        BY <2>2, <3>1, <1>4, VerifyKeepsPlace, ListKeepsPlace DEF TenancyInv
    <2>3. CASE ~(Arrive(c) \/ NextPage(c) \/ Verify(c) \/ List(c))
      BY <2>3, <1>4, OtherStepsGoOnward, OnwardKeepsPlace DEF CallerStep, TenancyInv, OnlyMoves
    <2> QED
      BY <2>1, <2>2, <2>3
  <1>6. \A d \in Callers : ListingInv(d)'
    BY <1>1, <1>5, ListingKept DEF PagesInv
  <1> QED
    BY <1>2, <1>3, <1>6 DEF PagesInv

LEMMA PagesInvInductive ==
  /\ Init => PagesInv
  /\ TenancyInv /\ PagesInv /\ [Next]_vars => PagesInv'
PROOF
  <1>1. Init => PagesInv
    <2> SUFFICES ASSUME ApiInit PROVE PagesInv
      BY DEF Init
    <2>1. DOMAIN assets \subseteq Nat \ {0} /\ IsFiniteSet(DOMAIN assets)
      BY IdsAreNumbers DEF ApiInit
    <2>2. Idle.at = "idle" /\ Idle.next = 0 /\ Idle.seen \in Seq(SUBSET Nat) /\ Idle.wanted = {}
      BY DEF Idle
    <2>3. \A c \in Callers : ListingInv(c)
      BY <2>2 DEF ApiInit, ListingInv
    <2> QED
      BY <2>1, <2>3 DEF ApiInit, PagesInv
  <1>2. ASSUME TenancyInv, PagesInv, [Next]_vars PROVE PagesInv'
    <2>1. CASE \E c \in Callers : CallerStep(c)
      BY <1>2, <2>1, PagesInvStep
    <2>2. CASE ~(\E c \in Callers : CallerStep(c))
      <3>1. UNCHANGED <<keys, assets, call, traffic>>
        BY <1>2, <2>2 DEF Next, vars, apiVars, ApiNext, Tick, ApiTick, rows
      <3>2. KeysKept /\ AssetsKept /\ AssetsGrow
        BY <3>1, UnchangedKept DEF AssetsGrow
      <3> QED
        BY <1>2, <3>1, <3>2, ListingKept DEF PagesInv
    <2> QED
      BY <2>1, <2>2
  <1> QED
    BY <1>1, <1>2

\* For every page size, any number of assets and any coming and going of them between
\* pages: who follows the cursors to the end has seen each asset that was there
\* throughout on exactly one page (tenant-scoped-repository.ts list).
THEOREM PagesMissNothingCorrect == Spec => []PagesMissNothing
PROOF
  <1>1. PagesInv => PagesMissNothing
    <2> SUFFICES ASSUME PagesInv, NEW c \in Callers, call[c].at = "done", call[c].status = 200, call[c].next = 0,
                        NEW a \in call[c].wanted, a \in Visible(call[c].scope)
                 PROVE  Cardinality(OnPages(c, a)) = 1
      BY DEF PagesMissNothing, OnPages
    <2>1. Wanted(c, a)
      BY DEF PagesInv, ListingInv
    <2>2. PICK n : OnPages(c, a) = {n}
      BY <2>1 DEF Wanted, ShownAbove, OnOne, Visible
    <2>3. Cardinality({n}) = 1
      BY FS_Singleton
    <2> QED
      BY <2>2, <2>3
  <1> QED
    BY <1>1, TenancyInvInductive, PagesInvInductive, PTL DEF Spec
=============================================================================
