------------------------------ MODULE Delivery ------------------------------
(***************************************************************************)
(* One asset's delivery: viewers, the edge function, the CDN cache, the    *)
(* bucket behind it and the on-demand generator S3's misses fail over to,  *)
(* beside the optimizer that writes the master rendition, the upload that  *)
(* makes a version's source appear and the deletion that takes all away.   *)
(*                                                                         *)
(* One action per request to storage, so that whatever else happens in     *)
(* between can.  The cache is keyed by the path the edge rewrote to.       *)
(***************************************************************************)
EXTENDS Pipeline, ClientUrls, TLC

CONSTANTS
  Viewers,
  Scenarios,      \* [asked: Viewers -> requests, originals, faults, deletes]
  Versions,       \* versions of the asset
  SourceOf,       \* version -> [width, height, orientation] as stored
  MasterEdge,     \* longest edge above which a source gets a master, and of the master
  Epoch,          \* the deployment's encoder epoch
  NoRequest       \* the request of a viewer who stays away

ASSUME VersionsArePositive == Versions \subseteq Nat \ {0} /\ Epoch \in Nat

\* A raw query: numbers are exact, or text that is none; a colour is its hex digits.
IsQuery(query) ==
  /\ \A i \in DOMAIN NumericParams :
       NumericParams[i] \in DOMAIN query => query[NumericParams[i]] \in {Unparseable} \cup (Nat \X (Nat \ {0}))
  /\ "background" \in DOMAIN query => query.background \in Seq(0..15)

\* Which widths travel is decided by what the core and the edge compute.
Edge == INSTANCE EdgeNormalizer

\* A version segment, where the edge sees one, is the letter and two runs of digits.
VersionSegments == {"v"} \X [value : Nat, zeros : Nat] \X [value : Nat, zeros : Nat]
IsUri(uri) == Len(uri) \in {3, 4} /\ Edge!isVersionSegment(uri[3]) => uri[3] \in VersionSegments

ASSUME ScenariosSetOut ==
  \A s \in Scenarios :
    /\ s.originals \subseteq Versions /\ s.faults \in Nat
    /\ \A v \in Viewers : s.asked[v] # NoRequest => IsQuery(s.asked[v].query) /\ IsUri(s.asked[v].uri)

Metadata(version) == readMetadata(SourceOf[version].width, SourceOf[version].height, SourceOf[version].orientation, 0)
Large == {v \in Versions : needsMaster(Metadata(v), [bytes |-> 0, longestEdge |-> MasterEdge])}

VARIABLES
  asked,      \* each viewer's request
  made,       \* what the pure functions make of it: the edge's answer, the parsed key
  view,       \* each viewer's request under way
  originals,  \* versions whose original is in the bucket
  masters,    \* versions whose master rendition is
  stored,     \* derivatives in the bucket: key -> what they were rendered from, their terms
  cached,     \* the CDN cache: path -> response
  rows,       \* keys with a derivative row
  worker,     \* the optimizer's progress on each version's master
  deletion,   \* the step of the deletion
  faults      \* failures that may still happen

vars == <<asked, made, view, originals, masters, stored, cached, rows, worker, deletion, faults>>

IMMUTABLE_CACHE == "1y"
ERROR_CACHE == "60s"
NO_STORE == "never"

Sources == {"original", "master"}
Response(status, by, terms, source) == [status |-> status, by |-> by, terms |-> terms, source |-> source]
Failure(status, by, cache) == Response(status, by, <<"json", cache>>, "none")

Idle == [pc |-> "new", path |-> <<>>, head |-> "unread", listed |-> "unread",
         source |-> "none", reply |-> Failure(0, "nobody", NO_STORE)]

\* The edge's answer to a request, the key the generator reads in the path it gives,
\* and the key it would write: they depend on the request alone.
Made(request) ==
  LET result == Edge!handler(request.uri, request.query, request.accept)
      parsed == IF result.status = 400 THEN [ok |-> FALSE] ELSE parseCanonicalKey(result.path)
  IN  [edge |-> result, parsed |-> parsed,
       key  |-> IF parsed.ok THEN toCanonicalKey(parsed.assetId, parsed.assetVersion, parsed.encoderEpoch, parsed.spec)
                ELSE <<>>]

Init ==
  \E s \in Scenarios :
    /\ asked = s.asked
    /\ made = [v \in Viewers |-> IF s.asked[v] = NoRequest THEN <<>> ELSE Made(s.asked[v])]
    /\ view = [v \in Viewers |-> IF s.asked[v] = NoRequest THEN [Idle EXCEPT !.pc = "away"] ELSE Idle]
    /\ originals = s.originals
    /\ masters = {}
    /\ stored = <<>>
    /\ cached = <<>>
    /\ rows = {}
    /\ worker = [v \in Versions |-> "idle"]
    /\ deletion = IF s.deletes THEN "possible" ELSE "barred"
    /\ faults = s.faults

bucket == <<originals, masters, stored>>
elsewhere == <<asked, made, worker, deletion>>

Advance(v, changes) ==
  view' = [view EXCEPT ![v] = [f \in DOMAIN Idle |-> IF f \in DOMAIN changes THEN changes[f] ELSE view[v][f]]]
Answer(v, response) ==
  view' = [view EXCEPT ![v] = [Idle EXCEPT !.pc = "done", !.path = view[v].path, !.reply = response]]
CostsAFault == faults > 0 /\ faults' = faults - 1

---------------------------------------------------------------------------
\* The edge and the cache

\* An unsigned request under the private prefix is refused before the edge function
\* runs.  A refusal of either is made on the spot and never cached.
EdgeFunction(v) ==
  LET request == asked[v]
      result == made[v].edge
  IN  /\ view[v].pc = "new"
      /\ CASE request.uri[1] = "p" /\ ~request.signed ->
                Answer(v, Failure(403, "cdn", NO_STORE))
           [] OTHER ->
                IF result.status = 400 THEN Answer(v, Failure(400, "edge", NO_STORE))
                ELSE Advance(v, [pc |-> "lookup", path |-> result.path])
      /\ UNCHANGED <<bucket, elsewhere, cached, rows, faults>>

Hit(v) ==
  /\ view[v].pc = "lookup" /\ view[v].path \in DOMAIN cached
  /\ Answer(v, cached[view[v].path])
  /\ UNCHANGED <<bucket, elsewhere, cached, rows, faults>>

\* A miss asks S3, which answers 403 for a key it does not have: the origin group then
\* fails over.
Miss(v) ==
  /\ view[v].pc = "lookup" /\ view[v].path \notin DOMAIN cached
  /\ IF view[v].path \in DOMAIN stored
     THEN Advance(v, [pc |-> "reply",
                      reply |-> Response(200, "s3", stored[view[v].path].terms, stored[view[v].path].source)])
     ELSE Advance(v, [pc |-> "generate"])
  /\ UNCHANGED <<bucket, elsewhere, cached, rows, faults>>

\* The answer of an origin is passed on and, unless it says otherwise, kept.
Reply(v) ==
  LET reply == view[v].reply
  IN  /\ view[v].pc = "reply"
      /\ Answer(v, reply)
      /\ cached' = IF reply.terms[2] = NO_STORE THEN cached
                   ELSE [path \in DOMAIN cached \cup {view[v].path} |-> IF path = view[v].path THEN reply ELSE cached[path]]
      /\ UNCHANGED <<bucket, elsewhere, rows, faults>>

---------------------------------------------------------------------------
\* The generator

\* With the terms of an image it would be pinned for a year.
clientErrorImmutable(status) == Failure(status, "generator", IMMUTABLE_CACHE)

clientError(status) == Failure(status, "generator", ERROR_CACHE)

\* Kept for a minute like a refusal, a passing failure would be the next viewer's too.
generationFailedKept == Failure(502, "generator", ERROR_CACHE)

\* Any failure inside the try is answered 502 and kept nowhere.
generationFailed == Failure(502, "generator", NO_STORE)

Generate(v) ==
  LET parsed == made[v].parsed
  IN  /\ view[v].pc = "generate"
      /\ CASE ~parsed.ok -> Advance(v, [pc |-> "reply", reply |-> clientError(400)])
           [] parsed.ok /\ parsed.encoderEpoch # Epoch ->
                Advance(v, [pc |-> "reply", reply |-> clientError(404)])
           [] OTHER -> Advance(v, [pc |-> "load", head |-> "unread", listed |-> "unread"])
      /\ UNCHANGED <<bucket, elsewhere, cached, rows, faults>>

VersionOf(v) == made[v].parsed.assetVersion
RequestedSpec(v) == made[v].parsed.spec
Found(S, version) == IF version \in S THEN "found" ELSE "missing"

\* The two lookups are issued together and answered in either order.
HeadMaster(v) ==
  /\ view[v].pc = "load" /\ view[v].head = "unread"
  /\ Advance(v, [head |-> Found(masters, VersionOf(v))])
  /\ UNCHANGED <<bucket, elsewhere, cached, rows, faults>>

ListOriginal(v) ==
  /\ view[v].pc = "load" /\ view[v].listed = "unread"
  /\ Advance(v, [listed |-> Found(originals, VersionOf(v))])
  /\ UNCHANGED <<bucket, elsewhere, cached, rows, faults>>

\* A source that was found and has gone since makes the get fail.
getSucceeds(from, version) == version \in (IF from = "master" THEN masters ELSE originals)

GetSource(v) ==
  LET from == IF view[v].head = "found" THEN "master" ELSE "original"
  IN  /\ view[v].pc = "load" /\ view[v].head # "unread" /\ view[v].listed # "unread"
      /\ CASE view[v].head = "missing" /\ view[v].listed = "missing" ->
                Advance(v, [pc |-> "reply", reply |-> clientError(404)])
           [] OTHER ->
                IF getSucceeds(from, VersionOf(v)) THEN Advance(v, [pc |-> "put", source |-> from])
                ELSE Advance(v, [pc |-> "reply", reply |-> generationFailed])
      /\ UNCHANGED <<bucket, elsewhere, cached, rows, faults>>

Terms(spec) == <<spec.format, IMMUTABLE_CACHE>>

\* A plain put, and one that leaves out the cache-control of the object
putAlways(objects, key, object) == (key :> object) @@ objects
putBare(objects, key, object) == objects @@ (key :> [object EXCEPT !.terms = <<@[1], ERROR_CACHE>>])

\* The conditional write of a finished rendering
putIfAbsent(objects, key, object) ==
  IF key \in DOMAIN objects THEN objects
  ELSE [k \in DOMAIN objects \cup {key} |-> IF k = key THEN object ELSE objects[k]]

\* Rendering has no effect of its own, so it is one step with the write that follows.
RenderAndPut(v) ==
  LET key == made[v].key
      object == [source |-> view[v].source, terms |-> Terms(RequestedSpec(v))]
  IN  /\ view[v].pc = "put"
      /\ stored' = putIfAbsent(stored, key, object)
      /\ Advance(v, [pc |-> "record"])
      /\ UNCHANGED <<originals, masters, elsewhere, cached, rows, faults>>

\* Rendering too slow, or a call to storage that fails; a write may have happened.
GenerationFails(v) ==
  LET key == made[v].key
      object == [source |-> view[v].source, terms |-> Terms(RequestedSpec(v))]
  IN  /\ view[v].pc \in {"load", "put"}
      /\ CostsAFault
      /\ \/ stored' = stored
         \/ view[v].pc = "put" /\ stored' = putIfAbsent(stored, key, object)
      /\ Advance(v, [pc |-> "reply", reply |-> generationFailed])
      /\ UNCHANGED <<originals, masters, elsewhere, cached, rows>>

\* The largest renditions do not fit a function's response.
Oversize(spec) == spec.format = "png" /\ Given(spec, "width", 0) = MAX_LADDER_WIDTH

\* A body too large for the response goes as a redirect, unless the redirect cannot be
\* signed: then the response fails on its way out.
redirectToStoredObject(from) == {Response(307, "generator", <<"json", NO_STORE>>, from)}

\* The row is best effort: TRUE when it was written.
recordDerivative(key) == {<<TRUE, rows \cup {key}>>, <<FALSE, rows>>}

Record(v) ==
  LET spec == RequestedSpec(v)
      from == view[v].source
      sent == IF Oversize(spec) THEN redirectToStoredObject(from) ELSE {Response(200, "generator", Terms(spec), from)}
  IN  /\ view[v].pc = "record"
      /\ \E row \in recordDerivative(made[v].key), reply \in sent \cup {generationFailed} :
           /\ rows' = row[2]
           /\ reply = generationFailed => Oversize(spec)
           /\ IF row[1] /\ reply \in sent THEN faults' = faults ELSE CostsAFault
           /\ Advance(v, [pc |-> "reply", reply |-> reply])
      /\ UNCHANGED <<bucket, elsewhere, cached>>

ViewerStep(v) ==
  \/ EdgeFunction(v) \/ Hit(v) \/ Miss(v) \/ Reply(v)
  \/ Generate(v) \/ HeadMaster(v) \/ ListOriginal(v) \/ GetSource(v) \/ RenderAndPut(v) \/ Record(v)

\* A viewer who was answered an error that may pass asks again.
Retry(v) ==
  /\ view[v].pc = "done" /\ view[v].reply.status \in {404, 502}
  /\ Advance(v, [pc |-> "new"])
  /\ UNCHANGED <<bucket, elsewhere, cached, rows, faults>>

---------------------------------------------------------------------------
\* The cache ages

IsError(response) == response.status \notin {200, 307}
Without(f, S) == [x \in DOMAIN f \ S |-> f[x]]

\* Minutes pass: a cached error is forgotten.
ExpireError(v) ==
  /\ view[v].path \in DOMAIN cached
  /\ cached[view[v].path].terms[2] = ERROR_CACHE
  /\ cached' = Without(cached, {view[v].path})
  /\ UNCHANGED <<bucket, elsewhere, view, rows, faults>>

\* An edge location may drop anything.
Evict(v) ==
  /\ view[v].path \in DOMAIN cached /\ ~IsError(cached[view[v].path])
  /\ cached' = Without(cached, {view[v].path})
  /\ UNCHANGED <<bucket, elsewhere, view, rows, faults>>

---------------------------------------------------------------------------
\* The rest of the system

NotDeleted == deletion \in {"possible", "barred"}

\* An upload or a replacement commits a version's original.
Promote(version) ==
  /\ NotDeleted /\ version \notin originals
  /\ originals' = originals \cup {version}
  /\ UNCHANGED <<asked, made, view, masters, stored, cached, rows, worker, deletion, faults>>

\* The optimizer reads a large original and puts its master some time later.
ReadOriginal(version) ==
  /\ worker[version] = "idle" /\ version \in originals \cap Large
  /\ worker' = [worker EXCEPT ![version] = "holding"]
  /\ UNCHANGED <<asked, made, view, bucket, cached, rows, deletion, faults>>

PutMaster(version) ==
  /\ worker[version] = "holding"
  /\ worker' = [worker EXCEPT ![version] = "done"]
  /\ masters' = masters \cup {version}
  /\ UNCHANGED <<asked, made, view, originals, stored, cached, rows, deletion, faults>>

\* Deletion removes one prefix after the other; a failure is logged and passed over.
Delete ==
  /\ deletion = "possible"
  /\ deletion' = "original"
  /\ UNCHANGED <<asked, made, view, bucket, cached, rows, worker, faults>>

DeletePrefix ==
  /\ deletion' = (("original" :> "master") @@ ("master" :> "derived") @@ ("derived" :> "invalidate"))[deletion]
  /\ \/ /\ faults' = faults
        /\ originals' = IF deletion = "original" THEN {} ELSE originals
        /\ masters' = IF deletion = "master" THEN {} ELSE masters
        /\ stored' = IF deletion = "derived" THEN <<>> ELSE stored
     \/ CostsAFault /\ UNCHANGED bucket
  /\ UNCHANGED <<asked, made, view, cached, rows, worker>>

\* Requested for the viewers' paths; whether entries kept under the rewritten path go
\* with them is the CDN's affair.
InvalidateAsset ==
  /\ deletion = "invalidate"
  /\ deletion' = "gone"
  /\ \/ cached' = Without(cached, {p \in DOMAIN cached : p[1] = DERIVED_PREFIX})
     \/ cached' = cached
  /\ UNCHANGED <<asked, made, view, bucket, rows, worker, faults>>

Next ==
  \/ \E v \in Viewers : ViewerStep(v) \/ GenerationFails(v) \/ Retry(v) \/ ExpireError(v) \/ Evict(v)
  \/ \E version \in Versions : Promote(version) \/ ReadOriginal(version) \/ PutMaster(version)
  \/ Delete
  \/ deletion \in {"original", "master", "derived"} /\ DeletePrefix
  \/ InvalidateAsset

\* Requests under way are answered, viewers shown an error come back, and a cached
\* error's minute ends.  Nothing says that an upload, a deletion or the optimizer goes on.
Fairness ==
  \A v \in Viewers : WF_vars(ViewerStep(v)) /\ WF_vars(Retry(v)) /\ WF_vars(ExpireError(v))

Spec == Init /\ [][Next]_vars /\ Fairness

---------------------------------------------------------------------------
\* Properties

\* Types: what is in the bucket was rendered from a source, under the terms of an
\* image; a response is kept only under terms that allow it (cdn-stack.ts, generator.ts).
DeliveryTypeOK ==
  /\ \A v \in Viewers : view[v].pc \in {"away", "new", "lookup", "generate", "load", "put", "record", "reply", "done"}
  /\ originals \subseteq Versions /\ masters \subseteq Large
  /\ \A key \in DOMAIN stored : stored[key].source \in Sources
  /\ \A path \in DOMAIN cached :
       cached[path].status \in {200, 400, 404} /\ cached[path].terms[2] # NO_STORE
  /\ faults \in Nat

Looking(v) == view[v].pc = "lookup" /\ view[v].path[1] = DERIVED_PREFIX

CoreParse(request) == parseTransform(request.query, request.accept, 0, FALSE)

\* The edge function and the core library, written twice, give every request the same
\* key, or refuse it with the same code for the same parameter (normalize.template.js
\* and transform-spec.ts; a disagreement would miss on every request, silently).
EdgeMatchesCore ==
  \A v \in Viewers :
    LET request == asked[v]
        result == Edge!normalize(request.query, request.accept)
    IN  view[v].pc = "new" =>
          IF CoreParse(request).ok
          THEN result = [variant |-> toVariantName(CoreParse(request).spec)]
          ELSE result = [error |-> Edge!reject(CoreParse(request).code, CoreParse(request).parameter)]

\* A request of the oracle is looked up under the name written down for it by hand,
\* whatever core and edge agree on (conformance-vectors.ts).
OracleHolds ==
  \A v \in Viewers : view[v].pc = "lookup" /\ asked[v].expected # <<>> =>
    view[v].path = asked[v].expected

\* A spec that spells out what its absence would give: an explicit default background,
\* or a PNG quality above the palette threshold, where all levels are one.
SpellsDefault(spec) ==
  \/ "background" \in DOMAIN spec /\ Opaque(spec.background) \in {DEFAULT_FLATTEN_BACKGROUND}
  \/ "background" \in DOMAIN spec /\ Opaque(spec.background) # spec.background
  \/ spec.format = "png" /\ spec.quality \notin DOMAIN PNG_PALETTE_QUALITY

\* What the requests that the core accepts come out as, under which name
KnownRequests == {s.asked[v] : s \in Scenarios, v \in Viewers} \ {NoRequest}
KnownSpecs == {CoreParse(r).spec : r \in {q \in KnownRequests : CoreParse(q).ok}}
KnownRenderings ==
  {[name |-> toVariantName(s), rendering |-> Rendering(s)] : s \in {t \in KnownSpecs : ~SpellsDefault(t)}}

\* Two requests whose renditions could not differ share one key, defaults spelt out
\* aside: inert parameters leave no trace (canonical-key.ts, render.ts).
OneKeyPerRendering ==
  \A v \in Viewers : Looking(v) =>
    LET spec == RequestedSpec(v)
        rendering == Rendering(spec)
    IN  SpellsDefault(spec) \/
        \A known \in KnownRenderings : known.rendering = rendering => known.name = view[v].path[4]

Canonical(path) == path[3][2].zeros = 0 /\ path[3][3].zeros = 0

\* The generator understands every derivative path the edge writes, and renders under
\* the key it was asked for (parseCanonicalKey; version segments with leading zeros
\* are understood but not reproduced).
GeneratorAcceptsEdgeKeys ==
  \A v \in Viewers :
    LET path == view[v].path
    IN  /\ view[v].reply.by = "generator" /\ view[v].reply.status = 400 => path[1] # DERIVED_PREFIX
        /\ view[v].pc \in {"load", "put", "record"} /\ Canonical(path) => made[v].key = path

\* A candidate of a srcset: the client's, of widths on the ladder and without a density of
\* the caller's own, or the API's, of a source that reaches the smallest rung.
OfSrcset(request, config, asset, options, sizes, widths) ==
  LET reaches == asset.sourceWidth >= MIN_LADDER_WIDTH
      candidate == [url |-> [uri |-> request.uri, query |-> request.query], descriptor |-> request.descriptor]
  IN  /\ asset.sourceWidth \in Nat \ {0} /\ asset.sourceWidth = Metadata(asset.version).width
      /\ \/ /\ "dpr" \notin DOMAIN options /\ widths \subseteq LADDER
            /\ "width" \in DOMAIN options => options.width \in Nat
            /\ candidate \in buildSrcset(config, asset, options, asset.sourceWidth, sizes, widths)
         \/ reaches /\ candidate \in serviceSrcset(config.encoderEpoch, asset)

\* A candidate of a srcset is looked up at the width its descriptor states, and never
\* promises more pixels than the source has, the smallest rung aside (srcset.ts).
SrcsetKeepsItsPromise ==
  \A v \in Viewers : Looking(v) /\ asked[v].descriptor # 0 =>
    LET spec == RequestedSpec(v)
        width == Metadata(made[v].parsed.assetVersion).width
    IN  /\ spec.width = asked[v].descriptor
        /\ asked[v].descriptor # MIN_LADDER_WIDTH => RenderedWidth(spec, width) = asked[v].descriptor

\* The viewer answered by the generator and the viewers answered from the bucket or
\* the cache get an image on the same terms (generator.ts, the second of its two rules).
FirstViewerSeesSameTerms ==
  \A v \in Viewers :
    /\ view[v].reply.status = 200 /\ view[v].pc = "done" =>
         view[v].reply.terms = Terms(RequestedSpec(v))
    /\ view[v].path \in DOMAIN stored => stored[view[v].path].terms = Terms(RequestedSpec(v))

\* A derivative, once in the bucket, is never replaced by another rendering of its
\* key: whoever renders second, from the original or a newer master, discards
\* (s3.ts putIfAbsent; URLs are immutable for a year).
StoredNeverRewritten ==
  [][\A key \in DOMAIN stored \cap DOMAIN stored' : stored'[key] = stored[key]]_vars

\* The version asked for is there to stay, the URL is current and the edge accepts it.
Servable(v) ==
  LET uri == asked[v].uri
  IN  /\ asked[v] # NoRequest /\ uri[1] \in VIEWER_PATH_PREFIXES /\ (uri[1] = "p" => asked[v].signed)
      /\ made[v].edge.status # 400
      /\ Len(uri) \in {3, 4} /\ uri[3][3].value = Epoch
      /\ uri[3][2].value \in originals
      /\ NotDeleted

Served(v) == view[v].pc = "done" /\ view[v].reply.status \in {200, 307}

\* No error is pinned: a viewer who asks too early, or during a failure, and asks
\* again gets the image in the end (generator.ts ERROR_CACHE and NO_STORE,
\* cdn-stack.ts errorResponses).
ErrorsRecover == \A v \in Viewers : <>[]Servable(v) => <>Served(v)
=============================================================================
