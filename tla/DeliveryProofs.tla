--------------------------- MODULE DeliveryProofs ---------------------------
(***************************************************************************)
(* What a URL stands for, for every number of viewers and versions and     *)
(* whatever they ask for: a derivative is never replaced, all viewers of a *)
(* URL are given the image on the same terms, and nothing is kept whose    *)
(* terms forbid it.  The second half is about what viewers ask: the edge   *)
(* answers as the core does, the generator understands what the edge       *)
(* writes, no rendition has two names, and a srcset keeps its promise.     *)
(***************************************************************************)
EXTENDS GrammarProofs

Kept == \A key \in DOMAIN stored \cap DOMAIN stored' : stored'[key] = stored[key]

\* The conditional put leaves every object that is there as it is.
LEMMA PutIfAbsentKeeps ==
  ASSUME NEW objects, NEW key, NEW object, NEW k \in DOMAIN objects
  PROVE  putIfAbsent(objects, key, object)[k] = objects[k]
  BY DEF putIfAbsent

\* A rendering step adds its object or finds it there; a deletion empties the prefix.
LEMMA StepsKeepStored ==
  ASSUME Next
  PROVE  Kept
PROOF
  <1>1. CASE UNCHANGED stored
    BY <1>1 DEF Kept
  <1>2. ASSUME NEW key, NEW object, stored' = putIfAbsent(stored, key, object) PROVE Kept
    BY <1>2, PutIfAbsentKeeps DEF Kept
  <1>3. CASE stored' = <<>>
    BY <1>3 DEF Kept
  <1>4. ASSUME NEW v \in Viewers, ViewerStep(v) PROVE Kept
    <2>1. CASE RenderAndPut(v)
      BY <1>2, <2>1 DEF RenderAndPut
    <2> QED
      BY <1>1, <1>4, <2>1
      DEF ViewerStep, EdgeFunction, Hit, Miss, Reply, Generate, HeadMaster, ListOriginal, GetSource, Record, bucket
  <1>5. ASSUME NEW v \in Viewers, GenerationFails(v) PROVE Kept
    BY <1>1, <1>2, <1>5 DEF GenerationFails
  <1>6. ASSUME NEW v \in Viewers, Retry(v) \/ ExpireError(v) \/ Evict(v) PROVE Kept
    BY <1>1, <1>6 DEF Retry, ExpireError, Evict, bucket
  <1>7. ASSUME NEW version \in Versions, Promote(version) \/ ReadOriginal(version) \/ PutMaster(version) PROVE Kept
    BY <1>1, <1>7 DEF Promote, ReadOriginal, PutMaster, bucket
  <1>8. CASE Delete \/ InvalidateAsset
    BY <1>1, <1>8 DEF Delete, InvalidateAsset, bucket
  <1>9. CASE DeletePrefix
    BY <1>1, <1>3, <1>9 DEF DeletePrefix, bucket
  <1> QED
    BY <1>4, <1>5, <1>6, <1>7, <1>8, <1>9 DEF Next

\* For any viewers, versions and requests: a derivative in the bucket is never replaced,
\* whoever renders its key again and from whatever source (s3.ts putIfAbsent).
THEOREM StoredNeverRewrittenCorrect == Spec => StoredNeverRewritten
PROOF
  <1>1. [Next]_vars => [Kept]_vars
    BY StepsKeepStored
  <1> QED
    BY <1>1, PTL DEF Spec, StoredNeverRewritten, Kept

---------------------------------------------------------------------------
(* The terms of an image are a function of its path.  The gate of the       *)
(* parser, that a name be the one its spec would be given, makes the key    *)
(* a rendering is put under parse as the path it was asked for did.         *)

Agreed(path, terms) ==
  parseCanonicalKey(path).ok /\ terms = Terms(parseCanonicalKey(path).spec)

LEMMA NamesRoundTrip ==
  ASSUME NEW name, parseVariantName(name).ok
  PROVE  toVariantName(parseVariantName(name).spec) = name
  BY DEF parseVariantName

\* What a path that parses is made of.
LEMMA ParsedPath ==
  ASSUME NEW path, parseCanonicalKey(path).ok
  PROVE  /\ Len(path) = 4 /\ path[1] = DERIVED_PREFIX /\ path[2] # ""
         /\ parseCanonicalKey(path).assetId = path[2]
         /\ parseVersionSegment(path[3]) # <<>>
         /\ parseVariantName(path[4]).ok
         /\ parseCanonicalKey(path).spec = parseVariantName(path[4]).spec
  BY DEF parseCanonicalKey

LEMMA PathParses ==
  ASSUME NEW path, Len(path) = 4, path[1] = DERIVED_PREFIX, path[2] # "",
         parseVersionSegment(path[3]) # <<>>, parseVariantName(path[4]).ok
  PROVE  /\ parseCanonicalKey(path).ok
         /\ parseCanonicalKey(path).spec = parseVariantName(path[4]).spec
  BY DEF parseCanonicalKey

LEMMA PairNotEmpty == \A a, b : <<a, b>> # <<>>
  OBVIOUS

LEMMA KeyParsesAlike ==
  ASSUME NEW path, NEW parsed, parsed = parseCanonicalKey(path), parsed.ok,
         NEW key, key = toCanonicalKey(parsed.assetId, parsed.assetVersion, parsed.encoderEpoch, parsed.spec)
  PROVE  parseCanonicalKey(key).ok /\ parseCanonicalKey(key).spec = parsed.spec
PROOF
  <1>1. toVariantName(parsed.spec) = path[4]
    BY ParsedPath, NamesRoundTrip
  <1>2. Len(key) = 4 /\ key[1] = DERIVED_PREFIX /\ key[2] = path[2] /\ key[4] = path[4]
        /\ key[3] = toVersionSegment(parsed.assetVersion, parsed.encoderEpoch)
    BY <1>1, ParsedPath DEF toCanonicalKey
  <1>3. parseVersionSegment(key[3]) # <<>>
    <2>1. Len(key[3]) = 3 /\ key[3][1] = "v"
      BY <1>2 DEF toVersionSegment
    <2>2. parseVersionSegment(key[3]) = <<key[3][2].value, key[3][3].value>>
      BY <2>1 DEF parseVersionSegment
    <2> QED
      BY <2>2, PairNotEmpty, Zenon
  <1>4. parseVariantName(key[4]).ok /\ parseVariantName(key[4]).spec = parsed.spec
    <2>1. parseVariantName(path[4]).ok /\ parsed.spec = parseVariantName(path[4]).spec
      BY ParsedPath
    <2>2. parseVariantName(key[4]) = parseVariantName(path[4])
      BY <1>2
    <2> QED
      BY <2>1, <2>2, Zenon
  <1>5. key[2] # ""
    BY <1>2, ParsedPath
  <1> QED
    BY <1>2, <1>3, <1>4, <1>5, PathParses

\* The empty path is nobody's key.
LEMMA NothingDoesNotParse == ~parseCanonicalKey(<<>>).ok
  BY DEF parseCanonicalKey

---------------------------------------------------------------------------
(* The invariant *)

UnderWay == {"lookup", "generate", "load", "put", "record", "reply"}

Forwarded(v) ==
  /\ view[v].pc # "away"
  /\ view[v].path = made[v].edge.path /\ made[v].edge.status # 400

ViewInv(v) ==
  /\ DOMAIN view[v] = DOMAIN Idle
  /\ view[v].pc # "away" => made[v] = Made(asked[v])
  /\ view[v].path = <<>> \/ Forwarded(v)
  /\ view[v].pc \in UnderWay => Forwarded(v)
  /\ view[v].pc \in {"load", "put", "record"} => made[v].parsed.ok
  /\ view[v].pc \in {"reply", "done"} /\ view[v].reply.status = 200 => Agreed(view[v].path, view[v].reply.terms)

TermsInv ==
  /\ DOMAIN view = Viewers
  /\ \A v \in Viewers : ViewInv(v)
  /\ \A key \in DOMAIN stored : Agreed(key, stored[key].terms)
  /\ \A path \in DOMAIN cached : cached[path].status = 200 => Agreed(path, cached[path].terms)

\* What the generator reads in the path is what anyone reads in it.
LEMMA ForwardedParses ==
  ASSUME NEW v \in Viewers, ViewInv(v), Forwarded(v)
  PROVE  /\ made[v].parsed = parseCanonicalKey(view[v].path)
         /\ made[v].parsed.ok =>
              made[v].key = toCanonicalKey(made[v].parsed.assetId, made[v].parsed.assetVersion,
                                           made[v].parsed.encoderEpoch, made[v].parsed.spec)
  BY DEF ViewInv, Forwarded, Made

LEMMA RequestedTermsAgree ==
  ASSUME NEW v \in Viewers, ViewInv(v), Forwarded(v), made[v].parsed.ok
  PROVE  /\ Agreed(view[v].path, Terms(RequestedSpec(v)))
         /\ Agreed(made[v].key, Terms(RequestedSpec(v)))
  BY ForwardedParses, KeyParsesAlike DEF Agreed, RequestedSpec

\* A viewer moved and is in order, and bucket and cache are.
LEMMA OneViewerMoved ==
  ASSUME TermsInv, NEW v \in Viewers, NEW STATE m, view' = [view EXCEPT ![v] = m], ViewInv(v)',
         UNCHANGED <<asked, made>>,
         \A key \in DOMAIN stored' : Agreed(key, stored'[key].terms),
         \A path \in DOMAIN cached' : cached'[path].status = 200 => Agreed(path, cached'[path].terms)
  PROVE  TermsInv'
PROOF
  <1>1. DOMAIN view' = Viewers /\ \A w \in Viewers : w # v => view'[w] = view[w]
    BY DEF TermsInv
  <1>2. ASSUME NEW w \in Viewers, w # v PROVE ViewInv(w)'
    <2>1. ViewInv(w) /\ view'[w] = view[w]
      BY <1>1, <1>2 DEF TermsInv
    <2> QED
      BY <2>1 DEF ViewInv, Forwarded
  <1> QED
    BY <1>1, <1>2 DEF TermsInv

\* The fields of a view after it moved on.
LEMMA AdvanceMoves ==
  ASSUME TermsInv, NEW v \in Viewers, NEW STATE changes, Advance(v, changes)
  PROVE  /\ DOMAIN view'[v] = DOMAIN Idle
         /\ \A f \in DOMAIN Idle : view'[v][f] = IF f \in DOMAIN changes THEN changes[f] ELSE view[v][f]
  BY DEF TermsInv, Advance

LEMMA AnswerMoves ==
  ASSUME TermsInv, NEW v \in Viewers, NEW STATE response, Answer(v, response)
  PROVE  /\ DOMAIN view'[v] = DOMAIN Idle
         /\ view'[v].pc = "done" /\ view'[v].path = view[v].path /\ view'[v].reply = response
  BY DEF TermsInv, Answer, Idle

---------------------------------------------------------------------------
(* Step by step *)

\* A step to another label of the same request.
LEMMA MovesOn ==
  ASSUME TermsInv, NEW v \in Viewers, Forwarded(v), NEW STATE changes, Advance(v, changes),
         UNCHANGED <<asked, made>>,
         "path" \notin DOMAIN changes,
         view'[v].pc \in UnderWay,
         view'[v].pc = "reply" =>
           /\ "reply" \in DOMAIN changes
           /\ changes.reply.status = 200 => Agreed(view[v].path, changes.reply.terms),
         view'[v].pc \in {"load", "put", "record"} => made[v].parsed.ok
  PROVE  ViewInv(v)'
PROOF
  <1>1. /\ DOMAIN view'[v] = DOMAIN Idle
        /\ \A f \in DOMAIN Idle : view'[v][f] = IF f \in DOMAIN changes THEN changes[f] ELSE view[v][f]
    BY AdvanceMoves
  <1>2. view'[v].path = view[v].path
    BY <1>1 DEF Idle
  <1>3. "reply" \in DOMAIN changes => view'[v].reply = changes.reply
    BY <1>1 DEF Idle
  <1>4. Forwarded(v)'
    BY <1>2 DEF Forwarded, UnderWay
  <1>5. made'[v] = Made(asked'[v])
    BY DEF TermsInv, ViewInv, Forwarded
  <1>6. view'[v].pc \in {"reply", "done"} /\ view'[v].reply.status = 200 => Agreed(view'[v].path, view'[v].reply.terms)
    BY <1>2, <1>3 DEF UnderWay
  <1> QED
    BY <1>1, <1>4, <1>5, <1>6 DEF ViewInv

\* Such a step, with bucket and cache as they were.
StoresStay == UNCHANGED <<asked, made, stored, cached>>

LEMMA MovesOnAlone ==
  ASSUME TermsInv, NEW v \in Viewers, NEW STATE changes, Advance(v, changes), StoresStay, ViewInv(v)'
  PROVE  TermsInv'
  BY OneViewerMoved DEF Advance, StoresStay, TermsInv

LEMMA AnswersAlone ==
  ASSUME TermsInv, NEW v \in Viewers, view[v].pc # "away", NEW STATE response, Answer(v, response), StoresStay,
         response.status = 200 => Agreed(view[v].path, response.terms)
  PROVE  TermsInv'
PROOF
  <1>1. ViewInv(v)'
    BY AnswerMoves DEF TermsInv, ViewInv, Forwarded, UnderWay, StoresStay
  <1> QED
    BY <1>1, OneViewerMoved DEF Answer, StoresStay, TermsInv

\* The label after a step that names it.
LEMMA NextLabel ==
  ASSUME TermsInv, NEW v \in Viewers, NEW STATE changes, Advance(v, changes)
  PROVE  /\ "pc" \in DOMAIN changes => view'[v].pc = changes.pc
         /\ "pc" \notin DOMAIN changes => view'[v].pc = view[v].pc
  BY AdvanceMoves DEF Idle

LEMMA EdgeInOrder ==
  ASSUME TermsInv, NEW v \in Viewers, EdgeFunction(v)
  PROVE  TermsInv'
PROOF
  <1>1. StoresStay /\ view[v].pc = "new"
    BY DEF EdgeFunction, StoresStay, elsewhere, bucket
  <1>2. ASSUME NEW status, NEW by, status # 200, Answer(v, Failure(status, by, NO_STORE)) PROVE TermsInv'
    BY <1>1, <1>2, AnswersAlone DEF Failure, Response
  <1>3. ASSUME made[v].edge.status # 400, Advance(v, [pc |-> "lookup", path |-> made[v].edge.path]) PROVE TermsInv'
    <2>1. view'[v].pc = "lookup" /\ view'[v].path = made[v].edge.path /\ DOMAIN view'[v] = DOMAIN Idle
      BY <1>3, AdvanceMoves DEF Idle
    <2>2. ViewInv(v)'
      BY <1>1, <1>3, <2>1 DEF TermsInv, ViewInv, Forwarded, UnderWay, StoresStay
    <2> QED
      BY <1>1, <1>3, <2>2, MovesOnAlone
  <1> QED
    BY <1>2, <1>3 DEF EdgeFunction

LEMMA LookupInOrder ==
  ASSUME TermsInv, NEW v \in Viewers, Hit(v) \/ Miss(v)
  PROVE  TermsInv'
PROOF
  <1>1. StoresStay /\ view[v].pc = "lookup" /\ Forwarded(v)
    BY DEF Hit, Miss, StoresStay, elsewhere, bucket, TermsInv, ViewInv, UnderWay
  <1>2. CASE Hit(v)
    <2> DEFINE response == cached[view[v].path]
    <2>1. Answer(v, response) /\ view[v].path \in DOMAIN cached
      BY <1>2 DEF Hit
    <2>2. response.status = 200 => Agreed(view[v].path, response.terms)
      BY <2>1 DEF TermsInv
    <2>3. view[v].pc # "away"
      BY <1>1
    <2> HIDE DEF response
    <2> QED
      BY <1>1, <2>1, <2>2, <2>3, AnswersAlone
  <1>3. ASSUME view[v].path \in DOMAIN stored,
               Advance(v, [pc |-> "reply", reply |-> Response(200, "s3", stored[view[v].path].terms, stored[view[v].path].source)])
        PROVE  TermsInv'
    <2> DEFINE reply == Response(200, "s3", stored[view[v].path].terms, stored[view[v].path].source)
    <2>1. Agreed(view[v].path, reply.terms)
      BY <1>3 DEF TermsInv, Response
    <2>0. Advance(v, [pc |-> "reply", reply |-> reply])
      BY <1>3
    <2> HIDE DEF reply
    <2>2. view'[v].pc = "reply"
      BY <2>0, NextLabel
    <2>3. ViewInv(v)'
      BY <1>1, <2>0, <2>1, <2>2, MovesOn DEF StoresStay, UnderWay
    <2> QED
      BY <1>1, <1>3, <2>3, MovesOnAlone
  <1>4. ASSUME Advance(v, [pc |-> "generate"]) PROVE TermsInv'
    <2>1. view'[v].pc = "generate"
      BY <1>4, NextLabel
    <2>2. ViewInv(v)'
      BY <1>1, <1>4, <2>1, MovesOn DEF StoresStay, UnderWay
    <2> QED
      BY <1>1, <1>4, <2>2, MovesOnAlone
  <1> QED
    BY <1>2, <1>3, <1>4 DEF Miss

LEMMA ReplyInOrder ==
  ASSUME TermsInv, NEW v \in Viewers, Reply(v)
  PROVE  TermsInv'
PROOF
  <1> DEFINE path == view[v].path
             reply == view[v].reply
  <1>1. reply.status = 200 => Agreed(path, reply.terms)
    BY DEF Reply, TermsInv, ViewInv
  <1>2. \A p \in DOMAIN cached' : cached'[p] = IF p = path /\ cached' # cached THEN reply ELSE cached[p]
    BY DEF Reply
  <1>3. \A p \in DOMAIN cached' : p \in DOMAIN cached \/ (p = path /\ cached' # cached)
    BY DEF Reply
  <1>4. \A p \in DOMAIN cached' : cached'[p].status = 200 => Agreed(p, cached'[p].terms)
    BY <1>1, <1>2, <1>3 DEF TermsInv
  <1>5. UNCHANGED <<asked, made, stored>> /\ Answer(v, reply) /\ view[v].pc = "reply"
    BY DEF Reply, elsewhere, bucket
  <1>6. ViewInv(v)'
    BY <1>1, <1>5, AnswerMoves DEF TermsInv, ViewInv, Forwarded, UnderWay
  <1> QED
    BY <1>4, <1>5, <1>6, OneViewerMoved DEF Answer, TermsInv

---------------------------------------------------------------------------
(* The generator's steps *)

\* A failure shows no image, whoever is told.
LEMMA FailureInOrder ==
  ASSUME TermsInv, NEW v \in Viewers, Forwarded(v), NEW STATE reply, reply.status # 200,
         Advance(v, [pc |-> "reply", reply |-> reply]), UNCHANGED <<asked, made>>
  PROVE  ViewInv(v)'
PROOF
  <1>1. view'[v].pc = "reply"
    BY NextLabel
  <1> QED
    BY <1>1, MovesOn DEF UnderWay

LEMMA FailureStatuses ==
  /\ \A status : clientError(status).status = status
  /\ generationFailed.status # 200
  BY DEF clientError, generationFailed, Failure, Response

LEMMA GenerateInOrder ==
  ASSUME TermsInv, NEW v \in Viewers, Generate(v)
  PROVE  TermsInv'
PROOF
  <1>1. StoresStay /\ Forwarded(v)
    BY DEF Generate, StoresStay, elsewhere, bucket, TermsInv, ViewInv, UnderWay
  <1>2. ASSUME NEW status, status # 200, Advance(v, [pc |-> "reply", reply |-> clientError(status)]) PROVE TermsInv'
    BY <1>1, <1>2, FailureStatuses, FailureInOrder, MovesOnAlone DEF StoresStay
  <1>3. ASSUME made[v].parsed.ok, Advance(v, [pc |-> "load", head |-> "unread", listed |-> "unread"]) PROVE TermsInv'
    <2>1. view'[v].pc = "load"
      BY <1>3, NextLabel
    <2>2. ViewInv(v)'
      BY <1>1, <1>3, <2>1, MovesOn DEF StoresStay, UnderWay
    <2> QED
      BY <1>1, <1>3, <2>2, MovesOnAlone
  <1> QED
    BY <1>2, <1>3 DEF Generate

LEMMA LoadInOrder ==
  ASSUME TermsInv, NEW v \in Viewers, HeadMaster(v) \/ ListOriginal(v) \/ GetSource(v)
  PROVE  TermsInv'
PROOF
  <1>1. StoresStay /\ Forwarded(v) /\ made[v].parsed.ok /\ view[v].pc = "load"
    BY DEF HeadMaster, ListOriginal, GetSource, StoresStay, elsewhere, bucket, TermsInv, ViewInv, UnderWay
  <1>2. ASSUME NEW STATE answer, Advance(v, [head |-> answer]) \/ Advance(v, [listed |-> answer]) PROVE TermsInv'
    <2>1. ASSUME NEW STATE changes, DOMAIN changes \cap {"pc", "path", "reply"} = {}, Advance(v, changes) PROVE TermsInv'
      <3>1. view'[v].pc = "load"
        BY <1>1, <2>1, NextLabel
      <3>2. ViewInv(v)'
        BY <1>1, <2>1, <3>1, MovesOn DEF StoresStay, UnderWay
      <3> QED
        BY <1>1, <2>1, <3>2, MovesOnAlone
    <2> QED
      BY <1>2, <2>1
  <1>3. ASSUME NEW STATE reply, reply.status # 200, Advance(v, [pc |-> "reply", reply |-> reply]) PROVE TermsInv'
    BY <1>1, <1>3, FailureInOrder, MovesOnAlone DEF StoresStay
  <1>4. ASSUME NEW STATE from, Advance(v, [pc |-> "put", source |-> from]) PROVE TermsInv'
    <2>1. view'[v].pc = "put"
      BY <1>4, NextLabel
    <2>2. ViewInv(v)'
      BY <1>1, <1>4, <2>1, MovesOn DEF StoresStay, UnderWay
    <2> QED
      BY <1>1, <1>4, <2>2, MovesOnAlone
  <1>5. CASE GetSource(v)
    BY <1>3, <1>4, <1>5, FailureStatuses DEF GetSource
  <1> QED
    BY <1>2, <1>5 DEF HeadMaster, ListOriginal

\* What is put agrees with the path it was asked for under.
LEMMA PutAgrees ==
  ASSUME TermsInv, NEW v \in Viewers, view[v].pc = "put", NEW source,
         stored' = putIfAbsent(stored, made[v].key, [source |-> source, terms |-> Terms(RequestedSpec(v))])
  PROVE  \A key \in DOMAIN stored' : Agreed(key, stored'[key].terms)
PROOF
  <1>1. Agreed(made[v].key, Terms(RequestedSpec(v)))
    BY RequestedTermsAgree DEF TermsInv, ViewInv, UnderWay
  <1> QED
    BY <1>1 DEF TermsInv, putIfAbsent

LEMMA PutInOrder ==
  ASSUME TermsInv, NEW v \in Viewers, RenderAndPut(v) \/ GenerationFails(v)
  PROVE  TermsInv'
PROOF
  <1>1. UNCHANGED <<asked, made, cached>> /\ Forwarded(v)
    BY DEF RenderAndPut, GenerationFails, elsewhere, TermsInv, ViewInv, UnderWay
  <1>2. \A key \in DOMAIN stored' : Agreed(key, stored'[key].terms)
    <2>1. CASE stored' = stored
      BY <2>1 DEF TermsInv
    <2> QED
      BY <2>1, PutAgrees DEF RenderAndPut, GenerationFails
  <1>3. ASSUME RenderAndPut(v) PROVE ViewInv(v)' /\ Advance(v, [pc |-> "record"])
    <2>1. view'[v].pc = "record" /\ made[v].parsed.ok
      BY <1>3, NextLabel DEF RenderAndPut, TermsInv, ViewInv
    <2> QED
      BY <1>1, <1>3, <2>1, MovesOn DEF RenderAndPut, UnderWay
  <1>4. ASSUME GenerationFails(v) PROVE ViewInv(v)' /\ Advance(v, [pc |-> "reply", reply |-> generationFailed])
    BY <1>1, <1>4, FailureStatuses, FailureInOrder DEF GenerationFails
  <1>5. CASE RenderAndPut(v)
    BY <1>1, <1>2, <1>3, <1>5, OneViewerMoved DEF Advance, TermsInv
  <1>6. CASE GenerationFails(v)
    BY <1>1, <1>2, <1>4, <1>6, OneViewerMoved DEF Advance, TermsInv
  <1> QED
    BY <1>5, <1>6

LEMMA RecordInOrder ==
  ASSUME TermsInv, NEW v \in Viewers, Record(v)
  PROVE  TermsInv'
PROOF
  <1>1. StoresStay /\ Forwarded(v) /\ made[v].parsed.ok
    BY DEF Record, StoresStay, elsewhere, bucket, TermsInv, ViewInv, UnderWay
  <1>2. PICK reply : /\ Advance(v, [pc |-> "reply", reply |-> reply])
                     /\ reply.status = 200 => reply.terms = Terms(RequestedSpec(v))
    BY FailureStatuses DEF Record, redirectToStoredObject, Response
  <1>3. Agreed(view[v].path, Terms(RequestedSpec(v)))
    BY <1>1, RequestedTermsAgree DEF TermsInv
  <1>4. view'[v].pc = "reply"
    BY <1>2, NextLabel
  <1>5. ViewInv(v)'
    BY <1>1, <1>2, <1>3, <1>4, MovesOn DEF StoresStay, UnderWay
  <1> QED
    BY <1>1, <1>2, <1>5, MovesOnAlone

LEMMA RetryInOrder ==
  ASSUME TermsInv, NEW v \in Viewers, Retry(v)
  PROVE  TermsInv'
PROOF
  <1>1. StoresStay /\ view[v].pc = "done" /\ Advance(v, [pc |-> "new"])
    BY DEF Retry, StoresStay, elsewhere, bucket
  <1>2. view'[v].pc = "new" /\ view'[v].path = view[v].path /\ DOMAIN view'[v] = DOMAIN Idle
    BY <1>1, AdvanceMoves DEF Idle
  <1>3. ViewInv(v)'
    BY <1>1, <1>2 DEF TermsInv, ViewInv, Forwarded, UnderWay, StoresStay
  <1> QED
    BY <1>1, <1>3, MovesOnAlone

---------------------------------------------------------------------------
(* The cache ages, and the rest of the system *)

\* Nothing moves that a viewer knows; the bucket and the cache may only lose.
LEMMA ElsewhereInOrder ==
  ASSUME TermsInv, UNCHANGED <<asked, made, view>>, stored' = stored \/ stored' = <<>>,
         cached' = cached \/ \E S : cached' = Without(cached, S)
  PROVE  TermsInv'
PROOF
  <1>1. \A v \in Viewers : ViewInv(v)'
    BY DEF TermsInv, ViewInv, Forwarded
  <1>2. \A key \in DOMAIN stored' : Agreed(key, stored'[key].terms)
    BY DEF TermsInv
  <1>3. \A path \in DOMAIN cached' : cached'[path].status = 200 => Agreed(path, cached'[path].terms)
    <2>1. CASE cached' = cached
      BY <2>1 DEF TermsInv
    <2>2. ASSUME NEW S, cached' = Without(cached, S) PROVE  \A path \in DOMAIN cached' : cached'[path].status = 200 => Agreed(path, cached'[path].terms)
      <3>1. \A path \in DOMAIN cached' : path \in DOMAIN cached /\ cached'[path] = cached[path]
        BY <2>2 DEF Without
      <3> QED
        BY <3>1 DEF TermsInv
    <2> QED
      BY <2>1, <2>2
  <1> QED
    BY <1>1, <1>2, <1>3 DEF TermsInv

LEMMA TermsInvStep ==
  ASSUME TermsInv, Next
  PROVE  TermsInv'
PROOF
  <1>1. ASSUME NEW v \in Viewers, ViewerStep(v) PROVE TermsInv'
    BY <1>1, EdgeInOrder, LookupInOrder, ReplyInOrder, GenerateInOrder, LoadInOrder, PutInOrder, RecordInOrder
    DEF ViewerStep
  <1>2. ASSUME NEW v \in Viewers, GenerationFails(v) \/ Retry(v) PROVE TermsInv'
    BY <1>2, PutInOrder, RetryInOrder
  <1>3. ASSUME NEW v \in Viewers, ExpireError(v) \/ Evict(v) PROVE TermsInv'
    BY <1>3, ElsewhereInOrder DEF ExpireError, Evict, elsewhere, bucket
  <1>4. ASSUME NEW version \in Versions, Promote(version) \/ ReadOriginal(version) \/ PutMaster(version) PROVE TermsInv'
    BY <1>4, ElsewhereInOrder DEF Promote, ReadOriginal, PutMaster, bucket
  <1>5. CASE Delete
    BY <1>5, ElsewhereInOrder DEF Delete, bucket
  <1>6. CASE DeletePrefix
    BY <1>6, ElsewhereInOrder DEF DeletePrefix, bucket
  <1>7. CASE InvalidateAsset
    BY <1>7, ElsewhereInOrder DEF InvalidateAsset, bucket
  <1> QED
    BY <1>1, <1>2, <1>3, <1>4, <1>5, <1>6, <1>7 DEF Next

LEMMA TermsInvInit == Init => TermsInv
  <1> SUFFICES ASSUME NEW s \in Scenarios,
                      made = [v \in Viewers |-> IF s.asked[v] = NoRequest THEN <<>> ELSE Made(s.asked[v])],
                      view = [v \in Viewers |-> IF s.asked[v] = NoRequest THEN [Idle EXCEPT !.pc = "away"] ELSE Idle],
                      asked = s.asked, stored = <<>>, cached = <<>>
               PROVE  TermsInv
    BY DEF Init
  <1>1. ASSUME NEW v \in Viewers PROVE ViewInv(v)
    <2>1. CASE asked[v] = NoRequest
      <3>1. view[v].pc = "away" /\ view[v].path = <<>> /\ DOMAIN view[v] = DOMAIN Idle
        BY <2>1 DEF Idle
      <3> QED
        BY <3>1 DEF ViewInv, UnderWay
    <2>2. CASE asked[v] # NoRequest
      <3>1. view[v].pc = "new" /\ view[v].path = <<>> /\ DOMAIN view[v] = DOMAIN Idle
        BY <2>2 DEF Idle
      <3>2. made[v] = Made(asked[v])
        BY <2>2
      <3> QED
        BY <3>1, <3>2 DEF ViewInv, UnderWay
    <2> QED
      BY <2>1, <2>2
  <1> QED
    BY <1>1 DEF TermsInv

\* Whoever asks for whatever: the viewer answered by the generator, from the bucket or
\* from the cache is given an image on the terms its own URL stands for, and so is what
\* the bucket holds under the path (generator.ts, the second of its two rules).
THEOREM FirstViewerSeesSameTermsCorrect == Spec => []FirstViewerSeesSameTerms
PROOF
  <1>1. TermsInv => FirstViewerSeesSameTerms
    <2> SUFFICES ASSUME TermsInv, NEW v \in Viewers
                 PROVE  /\ view[v].reply.status = 200 /\ view[v].pc = "done" =>
                             view[v].reply.terms = Terms(RequestedSpec(v))
                        /\ view[v].path \in DOMAIN stored => stored[view[v].path].terms = Terms(RequestedSpec(v))
      BY DEF FirstViewerSeesSameTerms
    <2>1. ASSUME NEW terms, Agreed(view[v].path, terms) PROVE terms = Terms(RequestedSpec(v))
      <3>1. Forwarded(v)
        BY <2>1, NothingDoesNotParse DEF TermsInv, ViewInv, Agreed
      <3> QED
        BY <2>1, <3>1, ForwardedParses DEF TermsInv, Agreed, RequestedSpec
    <2> QED
      BY <2>1 DEF TermsInv, ViewInv
  <1>2. TermsInv /\ [Next]_vars => TermsInv'
    <2>1. ASSUME TermsInv, UNCHANGED vars PROVE TermsInv'
      BY <2>1, ElsewhereInOrder DEF vars
    <2> QED
      BY <2>1, TermsInvStep
  <1> QED
    BY <1>1, <1>2, TermsInvInit, PTL DEF Spec

---------------------------------------------------------------------------
(* Types.  What the invariant adds to DeliveryTypeOK is what the writes rest *)
(* on: a rendition is put with the source it was read from, an answer under  *)
(* way may be kept or says that it may not, and the worker holds an original *)
(* only where a master is called for.                                        *)

Labels == {"away", "new", "lookup", "generate", "load", "put", "record", "reply", "done"}

Answerable(reply) == reply.status \in {200, 400, 404} \/ reply.terms[2] = NO_STORE

ViewTyped(v) ==
  /\ view[v].pc \in Labels
  /\ view[v].pc = "put" => view[v].source \in Sources
  /\ view[v].pc = "reply" => Answerable(view[v].reply)

BucketTyped ==
  /\ originals \subseteq Versions /\ masters \subseteq Large
  /\ \A key \in DOMAIN stored : stored[key].source \in Sources

CacheTyped ==
  \A path \in DOMAIN cached : cached[path].status \in {200, 400, 404} /\ cached[path].terms[2] # NO_STORE

WorkerTyped ==
  /\ DOMAIN worker = Versions
  /\ \A version \in Versions : worker[version] = "holding" => version \in Large

TypesInv ==
  /\ \A v \in Viewers : ViewTyped(v)
  /\ BucketTyped /\ CacheTyped /\ WorkerTyped
  /\ faults \in Nat

LEMMA TypesInvInit == Init => TypesInv
PROOF
  <1> SUFFICES ASSUME NEW s \in Scenarios,
                      view = [v \in Viewers |-> IF s.asked[v] = NoRequest THEN [Idle EXCEPT !.pc = "away"] ELSE Idle],
                      originals = s.originals, masters = {}, stored = <<>>, cached = <<>>,
                      worker = [v \in Versions |-> "idle"], faults = s.faults
               PROVE  TypesInv
    BY DEF Init
  <1>1. ASSUME NEW v \in Viewers PROVE ViewTyped(v)
    <2>1. view[v].pc \in {"away", "new"}
      BY DEF Idle
    <2> QED
      BY <2>1 DEF ViewTyped, Labels
  <1> QED
    BY <1>1, ScenariosSetOut DEF TypesInv, BucketTyped, CacheTyped, WorkerTyped

\* A fault is spent only while there are any.
LEMMA FaultsSpent ==
  ASSUME faults \in Nat, CostsAFault \/ faults' = faults
  PROVE  faults' \in Nat
  BY DEF CostsAFault

\* The conditional put adds one object at most.
LEMMA PutTyped ==
  ASSUME BucketTyped, UNCHANGED <<originals, masters>>, NEW key, NEW STATE source, source \in Sources, NEW terms,
         stored' = putIfAbsent(stored, key, [source |-> source, terms |-> terms])
  PROVE  BucketTyped'
  BY DEF BucketTyped, putIfAbsent

LEMMA OthersTyped ==
  ASSUME TermsInv, TypesInv, NEW v \in Viewers, NEW STATE m, view' = [view EXCEPT ![v] = m], ViewTyped(v)'
  PROVE  \A w \in Viewers : ViewTyped(w)'
PROOF
  <1>1. ASSUME NEW w \in Viewers, w # v PROVE ViewTyped(w)'
    <2>1. view'[w] = view[w]
      BY <1>1 DEF TermsInv
    <2> QED
      BY <2>1 DEF ViewTyped, TypesInv
  <1> QED
    BY <1>1

LEMMA AnswerTyped ==
  ASSUME TermsInv, TypesInv, NEW v \in Viewers, NEW STATE response, Answer(v, response)
  PROVE  \A w \in Viewers : ViewTyped(w)'
PROOF
  <1>1. ViewTyped(v)'
    BY AnswerMoves DEF ViewTyped, Labels
  <1> QED
    BY <1>1, OthersTyped DEF Answer

\* A step to another label, which is neither of the two that promise something ...
LEMMA AdvanceTyped ==
  ASSUME TermsInv, TypesInv, NEW v \in Viewers, NEW STATE changes, Advance(v, changes),
         view'[v].pc \in Labels \ {"put", "reply"}
  PROVE  \A w \in Viewers : ViewTyped(w)'
PROOF
  <1>1. ViewTyped(v)'
    BY DEF ViewTyped
  <1> QED
    BY <1>1, OthersTyped DEF Advance

\* ... one to an answer ...
LEMMA ReplyTyped ==
  ASSUME TermsInv, TypesInv, NEW v \in Viewers, NEW STATE reply, Answerable(reply),
         Advance(v, [pc |-> "reply", reply |-> reply])
  PROVE  \A w \in Viewers : ViewTyped(w)'
PROOF
  <1>1. view'[v].pc = "reply" /\ view'[v].reply = reply
    BY AdvanceMoves DEF Idle
  <1>2. ViewTyped(v)'
    BY <1>1 DEF ViewTyped, Labels
  <1> QED
    BY <1>2, OthersTyped DEF Advance

\* ... and one with a source in hand.
LEMMA SourceTyped ==
  ASSUME TermsInv, TypesInv, NEW v \in Viewers, NEW STATE from, from \in Sources,
         Advance(v, [pc |-> "put", source |-> from])
  PROVE  \A w \in Viewers : ViewTyped(w)'
PROOF
  <1>1. view'[v].pc = "put" /\ view'[v].source = from
    BY AdvanceMoves DEF Idle
  <1>2. ViewTyped(v)'
    BY <1>1 DEF ViewTyped, Labels
  <1> QED
    BY <1>2, OthersTyped DEF Advance

\* Every answer the generator composes may be kept, or says that it may not.
LEMMA AnswersAnswerable ==
  /\ Answerable(clientError(400)) /\ Answerable(clientError(404)) /\ Answerable(generationFailed)
  /\ \A by, terms, source : Answerable(Response(200, by, terms, source))
  /\ \A from : \A reply \in redirectToStoredObject(from) : Answerable(reply)
  BY DEF Answerable, clientError, generationFailed, redirectToStoredObject, Failure, Response

ViewsTyped == \A w \in Viewers : ViewTyped(w)

LEMMA ViewerStepTyped ==
  ASSUME TermsInv, TypesInv, NEW v \in Viewers, ViewerStep(v) \/ GenerationFails(v) \/ Retry(v)
  PROVE  ViewsTyped'
PROOF
  <1>1. CASE EdgeFunction(v)
    <2>1. ASSUME Advance(v, [pc |-> "lookup", path |-> made[v].edge.path]) PROVE ViewsTyped'
      <3>1. view'[v].pc = "lookup"
        BY <2>1, NextLabel
      <3> QED
        BY <2>1, <3>1, AdvanceTyped DEF ViewsTyped, Labels
    <2> QED
      BY <1>1, <2>1, AnswerTyped DEF EdgeFunction, ViewsTyped
  <1>2. CASE Hit(v) \/ Reply(v)
    BY <1>2, AnswerTyped DEF Hit, Reply, ViewsTyped
  <1>3. CASE Miss(v)
    <2>1. ASSUME Advance(v, [pc |-> "generate"]) PROVE ViewsTyped'
      <3>1. view'[v].pc = "generate"
        BY <2>1, NextLabel
      <3> QED
        BY <2>1, <3>1, AdvanceTyped DEF ViewsTyped, Labels
    <2> QED
      BY <1>3, <2>1, AnswersAnswerable, ReplyTyped DEF Miss, ViewsTyped
  <1>4. CASE Generate(v)
    <2>1. ASSUME Advance(v, [pc |-> "load", head |-> "unread", listed |-> "unread"]) PROVE ViewsTyped'
      <3>1. view'[v].pc = "load"
        BY <2>1, NextLabel
      <3> QED
        BY <2>1, <3>1, AdvanceTyped DEF ViewsTyped, Labels
    <2> QED
      BY <1>4, <2>1, AnswersAnswerable, ReplyTyped DEF Generate, ViewsTyped
  <1>5. ASSUME view[v].pc = "load", NEW STATE answer, Advance(v, [head |-> answer]) \/ Advance(v, [listed |-> answer])
        PROVE  ViewsTyped'
    <2>1. ASSUME NEW STATE changes, "pc" \notin DOMAIN changes, Advance(v, changes) PROVE ViewsTyped'
      <3>1. view'[v].pc = "load"
        BY <1>5, <2>1, NextLabel
      <3> QED
        BY <2>1, <3>1, AdvanceTyped DEF ViewsTyped, Labels
    <2> QED
      BY <1>5, <2>1
  <1>6. CASE HeadMaster(v) \/ ListOriginal(v)
    BY <1>5, <1>6 DEF HeadMaster, ListOriginal
  <1>7. CASE GetSource(v)
    BY <1>7, AnswersAnswerable, ReplyTyped, SourceTyped DEF GetSource, ViewsTyped, Sources
  <1>8. CASE RenderAndPut(v)
    <2>1. view'[v].pc = "record" /\ Advance(v, [pc |-> "record"])
      BY <1>8, NextLabel DEF RenderAndPut
    <2> QED
      BY <2>1, AdvanceTyped DEF ViewsTyped, Labels
  <1>9. CASE GenerationFails(v)
    BY <1>9, AnswersAnswerable, ReplyTyped DEF GenerationFails, ViewsTyped
  <1>10. CASE Record(v)
    <2>1. PICK reply : Advance(v, [pc |-> "reply", reply |-> reply]) /\ Answerable(reply)
      BY <1>10, AnswersAnswerable DEF Record
    <2> QED
      BY <2>1, ReplyTyped DEF ViewsTyped
  <1>11. CASE Retry(v)
    <2>1. view'[v].pc = "new" /\ Advance(v, [pc |-> "new"])
      BY <1>11, NextLabel DEF Retry
    <2> QED
      BY <2>1, AdvanceTyped DEF ViewsTyped, Labels
  <1> QED
    BY <1>1, <1>2, <1>3, <1>4, <1>6, <1>7, <1>8, <1>9, <1>10, <1>11 DEF ViewerStep

\* What a viewer's step does to the stores: it keeps an answer, or adds a rendition.
LEMMA ViewerStoresTyped ==
  ASSUME TypesInv, NEW v \in Viewers, ViewerStep(v) \/ GenerationFails(v) \/ Retry(v)
  PROVE  BucketTyped' /\ CacheTyped' /\ WorkerTyped' /\ faults' \in Nat
PROOF
  <1>1. worker' = worker /\ UNCHANGED <<originals, masters>>
    BY DEF ViewerStep, EdgeFunction, Hit, Miss, Reply, Generate, HeadMaster, ListOriginal, GetSource, RenderAndPut,
           Record, GenerationFails, Retry, bucket, elsewhere
  <1>2. CASE RenderAndPut(v) \/ (GenerationFails(v) /\ stored' # stored)
    <2>1. view[v].source \in Sources
      BY <1>2 DEF RenderAndPut, GenerationFails, TypesInv, ViewTyped
    <2>2. stored' = putIfAbsent(stored, made[v].key, [source |-> view[v].source, terms |-> Terms(RequestedSpec(v))])
      BY <1>2 DEF RenderAndPut, GenerationFails
    <2>3. BucketTyped'
      BY <1>1, <2>1, <2>2, PutTyped DEF TypesInv
    <2>4. cached' = cached /\ (CostsAFault \/ faults' = faults)
      BY <1>2 DEF RenderAndPut, GenerationFails
    <2> QED
      BY <1>1, <2>3, <2>4, FaultsSpent DEF TypesInv, CacheTyped, WorkerTyped
  <1>3. CASE Reply(v)
    <2>1. Answerable(view[v].reply) /\ UNCHANGED <<stored, faults>>
      BY <1>3 DEF Reply, TypesInv, ViewTyped, bucket
    <2>2. CacheTyped'
      BY <1>3, <2>1 DEF Reply, Answerable, CacheTyped, TypesInv
    <2> QED
      BY <1>1, <2>1, <2>2 DEF TypesInv, BucketTyped, WorkerTyped
  <1>4. CASE stored' = stored /\ ~RenderAndPut(v) /\ ~Reply(v)
    <2>1. cached' = cached /\ (CostsAFault \/ faults' = faults)
      BY <1>4 DEF ViewerStep, EdgeFunction, Hit, Miss, Generate, HeadMaster, ListOriginal, GetSource,
                  Record, GenerationFails, Retry
    <2> QED
      BY <1>1, <1>4, <2>1, FaultsSpent DEF TypesInv, BucketTyped, CacheTyped, WorkerTyped
  <1>5. stored' # stored => RenderAndPut(v) \/ GenerationFails(v)
    BY DEF ViewerStep, EdgeFunction, Hit, Miss, Reply, Generate, HeadMaster, ListOriginal, GetSource,
           Record, Retry, bucket
  <1> QED
    BY <1>2, <1>3, <1>4, <1>5

LEMMA WithoutTyped ==
  ASSUME CacheTyped, NEW STATE S, cached' = Without(cached, S)
  PROVE  CacheTyped'
  BY DEF CacheTyped, Without

LEMMA ElsewhereTyped ==
  ASSUME TypesInv, view' = view, BucketTyped', CacheTyped', WorkerTyped', CostsAFault \/ faults' = faults
  PROVE  TypesInv'
PROOF
  <1>1. \A v \in Viewers : ViewTyped(v)'
    BY DEF TypesInv, ViewTyped
  <1> QED
    BY <1>1, FaultsSpent DEF TypesInv

LEMMA TypesInvStep ==
  ASSUME TermsInv, TypesInv, Next
  PROVE  TypesInv'
PROOF
  <1>1. ASSUME NEW v \in Viewers, ViewerStep(v) \/ GenerationFails(v) \/ Retry(v) PROVE TypesInv'
    BY <1>1, ViewerStepTyped, ViewerStoresTyped DEF TypesInv, ViewsTyped
  <1>2. ASSUME NEW v \in Viewers, ExpireError(v) \/ Evict(v) PROVE TypesInv'
    <2>1. CacheTyped' /\ view' = view /\ UNCHANGED <<originals, masters, stored, worker, faults>>
      BY <1>2, WithoutTyped DEF ExpireError, Evict, TypesInv, bucket, elsewhere
    <2> QED
      BY <2>1, ElsewhereTyped DEF TypesInv, BucketTyped, WorkerTyped
  <1>3. ASSUME NEW version \in Versions, Promote(version) PROVE TypesInv'
    BY <1>3, ElsewhereTyped DEF Promote, TypesInv, BucketTyped, WorkerTyped, CacheTyped
  <1>4. ASSUME NEW version \in Versions, ReadOriginal(version) PROVE TypesInv'
    BY <1>4, ElsewhereTyped DEF ReadOriginal, TypesInv, BucketTyped, WorkerTyped, CacheTyped, bucket
  <1>5. ASSUME NEW version \in Versions, PutMaster(version) PROVE TypesInv'
    BY <1>5, ElsewhereTyped DEF PutMaster, TypesInv, BucketTyped, WorkerTyped, CacheTyped
  <1>6. CASE Delete
    BY <1>6, ElsewhereTyped DEF Delete, TypesInv, BucketTyped, WorkerTyped, CacheTyped, bucket
  <1>7. CASE DeletePrefix
    <2>1. BucketTyped' /\ UNCHANGED <<view, cached, worker>> /\ (CostsAFault \/ faults' = faults)
      BY <1>7 DEF DeletePrefix, TypesInv, BucketTyped, bucket
    <2> QED
      BY <2>1, ElsewhereTyped DEF TypesInv, WorkerTyped, CacheTyped
  <1>8. CASE InvalidateAsset
    <2>1. CacheTyped' /\ view' = view /\ UNCHANGED <<originals, masters, stored, worker, faults>>
      BY <1>8, WithoutTyped DEF InvalidateAsset, TypesInv, CacheTyped, bucket
    <2> QED
      BY <2>1, ElsewhereTyped DEF TypesInv, BucketTyped, WorkerTyped
  <1> QED
    BY <1>1, <1>2, <1>3, <1>4, <1>5, <1>6, <1>7, <1>8 DEF Next

\* Whatever is asked, uploaded, optimized, deleted or fails, in whatever order: what is
\* in the bucket was rendered from an original or a master, masters are only of sources
\* that call for one, and nothing whose terms forbid it is kept by the CDN - no failure
\* of the generator, no redirect (cdn-stack.ts, generator.ts NO_STORE).
THEOREM DeliveryTypeOKCorrect == Spec => []DeliveryTypeOK
PROOF
  <1>1. TypesInv => DeliveryTypeOK
    BY DEF TypesInv, ViewTyped, Labels, BucketTyped, CacheTyped, DeliveryTypeOK
  <1>2. TermsInv /\ [Next]_vars => TermsInv'
    <2>1. ASSUME TermsInv, UNCHANGED vars PROVE TermsInv'
      BY <2>1, ElsewhereInOrder DEF vars
    <2> QED
      BY <2>1, TermsInvStep
  <1>3. TermsInv /\ TypesInv /\ [Next]_vars => TypesInv'
    <2>1. ASSUME TypesInv, UNCHANGED vars PROVE TypesInv'
      BY <2>1, ElsewhereTyped DEF vars, TypesInv, BucketTyped, CacheTyped, WorkerTyped
    <2> QED
      BY <2>1, TypesInvStep
  <1> QED
    BY <1>1, <1>2, <1>3, TermsInvInit, TypesInvInit, PTL DEF Spec

---------------------------------------------------------------------------
(* Nobody's request changes, and whoever is here asked a query of a URL. *)

AskedInv ==
  \A v \in Viewers : view[v].pc # "away" =>
    asked[v] \in KnownRequests /\ IsQuery(asked[v].query) /\ IsUri(asked[v].uri)

\* Those who ask, ask it from the start ...
LEMMA AskedInvInit == Init => AskedInv
PROOF
  <1> SUFFICES ASSUME NEW s \in Scenarios, NEW v \in Viewers,
                      view = [w \in Viewers |-> IF s.asked[w] = NoRequest THEN [Idle EXCEPT !.pc = "away"] ELSE Idle],
                      asked = s.asked, view[v].pc # "away"
               PROVE  asked[v] \in KnownRequests /\ IsQuery(asked[v].query) /\ IsUri(asked[v].uri)
    BY DEF Init, AskedInv
  <1>1. s.asked[v] # NoRequest
    BY DEF Idle
  <1> QED
    BY <1>1, ScenariosSetOut DEF KnownRequests

\* ... and whoever stays away stays away.
LEMMA AskedInvStep ==
  ASSUME TermsInv, AskedInv, Next
  PROVE  AskedInv'
PROOF
  <1>1. ASSUME NEW v \in Viewers, ViewerStep(v) \/ GenerationFails(v) \/ Retry(v) PROVE AskedInv'
    <2>1. UNCHANGED asked /\ view[v].pc # "away"
      BY <1>1 DEF ViewerStep, EdgeFunction, Hit, Miss, Reply, Generate, HeadMaster, ListOriginal, GetSource,
                  RenderAndPut, Record, GenerationFails, Retry, elsewhere
    <2>2. \E m : view' = [view EXCEPT ![v] = m]
      <3>1. ASSUME NEW STATE changes, Advance(v, changes) PROVE \E m : view' = [view EXCEPT ![v] = m]
        BY <3>1 DEF Advance
      <3>2. ASSUME NEW STATE response, Answer(v, response) PROVE \E m : view' = [view EXCEPT ![v] = m]
        BY <3>2 DEF Answer
      <3>3. CASE EdgeFunction(v) \/ Hit(v) \/ Reply(v)
        BY <3>1, <3>2, <3>3 DEF EdgeFunction, Hit, Reply
      <3>4. CASE Miss(v) \/ Generate(v) \/ HeadMaster(v) \/ ListOriginal(v) \/ GetSource(v) \/ RenderAndPut(v)
        BY <3>1, <3>4 DEF Miss, Generate, HeadMaster, ListOriginal, GetSource, RenderAndPut
      <3>5. CASE Record(v)
        BY <3>1, <3>5 DEF Record
      <3>6. CASE GenerationFails(v) \/ Retry(v)
        BY <3>1, <3>6 DEF GenerationFails, Retry
      <3> QED
        BY <1>1, <3>3, <3>4, <3>5, <3>6 DEF ViewerStep
    <2>3. \A w \in Viewers : w # v => view'[w] = view[w]
      BY <2>2 DEF TermsInv
    <2> QED
      BY <2>1, <2>3 DEF AskedInv
  <1>2. CASE UNCHANGED <<asked, view>>
    BY <1>2 DEF AskedInv
  <1>3. ASSUME NEW v \in Viewers, ExpireError(v) \/ Evict(v) PROVE UNCHANGED <<asked, view>>
    BY <1>3 DEF ExpireError, Evict, elsewhere
  <1>4. ASSUME NEW version \in Versions, Promote(version) \/ ReadOriginal(version) \/ PutMaster(version)
        PROVE  UNCHANGED <<asked, view>>
    BY <1>4 DEF Promote, ReadOriginal, PutMaster
  <1>5. Delete \/ DeletePrefix \/ InvalidateAsset => UNCHANGED <<asked, view>>
    BY DEF Delete, DeletePrefix, InvalidateAsset
  <1> QED
    BY <1>1, <1>2, <1>3, <1>4, <1>5 DEF Next

\* The two invariants the rest follows from hold together.
LEMMA AskedStays ==
  ASSUME TermsInv, AskedInv, [Next]_vars
  PROVE  TermsInv' /\ AskedInv'
PROOF
  <1>1. ASSUME UNCHANGED vars PROVE TermsInv' /\ AskedInv'
    BY <1>1, ElsewhereInOrder DEF vars, AskedInv
  <1> QED
    BY <1>1, TermsInvStep, AskedInvStep

\* For every query whose numbers are exact or unparseable and whose colour is hex
\* digits, under every Accept header: the edge function rewrites to the name the core
\* library gives the parsed spec, or refuses with the same code for the same parameter
\* (normalize.template.js and transform-spec.ts, written twice).
THEOREM EdgeMatchesCoreCorrect == Spec => []EdgeMatchesCore
PROOF
  <1>1. AskedInv => EdgeMatchesCore
    <2> SUFFICES ASSUME AskedInv, NEW v \in Viewers, view[v].pc = "new"
                 PROVE  SameAnswer(asked[v].query, asked[v].accept)
      BY DEF EdgeMatchesCore, SameAnswer, CoreParse
    <2>1. IsQuery(asked[v].query)
      BY DEF AskedInv
    <2> QED
      BY <2>1, EdgeAgrees
  <1>2. TermsInv /\ AskedInv /\ [Next]_vars => TermsInv' /\ AskedInv'
    BY AskedStays
  <1> QED
    BY <1>1, <1>2, TermsInvInit, AskedInvInit, PTL DEF Spec

---------------------------------------------------------------------------
(* What the edge writes, the generator reads. *)

\* A query the core accepts has every parameter in order, and its spec is the one made of it.
LEMMA AcceptedQueries ==
  ASSUME NEW query, IsQuery(query), NEW accept, parseTransform(query, accept, 0, FALSE).ok
  PROVE  /\ Accepted(query) /\ EnumsKnown(query)
         /\ parseTransform(query, accept, 0, FALSE).spec = SpecOf(query, accept, 0, FALSE)
PROOF
  <1> DEFINE bad == {i \in DOMAIN NumericParams : Bad(query, i)}
             core == parseTransform(query, accept, 0, FALSE)
  <1>1. core = CASE bad # {} -> Rejected("invalid_number", NumericParams[Least(bad)])
                 [] bad = {} /\ enumError(query) # <<>> -> Rejected(enumError(query)[1], enumError(query)[2])
                 [] OTHER -> [ok |-> TRUE, spec |-> SpecOf(query, accept, 0, FALSE)]
    BY DEF parseTransform
  <1>2. \A code, parameter : ~Rejected(code, parameter).ok
    BY DEF Rejected
  <1>3. core.ok
    OBVIOUS
  <1> HIDE DEF core
  <1>4. bad = {} /\ enumError(query) = <<>> /\ core.spec = SpecOf(query, accept, 0, FALSE)
    <2> HIDE DEF bad
    <2> QED
      BY <1>1, <1>2, <1>3
  <1>5. EnumsKnown(query)
    <2>1. \A a, b : <<a, b>> # <<>>
      OBVIOUS
    <2>2. enumError(query) = <<>>
      BY <1>4
    <2> QED
      BY <2>1, <2>2 DEF enumError, EnumsKnown, Unknown
  <1>6. Accepted(query)
    <2>1. DOMAIN NumericParams = 1..6
      BY DEF NumericParams
    <2>2. \A i \in 1..6 : NumericParams[i] \in DOMAIN query => query[NumericParams[i]] \in Fraction
      BY <1>4, <2>1 DEF Bad, IsQuery, Fraction
    <2>3. \A p \in {"w", "h", "q", "blur", "sharpen", "dpr"} : \E i \in 1..6 : NumericParams[i] = p
      BY DEF NumericParams
    <2> QED
      BY <2>2, <2>3 DEF Accepted, IsQuery, Hex
  <1> QED
    BY <1>4, <1>5, <1>6 DEF core

Asking(query, accept) == parseTransform(query, accept, 0, FALSE)
Derived(uri, query, accept, path) ==
  /\ Asking(query, accept).ok
  /\ uri[2] # "" /\ Edge!isVersionSegment(uri[3]) /\ uri[3] \in VersionSegments
  /\ path = <<DERIVED_PREFIX, uri[2], uri[3], toVariantName(Asking(query, accept).spec)>>

\* The answer of the edge to a request it does not refuse: the path under the derived
\* prefix, or whatever it was given, under a prefix that is not the storage's.
LEMMA EdgeForwards ==
  ASSUME NEW uri, NEW query, NEW accept, NEW result, result = Edge!handler(uri, query, accept), result.status # 400,
         IsQuery(query), IsUri(uri), result.path[1] = DERIVED_PREFIX
  PROVE  Derived(uri, query, accept, result.path)
PROOF
  <1> DEFINE core == parseTransform(query, accept, 0, FALSE)
             edge == Edge!normalize(query, accept)
             forward(path) == [status |-> 0, path |-> path]
             stored1 == Edge!has(Edge!Core!STORAGE_PREFIXES, uri[1])
             aside == Len(uri) \notin {3, 4} \/ ~Edge!has(Edge!Core!VIEWER_PATH_PREFIXES, uri[1])
             asset == Edge!isAssetId(uri[2])
             version == Edge!isVersionSegment(uri[3])
             given == IF "error" \in DOMAIN edge THEN edge.error
                      ELSE forward(<<Edge!Core!DERIVED_PREFIX, uri[2], uri[3], edge.variant>>)
  <1>1. result = CASE stored1 -> Edge!reject("unsupported_path", "path")
                   [] ~stored1 /\ aside -> forward(uri)
                   [] OTHER -> CASE ~asset -> Edge!reject("invalid_asset_id", "path")
                                 [] asset /\ ~version -> Edge!reject("invalid_version", "path")
                                 [] OTHER -> given
    BY DEF Edge!handler
  <1>2. \A code, parameter : Edge!reject(code, parameter).status = 400
    BY DEF Edge!reject
  <1>3. Edge!Core!DERIVED_PREFIX = DERIVED_PREFIX /\ DERIVED_PREFIX \in Edge!Core!STORAGE_PREFIXES
    BY DEF Edge!Core!DERIVED_PREFIX, DERIVED_PREFIX, Edge!Core!STORAGE_PREFIXES
  <1>4. \A path : forward(path).path = path
    OBVIOUS
  <1>5. ~stored1 => uri[1] # DERIVED_PREFIX
    BY <1>3 DEF Edge!has
  <1>6. asset => uri[2] # ""
    BY DEF Edge!isAssetId
  <1>7. SameAnswer(query, accept)
    BY EdgeAgrees
  <1>8. IF core.ok THEN edge = [variant |-> toVariantName(core.spec)]
        ELSE edge = [error |-> Edge!reject(core.code, core.parameter)]
    BY <1>7 DEF SameAnswer
  <1> HIDE DEF core, edge
  <1>9. core.ok => given = forward(<<DERIVED_PREFIX, uri[2], uri[3], toVariantName(core.spec)>>)
    BY <1>3, <1>8
  <1>10. ~core.ok => given.status = 400
    BY <1>2, <1>8
  <1>11. ~aside => Len(uri) \in {3, 4}
    OBVIOUS
  <1> HIDE DEF given, forward, stored1, aside, asset
  <1>12. ~stored1 /\ ~aside /\ asset /\ version /\ result = given
    <2> HIDE DEF version
    <2> QED
      BY <1>1, <1>2, <1>4, <1>5
  <1>13. core.ok
    BY <1>10, <1>12
  <1>14. result.path = <<DERIVED_PREFIX, uri[2], uri[3], toVariantName(core.spec)>>
    BY <1>4, <1>9, <1>12, <1>13
  <1>15. uri[3] \in VersionSegments
    BY <1>11, <1>12 DEF IsUri
  <1> QED
    BY <1>6, <1>12, <1>13, <1>14, <1>15 DEF core, Asking, Derived

LEMMA QuadIs ==
  ASSUME NEW p, NEW a, NEW b, NEW c, NEW d, p = <<a, b, c, d>>
  PROVE  Len(p) = 4 /\ p[1] = a /\ p[2] = b /\ p[3] = c /\ p[4] = d
  OBVIOUS

\* A path the generator can read: it says what the query asked, of the asset and version in the URL.
Understood(uri, query, accept, path) ==
  /\ parseCanonicalKey(path).ok
  /\ parseCanonicalKey(path).spec = SpecOf(query, accept, 0, FALSE)
  /\ Accepted(query) /\ EnumsKnown(query)
  /\ path = <<DERIVED_PREFIX, uri[2], uri[3], toVariantName(SpecOf(query, accept, 0, FALSE))>>
  /\ uri[3] \in VersionSegments

\* Every derivative path the edge writes parses, and says what was asked.
LEMMA EdgePathsParse ==
  ASSUME NEW uri, NEW query, NEW accept, NEW result, result = Edge!handler(uri, query, accept), result.status # 400,
         IsQuery(query), IsUri(uri), result.path[1] = DERIVED_PREFIX
  PROVE  Understood(uri, query, accept, result.path)
PROOF
  <1> DEFINE core == Asking(query, accept)
             spec == SpecOf(query, accept, 0, FALSE)
  <1> HIDE DEF core, spec
  <1>0. Derived(uri, query, accept, result.path)
    BY EdgeForwards
  <1>1. core.ok /\ uri[2] # "" /\ Edge!isVersionSegment(uri[3]) /\ uri[3] \in VersionSegments
        /\ result.path = <<DERIVED_PREFIX, uri[2], uri[3], toVariantName(core.spec)>>
    BY <1>0, Zenon DEF core, Derived
  <1>2. Accepted(query) /\ EnumsKnown(query) /\ core.spec = spec
    BY <1>1, AcceptedQueries, ZenonT(60) DEF Asking, core, spec
  <1>3. parseVariantName(toVariantName(spec)).ok /\ parseVariantName(toVariantName(spec)).spec = spec
    BY <1>2, SpecsNormal, NormalParses DEF spec
  <1>4. result.path = <<DERIVED_PREFIX, uri[2], uri[3], toVariantName(spec)>>
    BY <1>1, <1>2
  <1>5. Len(result.path) = 4 /\ result.path[1] = DERIVED_PREFIX /\ result.path[2] = uri[2]
        /\ result.path[3] = uri[3] /\ result.path[4] = toVariantName(spec)
    BY <1>4, QuadIs
  <1>6. parseVersionSegment(uri[3]) # <<>>
    <2>1. Len(uri[3]) = 3 /\ uri[3][1] = "v"
      BY <1>1 DEF Edge!isVersionSegment
    <2>2. parseVersionSegment(uri[3]) = <<uri[3][2].value, uri[3][3].value>>
      BY <2>1 DEF parseVersionSegment
    <2> QED
      BY <2>2, PairNotEmpty, Zenon
  <1>7. parseCanonicalKey(result.path).ok /\ parseCanonicalKey(result.path).spec = spec
    <2> DEFINE path == result.path
    <2>0. Len(path) = 4 /\ path[1] = DERIVED_PREFIX /\ path[2] = uri[2] /\ path[3] = uri[3] /\ path[4] = toVariantName(spec)
      BY <1>5
    <2> HIDE DEF path
    <2>1. path[2] # "" /\ parseVersionSegment(path[3]) # <<>>
      BY <1>1, <1>6, <2>0, ZenonT(60)
    <2>3. parseVariantName(path[4]) = parseVariantName(toVariantName(spec))
      BY <2>0
    <2>4. parseVariantName(path[4]).ok /\ parseVariantName(path[4]).spec = spec
      BY <1>3, <2>3, Zenon
    <2>2. parseCanonicalKey(path).ok /\ parseCanonicalKey(path).spec = spec
      BY <2>0, <2>1, <2>4, PathParses, ZenonT(60)
    <2> QED
      BY <2>2 DEF path
  <1> QED
    BY <1>1, <1>2, <1>4, <1>5, <1>7, Zenon DEF spec, Understood

---------------------------------------------------------------------------
(* The generator refuses no derivative path, and renders under the path. *)

Refused(response) == response.by = "generator" /\ response.status = 400

RefusedRightly(v) == Refused(view[v].reply) => view[v].pc \in {"reply", "done"} /\ view[v].path[1] # DERIVED_PREFIX

CacheRefuses == \A path \in DOMAIN cached : Refused(cached[path]) => path[1] # DERIVED_PREFIX

RefusalsInv ==
  /\ \A v \in Viewers : RefusedRightly(v)
  /\ CacheRefuses

\* What was made of a viewer's request, when the path is a derivative's.
LEMMA ForwardedSays ==
  ASSUME TermsInv, AskedInv, NEW v \in Viewers, Forwarded(v), view[v].path[1] = DERIVED_PREFIX
  PROVE  /\ made[v].parsed = parseCanonicalKey(view[v].path)
         /\ Understood(asked[v].uri, asked[v].query, asked[v].accept, view[v].path)
PROOF
  <1> DEFINE request == asked[v]
             result == made[v].edge
  <1>1. IsQuery(request.query) /\ IsUri(request.uri) /\ ViewInv(v) /\ view[v].path = result.path /\ result.status # 400
    BY DEF AskedInv, Forwarded, TermsInv
  <1>2. result = Edge!handler(request.uri, request.query, request.accept)
    BY <1>1 DEF ViewInv, Forwarded, Made
  <1>3. made[v].parsed = parseCanonicalKey(view[v].path)
    BY <1>1, ForwardedParses
  <1>4. result.path[1] = DERIVED_PREFIX
    BY <1>1
  <1> HIDE DEF request, result
  <1>5. Understood(request.uri, request.query, request.accept, result.path)
    BY <1>1, <1>2, <1>4, EdgePathsParse
  <1>6. Understood(request.uri, request.query, request.accept, view[v].path)
    BY <1>1, <1>5
  <1> QED
    BY <1>3, <1>6 DEF request

\* The reply a step leaves behind, and when it is a refusal of the generator's.
LEMMA AnswerRefuses ==
  ASSUME TermsInv, RefusalsInv, NEW v \in Viewers, NEW STATE response, Answer(v, response),
         Refused(response) => view[v].path[1] # DERIVED_PREFIX
  PROVE  \A w \in Viewers : RefusedRightly(w)'
PROOF
  <1>1. view'[v].pc = "done" /\ view'[v].path = view[v].path /\ view'[v].reply = response
    BY AnswerMoves
  <1>2. RefusedRightly(v)'
    BY <1>1 DEF RefusedRightly
  <1>3. ASSUME NEW w \in Viewers, w # v PROVE RefusedRightly(w)'
    <2>1. view'[w] = view[w] /\ RefusedRightly(w)
      BY <1>3 DEF TermsInv, Answer, RefusalsInv
    <2> QED
      BY <2>1 DEF RefusedRightly
  <1> QED
    BY <1>2, <1>3

LEMMA AdvanceRefuses ==
  ASSUME TermsInv, RefusalsInv, NEW v \in Viewers, NEW STATE changes, Advance(v, changes),
         IF "reply" \in DOMAIN changes
         THEN /\ "path" \notin DOMAIN changes /\ changes.pc = "reply" /\ "pc" \in DOMAIN changes
              /\ Refused(changes.reply) => view[v].path[1] # DERIVED_PREFIX
         ELSE ~Refused(view[v].reply)
  PROVE  \A w \in Viewers : RefusedRightly(w)'
PROOF
  <1>1. \A f \in DOMAIN Idle : view'[v][f] = IF f \in DOMAIN changes THEN changes[f] ELSE view[v][f]
    BY AdvanceMoves
  <1>2. RefusedRightly(v)'
    <2>1. CASE "reply" \in DOMAIN changes
      <3>1. view'[v].reply = changes.reply /\ view'[v].pc = "reply" /\ view'[v].path = view[v].path
        BY <1>1, <2>1 DEF Idle
      <3> QED
        BY <2>1, <3>1 DEF RefusedRightly
    <2>2. CASE "reply" \notin DOMAIN changes
      <3>1. view'[v].reply = view[v].reply
        BY <1>1, <2>2 DEF Idle
      <3> QED
        BY <2>2, <3>1 DEF RefusedRightly
    <2> QED
      BY <2>1, <2>2
  <1>3. ASSUME NEW w \in Viewers, w # v PROVE RefusedRightly(w)'
    <2>1. view'[w] = view[w] /\ RefusedRightly(w)
      BY <1>3 DEF TermsInv, Advance, RefusalsInv
    <2> QED
      BY <2>1 DEF RefusedRightly
  <1> QED
    BY <1>2, <1>3

\* The generator refuses what it cannot read, and it can read every derivative's path.
LEMMA RefusesRightly ==
  ASSUME TermsInv, AskedInv, NEW v \in Viewers, Forwarded(v), ~made[v].parsed.ok
  PROVE  view[v].path[1] # DERIVED_PREFIX
PROOF
  <1> SUFFICES ASSUME view[v].path[1] = DERIVED_PREFIX PROVE FALSE
    OBVIOUS
  <1>1. made[v].parsed = parseCanonicalKey(view[v].path) /\ parseCanonicalKey(view[v].path).ok
    BY ForwardedSays DEF Understood
  <1> QED
    BY <1>1, Zenon

LEMMA OthersRefuseNothing ==
  /\ \A terms, source, status, by : by \in {"cdn", "edge", "s3"} => ~Refused(Response(status, by, terms, source))
  /\ \A status, by, cache : by \in {"cdn", "edge", "s3"} => ~Refused(Failure(status, by, cache))
  /\ \A status, by, terms, source : status \in {200, 307, 404, 502} => ~Refused(Response(status, by, terms, source))
  /\ ~Refused(clientError(404)) /\ ~Refused(generationFailed)
  /\ \A from : \A reply \in redirectToStoredObject(from) : ~Refused(reply)
  BY DEF Refused, Response, Failure, clientError, generationFailed, redirectToStoredObject

ViewsRefuse == \A w \in Viewers : RefusedRightly(w)

LEMMA ViewerStepRefuses ==
  ASSUME TermsInv, AskedInv, RefusalsInv, NEW v \in Viewers, ViewerStep(v) \/ GenerationFails(v) \/ Retry(v)
  PROVE  ViewsRefuse'
PROOF
  <1>1. view[v].pc \notin {"reply", "done"} => ~Refused(view[v].reply)
    BY DEF RefusalsInv, RefusedRightly
  <1>2. ASSUME NEW STATE changes, Advance(v, changes), "reply" \notin DOMAIN changes, ~Refused(view[v].reply)
        PROVE  ViewsRefuse'
    BY <1>2, AdvanceRefuses DEF ViewsRefuse
  <1>3. ASSUME NEW STATE reply, Advance(v, [pc |-> "reply", reply |-> reply]),
               Refused(reply) => view[v].path[1] # DERIVED_PREFIX
        PROVE  ViewsRefuse'
    BY <1>3, AdvanceRefuses DEF ViewsRefuse
  <1>4. ASSUME NEW STATE response, Answer(v, response), Refused(response) => view[v].path[1] # DERIVED_PREFIX
        PROVE  ViewsRefuse'
    BY <1>4, AnswerRefuses DEF ViewsRefuse
  <1>5. CASE EdgeFunction(v)
    BY <1>1, <1>2, <1>4, <1>5, OthersRefuseNothing DEF EdgeFunction
  <1>6. CASE Hit(v)
    BY <1>4, <1>6 DEF Hit, RefusalsInv, CacheRefuses
  <1>7. CASE Reply(v)
    BY <1>4, <1>7 DEF Reply, RefusalsInv, RefusedRightly
  <1>8. CASE Miss(v)
    BY <1>1, <1>2, <1>3, <1>8, OthersRefuseNothing DEF Miss
  <1>9. CASE Generate(v)
    <2>1. Forwarded(v) /\ view[v].pc = "generate"
      BY <1>9 DEF Generate, TermsInv, ViewInv, UnderWay
    <2>2. ~made[v].parsed.ok => view[v].path[1] # DERIVED_PREFIX
      BY <2>1, RefusesRightly
    <2>3. CASE ~made[v].parsed.ok
      BY <1>3, <1>9, <2>2, <2>3 DEF Generate
    <2>4. CASE made[v].parsed.ok
      BY <1>1, <1>2, <1>3, <1>9, <2>1, <2>4, OthersRefuseNothing DEF Generate
    <2> QED
      BY <2>3, <2>4
  <1>10. CASE HeadMaster(v) \/ ListOriginal(v)
    BY <1>1, <1>2, <1>10 DEF HeadMaster, ListOriginal
  <1>11. CASE GetSource(v)
    BY <1>1, <1>2, <1>3, <1>11, OthersRefuseNothing DEF GetSource
  <1>12. CASE RenderAndPut(v)
    BY <1>1, <1>2, <1>12 DEF RenderAndPut
  <1>13. CASE GenerationFails(v)
    BY <1>3, <1>13, OthersRefuseNothing DEF GenerationFails
  <1>14. CASE Record(v)
    <2>1. PICK reply : Advance(v, [pc |-> "reply", reply |-> reply]) /\ ~Refused(reply)
      BY <1>14, OthersRefuseNothing DEF Record
    <2> QED
      BY <1>3, <2>1
  <1>15. CASE Retry(v)
    <2>1. ~Refused(view[v].reply)
      BY <1>15 DEF Retry, Refused
    <2> QED
      BY <1>2, <1>15, <2>1 DEF Retry
  <1> QED
    BY <1>5, <1>6, <1>7, <1>8, <1>9, <1>10, <1>11, <1>12, <1>13, <1>14, <1>15 DEF ViewerStep

\* What is kept is what somebody was shown under that path, or was kept before.
LEMMA KeptRefusals ==
  ASSUME RefusalsInv, Next
  PROVE  CacheRefuses'
PROOF
  <1>1. cached' = cached => CacheRefuses'
    BY DEF RefusalsInv, CacheRefuses
  <1>2. ASSUME NEW v \in Viewers, Reply(v) PROVE CacheRefuses'
    BY <1>2 DEF Reply, RefusalsInv, RefusedRightly, CacheRefuses
  <1>3. ASSUME NEW v \in Viewers, ViewerStep(v), ~Reply(v) PROVE CacheRefuses'
    BY <1>1, <1>3 DEF ViewerStep, EdgeFunction, Hit, Miss, Generate, HeadMaster, ListOriginal, GetSource,
                      RenderAndPut, Record
  <1>4. ASSUME NEW v \in Viewers, GenerationFails(v) \/ Retry(v) PROVE CacheRefuses'
    BY <1>1, <1>4 DEF GenerationFails, Retry
  <1>5. ASSUME NEW STATE S, cached' = Without(cached, S) PROVE CacheRefuses'
    BY <1>5 DEF RefusalsInv, CacheRefuses, Without
  <1>6. ASSUME NEW v \in Viewers, ExpireError(v) \/ Evict(v) PROVE CacheRefuses'
    BY <1>5, <1>6 DEF ExpireError, Evict
  <1>7. CASE InvalidateAsset
    BY <1>1, <1>5, <1>7 DEF InvalidateAsset
  <1>8. ASSUME NEW version \in Versions, Promote(version) \/ ReadOriginal(version) \/ PutMaster(version) PROVE CacheRefuses'
    BY <1>1, <1>8 DEF Promote, ReadOriginal, PutMaster
  <1>9. CASE Delete \/ DeletePrefix
    BY <1>1, <1>9 DEF Delete, DeletePrefix
  <1> QED
    BY <1>2, <1>3, <1>4, <1>6, <1>7, <1>8, <1>9 DEF Next

LEMMA ViewsStay ==
  ASSUME RefusalsInv, UNCHANGED view
  PROVE  ViewsRefuse'
  BY DEF RefusalsInv, ViewsRefuse, RefusedRightly

LEMMA RefusalsStep ==
  ASSUME TermsInv, AskedInv, RefusalsInv, Next
  PROVE  RefusalsInv'
PROOF
  <1>1. ASSUME NEW v \in Viewers, ViewerStep(v) \/ GenerationFails(v) \/ Retry(v) PROVE ViewsRefuse'
    BY <1>1, ViewerStepRefuses
  <1>2. ASSUME NEW v \in Viewers, ExpireError(v) \/ Evict(v) PROVE UNCHANGED view
    BY <1>2 DEF ExpireError, Evict
  <1>3. ASSUME NEW version \in Versions, Promote(version) \/ ReadOriginal(version) \/ PutMaster(version)
        PROVE  UNCHANGED view
    BY <1>3 DEF Promote, ReadOriginal, PutMaster
  <1>4. Delete \/ DeletePrefix \/ InvalidateAsset => UNCHANGED view
    BY DEF Delete, DeletePrefix, InvalidateAsset
  <1>5. ViewsRefuse'
    BY <1>1, <1>2, <1>3, <1>4, ViewsStay DEF Next
  <1> QED
    BY <1>5, KeptRefusals DEF RefusalsInv, ViewsRefuse

LEMMA RefusalsInit == Init => RefusalsInv
PROOF
  <1> SUFFICES ASSUME NEW s \in Scenarios, cached = <<>>,
                      view = [w \in Viewers |-> IF s.asked[w] = NoRequest THEN [Idle EXCEPT !.pc = "away"] ELSE Idle]
               PROVE  RefusalsInv
    BY DEF Init
  <1>1. Idle.reply.status = 0 /\ [Idle EXCEPT !.pc = "away"].reply.status = 0
    BY DEF Idle, Failure, Response
  <1>2. \A v \in Viewers : ~Refused(view[v].reply)
    BY <1>1 DEF Refused
  <1> QED
    BY <1>2 DEF RefusalsInv, RefusedRightly, CacheRefuses

\* A version segment without leading zeros is the one its numbers would be given ...
LEMMA SegmentsRoundTrip ==
  ASSUME NEW segment \in VersionSegments, segment[2].zeros = 0, segment[3].zeros = 0
  PROVE  /\ parseVersionSegment(segment) = <<segment[2].value, segment[3].value>>
         /\ toVersionSegment(segment[2].value, segment[3].value) = segment
PROOF
  <1>1. PICK a \in [value : Nat, zeros : Nat], b \in [value : Nat, zeros : Nat] : segment = <<"v", a, b>>
    BY DEF VersionSegments
  <1>2. segment[1] = "v" /\ segment[2] = a /\ segment[3] = b /\ Len(segment) = 3
    BY <1>1
  <1>3. parseVersionSegment(segment) = <<segment[2].value, segment[3].value>>
    BY <1>2 DEF parseVersionSegment
  <1>4. a = Numeral(a.value) /\ b = Numeral(b.value)
    BY <1>2 DEF Numeral
  <1> QED
    BY <1>1, <1>2, <1>3, <1>4 DEF toVersionSegment

\* ... and so is the key that a derivative is put under.
LEMMA RendersUnderItsPath ==
  ASSUME TermsInv, AskedInv, NEW v \in Viewers, view[v].pc \in {"load", "put", "record"}, Canonical(view[v].path)
  PROVE  made[v].key = view[v].path
PROOF
  <1> DEFINE path == view[v].path
             parsed == made[v].parsed
             uri == asked[v].uri
             spec == SpecOf(asked[v].query, asked[v].accept, 0, FALSE)
  <1>1. Forwarded(v) /\ parsed.ok /\ ViewInv(v)
    BY DEF TermsInv, ViewInv, UnderWay
  <1>2. parsed = parseCanonicalKey(path)
        /\ made[v].key = toCanonicalKey(parsed.assetId, parsed.assetVersion, parsed.encoderEpoch, parsed.spec)
    BY <1>1, ForwardedParses
  <1>3. path[1] = DERIVED_PREFIX
    BY <1>1, <1>2, ParsedPath
  <1>4. Understood(uri, asked[v].query, asked[v].accept, path)
    BY <1>1, <1>3, ForwardedSays
  <1>5. /\ path = <<DERIVED_PREFIX, uri[2], uri[3], toVariantName(spec)>>
        /\ uri[3] \in VersionSegments /\ parsed.spec = spec /\ parseCanonicalKey(path).ok
    BY <1>2, <1>4 DEF Understood
  <1>6. Canonical(path)
    OBVIOUS
  <1> HIDE DEF path, spec, uri
  <1>7. path[2] = uri[2] /\ path[3] = uri[3] /\ Len(path) = 4
    BY <1>5, QuadIs
  <1>8. uri[3][2].zeros = 0 /\ uri[3][3].zeros = 0
    BY <1>6, <1>7 DEF Canonical
  <1>9. /\ parseVersionSegment(uri[3]) = <<uri[3][2].value, uri[3][3].value>>
        /\ toVersionSegment(uri[3][2].value, uri[3][3].value) = uri[3]
    BY <1>5, <1>8, SegmentsRoundTrip
  <1>10. /\ parseCanonicalKey(path).assetId = path[2]
         /\ parseCanonicalKey(path).assetVersion = parseVersionSegment(path[3])[1]
         /\ parseCanonicalKey(path).encoderEpoch = parseVersionSegment(path[3])[2]
    BY <1>5 DEF parseCanonicalKey
  <1>11. parsed.assetId = uri[2] /\ parsed.assetVersion = uri[3][2].value /\ parsed.encoderEpoch = uri[3][3].value
    BY <1>2, <1>7, <1>9, <1>10
  <1> QED
    BY <1>2, <1>5, <1>9, <1>11 DEF toCanonicalKey, path

\* Whatever viewers ask and in whatever order things happen: no derivative path that the
\* edge writes is refused by the generator, to the viewer who asks or out of the cache,
\* and what it renders for a path is put under that path, where the next viewer will
\* find it (normalize.template.js, canonical-key.ts parseCanonicalKey, generator.ts).
THEOREM GeneratorAcceptsEdgeKeysCorrect == Spec => []GeneratorAcceptsEdgeKeys
PROOF
  <1>1. TermsInv /\ AskedInv /\ RefusalsInv => GeneratorAcceptsEdgeKeys
    <2> SUFFICES ASSUME TermsInv, AskedInv, RefusalsInv, NEW v \in Viewers
                 PROVE  /\ Refused(view[v].reply) => view[v].path[1] # DERIVED_PREFIX
                        /\ view[v].pc \in {"load", "put", "record"} /\ Canonical(view[v].path)
                             => made[v].key = view[v].path
      BY DEF GeneratorAcceptsEdgeKeys, Refused
    <2> QED
      BY RendersUnderItsPath DEF RefusalsInv, RefusedRightly
  <1>2. TermsInv /\ AskedInv /\ [Next]_vars => TermsInv' /\ AskedInv'
    BY AskedStays
  <1>3. TermsInv /\ AskedInv /\ RefusalsInv /\ [Next]_vars => RefusalsInv'
    <2>1. ASSUME RefusalsInv, UNCHANGED vars PROVE RefusalsInv'
      BY <2>1 DEF vars, RefusalsInv, RefusedRightly, CacheRefuses
    <2> QED
      BY <2>1, RefusalsStep
  <1> QED
    BY <1>1, <1>2, <1>3, TermsInvInit, AskedInvInit, RefusalsInit, PTL DEF Spec

---------------------------------------------------------------------------
(* One key per rendering.  Every field of a normal spec can be read off the *)
(* calls made for it, what it spells out needlessly aside.                  *)

\* No two quality levels give the encoder of a format the same settings.
LEMMA EncodingsApart ==
  ASSUME NEW format \in OUTPUT_FORMATS, NEW q \in QUALITY_LEVELS, NEW r \in QUALITY_LEVELS, NEW m, NEW n,
         format = "png" => q \in DOMAIN PNG_PALETTE_QUALITY /\ r \in DOMAIN PNG_PALETTE_QUALITY,
         encoderOptionsFor(format, q, m) = encoderOptionsFor(format, r, n)
  PROVE  q = r
PROOF
  <1>1. CASE format = "jpeg"
    <2>1. jpegOptions(q) = jpegOptions(r)
      BY <1>1 DEF encoderOptionsFor
    <2>2. JPEG_QUALITY[q] = JPEG_QUALITY[r]
      BY <2>1 DEF jpegOptions
    <2> QED
      BY <2>2 DEF JPEG_QUALITY, QualityTable, QUALITY_LEVELS
  <1>2. CASE format = "webp"
    <2>1. webpOptions(q) = webpOptions(r)
      BY <1>2 DEF encoderOptionsFor
    <2>2. WEBP_QUALITY[q] = WEBP_QUALITY[r]
      BY <2>1 DEF webpOptions
    <2> QED
      BY <2>2 DEF WEBP_QUALITY, QualityTable, QUALITY_LEVELS
  <1>3. CASE format = "avif"
    <2>1. avifOptions(q, m) = avifOptions(r, n)
      BY <1>3 DEF encoderOptionsFor
    <2>2. AVIF_QUALITY[q] = AVIF_QUALITY[r]
      BY <2>1 DEF avifOptions
    <2> QED
      BY <2>2 DEF AVIF_QUALITY, QualityTable, QUALITY_LEVELS
  <1>4. CASE format = "png"
    <2>1. pngOptions(q) = pngOptions(r)
      BY <1>4 DEF encoderOptionsFor
    <2>2. ASSUME NEW l \in DOMAIN PNG_PALETTE_QUALITY PROVE pngOptions(l)["quality"] = PNG_PALETTE_QUALITY[l]
      <3> DEFINE base == [palette |-> l \in DOMAIN PNG_PALETTE_QUALITY]
                 added == Field("quality", l \in DOMAIN PNG_PALETTE_QUALITY, PNG_PALETTE_QUALITY[l])
      <3>1. "quality" \in DOMAIN added \ DOMAIN base /\ added["quality"] = PNG_PALETTE_QUALITY[l]
        BY <2>2 DEF Field
      <3>2. pngOptions(l) = base ++ added
        BY DEF pngOptions
      <3> HIDE DEF base, added
      <3> QED
        BY <3>1, <3>2, OverlayAdds
    <2>3. PNG_PALETTE_QUALITY[q] = PNG_PALETTE_QUALITY[r]
      BY <1>4, <2>1, <2>2
    <2> QED
      BY <1>4, <2>3 DEF PNG_PALETTE_QUALITY
  <1> QED
    BY <1>1, <1>2, <1>3, <1>4 DEF OUTPUT_FORMATS

Resize(spec) == Resized(applyTransform(spec).resize)

\* What can be told from the resize
ResizeSays(spec, r) ==
  /\ "width" \in DOMAIN spec <=> "width" \in DOMAIN r /\ r["width"] # 0
  /\ "height" \in DOMAIN spec <=> "width" \in DOMAIN r /\ r["height"] # 0
  /\ "width" \in DOMAIN spec => r["width"] = spec["width"]
  /\ "height" \in DOMAIN spec => r["height"] = spec["height"]
  /\ "fit" \in DOMAIN spec <=> "fit" \in DOMAIN r
  /\ "fit" \in DOMAIN spec => r["fit"] = spec["fit"]
  /\ "fit" \in DOMAIN spec /\ spec["fit"] = "cover" => r["position"] = positionFor(Given(spec, "gravity", DEFAULT_GRAVITY))
  /\ "fit" \in DOMAIN spec /\ spec["fit"] = "contain" => r["background"] = Opaque(backgroundOf(spec))

LEMMA ResizeIs ==
  ASSUME NEW spec, NormalSpec(spec)
  PROVE  ResizeSays(spec, Resize(spec))
PROOF
  <1> DEFINE call == [width |-> Given(spec, "width", 0), height |-> Given(spec, "height", 0),
                      fit |-> fitFor(Given(spec, "fit", DEFAULT_FIT)),
                      position |-> positionFor(Given(spec, "gravity", DEFAULT_GRAVITY)),
                      background |-> backgroundOf(spec), withoutEnlargement |-> TRUE]
             r == Resize(spec)
  <1>1. /\ "width" \in DOMAIN spec => spec["width"] \in Nat \ {0} /\ Given(spec, "width", 0) = spec["width"]
        /\ "height" \in DOMAIN spec => spec["height"] \in Nat \ {0} /\ Given(spec, "height", 0) = spec["height"]
        /\ "width" \notin DOMAIN spec => Given(spec, "width", 0) = 0
        /\ "height" \notin DOMAIN spec => Given(spec, "height", 0) = 0
    BY DEF NormalSpec, LADDER, ICON_WIDTHS, DEVICE_WIDTHS, Given
  <1>2. "fit" \in DOMAIN spec <=> "width" \in DOMAIN spec /\ "height" \in DOMAIN spec
    BY DEF NormalSpec, isFreeOfInertParameters
  <1>3. CASE {"width", "height"} \cap DOMAIN spec = {}
    <2>1. applyTransform(spec).resize = <<>>
      BY <1>3 DEF applyTransform
    <2>2. r = <<>>
      BY <2>1 DEF Resize, Resized
    <2>3. "width" \notin DOMAIN r /\ "fit" \notin DOMAIN r /\ "width" \notin DOMAIN spec /\ "height" \notin DOMAIN spec
      BY <1>3, <2>2
    <2> QED
      BY <1>2, <2>3 DEF ResizeSays
  <1>4. CASE {"width", "height"} \cap DOMAIN spec # {}
    <2>1. applyTransform(spec).resize = call
      BY <1>4 DEF applyTransform
    <2>2. call # <<>>
      <3>1. "width" \in DOMAIN call /\ "width" \notin DOMAIN <<>>
        OBVIOUS
      <3> QED
        BY <3>1
    <2>3. call.width = Given(spec, "width", 0) /\ call.height = Given(spec, "height", 0)
      OBVIOUS
    <2>4. CASE "width" \notin DOMAIN spec \/ "height" \notin DOMAIN spec
      <3>1. r = [width |-> Given(spec, "width", 0), height |-> Given(spec, "height", 0)]
        <4> HIDE DEF call
        <4> QED
          BY <1>1, <2>1, <2>2, <2>3, <2>4 DEF Resize, Resized
      <3>2. /\ "width" \in DOMAIN r /\ "fit" \notin DOMAIN r
            /\ r["width"] = Given(spec, "width", 0) /\ r["height"] = Given(spec, "height", 0)
        BY <3>1
      <3> QED
        BY <1>1, <1>2, <2>4, <3>2 DEF ResizeSays
    <2>5. CASE "width" \in DOMAIN spec /\ "height" \in DOMAIN spec
      <3> DEFINE base == [width |-> call.width, height |-> call.height, fit |-> call.fit]
                 f == Field("position", call.fit = "cover", call.position)
                 g == Field("background", call.fit = "contain", Opaque(call.background))
      <3>1. r = (base ++ f) ++ g
        <4> HIDE DEF call
        <4>1. Resized(call) = [width |-> call.width, height |-> call.height, fit |-> call.fit]
                                ++ Field("position", call.fit = "cover", call.position)
                                ++ Field("background", call.fit = "contain", Opaque(call.background))
          BY <1>1, <2>2, <2>3, <2>5 DEF Resized
        <4> QED
          BY <2>1, <4>1 DEF Resize
      <3>2. call.fit = spec["fit"] /\ spec["fit"] \in CANONICAL_FIT_MODES
        BY <1>2, <2>5 DEF NormalSpec, Given, fitFor, CANONICAL_FIT_MODES, FIT_MODES
      <3>3. call.position = positionFor(Given(spec, "gravity", DEFAULT_GRAVITY)) /\ call.background = backgroundOf(spec)
        OBVIOUS
      <3> HIDE DEF call
      <3>4. /\ DOMAIN base = {"width", "height", "fit"}
            /\ base["width"] = call.width /\ base["height"] = call.height /\ base["fit"] = call.fit
        OBVIOUS
      <3>5. /\ DOMAIN f = IF call.fit = "cover" THEN {"position"} ELSE {}
            /\ call.fit = "cover" => f["position"] = call.position
            /\ DOMAIN g = IF call.fit = "contain" THEN {"background"} ELSE {}
            /\ call.fit = "contain" => g["background"] = Opaque(call.background)
        BY DEF Field
      <3> HIDE DEF base, f, g
      <3>6. OverlayOf(base ++ f, base, f) /\ OverlayOf((base ++ f) ++ g, base ++ f, g)
        BY OverlaysAll
      <3>7. /\ {"width", "height", "fit"} \subseteq DOMAIN r
            /\ r["width"] = call.width /\ r["height"] = call.height /\ r["fit"] = call.fit
            /\ call.fit = "cover" => r["position"] = call.position
            /\ call.fit = "contain" => r["background"] = Opaque(call.background)
        BY <3>1, <3>4, <3>5, <3>6 DEF OverlayOf
      <3> HIDE DEF r
      <3>8. ResizeSays(spec, r)
        BY <1>1, <1>2, <2>3, <2>5, <3>2, <3>3, <3>7 DEF ResizeSays
      <3> QED
        BY <3>8 DEF r
    <2> QED
      BY <2>4, <2>5
  <1> QED
    BY <1>3, <1>4

LEMMA RenderingIs ==
  ASSUME NEW spec, NormalSpec(spec)
  PROVE  LET r == Rendering(spec)
         IN  /\ r.resize = Resize(spec)
             /\ r.blur = IF "blur" \in DOMAIN spec THEN <<spec["blur"]>> ELSE <<>>
             /\ r.sharpen = IF "sharpen" \in DOMAIN spec THEN <<spec["sharpen"]>> ELSE <<>>
             /\ r.encode = [format |-> spec["format"],
                            options |-> encoderOptionsFor(spec["format"], spec["quality"], Given(spec, "width", 0))]
PROOF
  <1> DEFINE calls == applyTransform(spec)
             encoding == [format |-> spec["format"],
                          options |-> encoderOptionsFor(spec["format"], spec["quality"], Given(spec, "width", 0))]
  <1>1. /\ "blur" \in DOMAIN spec => spec["blur"] \in Nat \ {0}
        /\ "sharpen" \in DOMAIN spec => spec["sharpen"] \in Nat \ {0}
    BY DEF NormalSpec, isFreeOfInertParameters, BLUR_LEVELS, SHARPEN_LEVELS
  <1>2. calls.encode = encoding
    BY DEF applyTransform
  <1>3. calls.blur = IF "blur" \in DOMAIN spec THEN <<spec["blur"]>> ELSE <<>>
    BY <1>1 DEF applyTransform, Given
  <1>4. calls.sharpen = IF "sharpen" \in DOMAIN spec THEN <<spec["sharpen"]>> ELSE <<>>
    BY <1>1 DEF applyTransform, Given
  <1> HIDE DEF encoding
  <1>5. /\ Rendering(spec).resize = Resize(spec) /\ Rendering(spec).blur = calls.blur
        /\ Rendering(spec).sharpen = calls.sharpen /\ Rendering(spec).encode = calls.encode
    BY DEF Rendering, Resize
  <1> HIDE DEF calls
  <1> QED
    BY <1>2, <1>3, <1>4, <1>5 DEF encoding

\* The field is in both or neither, with one value.
AlikeIn(s, t, field) ==
  /\ field \in DOMAIN s <=> field \in DOMAIN t
  /\ field \in DOMAIN s => s[field] = t[field]

\* A box is described by its dimensions, its fit, and what its fit uses.
LEMMA BoxesAlike ==
  ASSUME NEW s, NEW t, NormalSpec(s), NormalSpec(t), ~SpellsDefault(s), ~SpellsDefault(t), Resize(s) = Resize(t)
  PROVE  /\ AlikeIn(s, t, "width") /\ AlikeIn(s, t, "height") /\ AlikeIn(s, t, "fit")
         /\ AlikeIn(s, t, "gravity") /\ AlikeIn(s, t, "background")
PROOF
  <1> DEFINE r == Resize(s)
  <1>1. ResizeSays(s, r) /\ ResizeSays(t, r)
    BY ResizeIs
  <1> HIDE DEF r
  <1>2. AlikeIn(s, t, "width") /\ AlikeIn(s, t, "height") /\ AlikeIn(s, t, "fit")
    BY <1>1 DEF ResizeSays, AlikeIn
  <1>3. \A spec : NormalSpec(spec) /\ "gravity" \in DOMAIN spec =>
          /\ "fit" \in DOMAIN spec /\ spec["fit"] = "cover"
          /\ spec["gravity"] \in CROP_GRAVITIES \ {"center"}
    BY DEF NormalSpec, isFreeOfInertParameters, fitCrops, DEFAULT_GRAVITY
  <1>4. \A spec : NormalSpec(spec) /\ "background" \in DOMAIN spec =>
          "fit" \in DOMAIN spec /\ spec["fit"] = "contain"
    BY DEF NormalSpec, isFreeOfInertParameters, fitUsesBackground
  <1>5. \A spec : "gravity" \in DOMAIN spec /\ spec["gravity"] \in CROP_GRAVITIES \ {"center"} =>
          /\ positionFor(Given(spec, "gravity", DEFAULT_GRAVITY)) = spec["gravity"]
          /\ spec["gravity"] # "centre"
    BY DEF positionFor, Given, DEFAULT_GRAVITY, CROP_GRAVITIES
  <1>6. \A spec : "gravity" \notin DOMAIN spec => positionFor(Given(spec, "gravity", DEFAULT_GRAVITY)) = "centre"
    BY DEF positionFor, Given, DEFAULT_GRAVITY
  <1>7. AlikeIn(s, t, "gravity")
    BY <1>1, <1>2, <1>3, <1>5, <1>6 DEF ResizeSays, AlikeIn
  <1> DEFINE white == DEFAULT_FLATTEN_BACKGROUND
  <1>8. Opaque(white) = white
    BY DEF Opaque, DEFAULT_FLATTEN_BACKGROUND
  <1>9. \A spec : "background" \in DOMAIN spec /\ ~SpellsDefault(spec) =>
          Opaque(backgroundOf(spec)) = spec["background"] /\ spec["background"] # white
    BY DEF backgroundOf, Given, SpellsDefault
  <1>10. \A spec : "background" \notin DOMAIN spec => Opaque(backgroundOf(spec)) = white
    BY <1>8 DEF backgroundOf, Given
  <1> HIDE DEF white
  <1>11. AlikeIn(s, t, "background")
    BY <1>1, <1>2, <1>4, <1>9, <1>10 DEF ResizeSays, AlikeIn
  <1> QED
    BY <1>2, <1>7, <1>11

\* Two normal specs whose renditions cannot differ are one, but for what spells a
\* default out.
LEMMA RenderingsApart ==
  ASSUME NEW s, NEW t, NormalSpec(s), NormalSpec(t), ~SpellsDefault(s), ~SpellsDefault(t), Rendering(s) = Rendering(t)
  PROVE  s = t
PROOF
  <1>1. Resize(s) = Resize(t)
    BY RenderingIs
  <1>2. /\ AlikeIn(s, t, "width") /\ AlikeIn(s, t, "height") /\ AlikeIn(s, t, "fit")
        /\ AlikeIn(s, t, "gravity") /\ AlikeIn(s, t, "background")
    BY <1>1, BoxesAlike
  <1>3. \A x : <<x>> # <<>> /\ \A y : <<x>> = <<y>> => x = y
    OBVIOUS
  <1>4. AlikeIn(s, t, "blur")
    <2> DEFINE a == Rendering(s).blur
               b == Rendering(t).blur
    <2>1. a = b
      OBVIOUS
    <2>2. /\ a = IF "blur" \in DOMAIN s THEN <<s["blur"]>> ELSE <<>>
          /\ b = IF "blur" \in DOMAIN t THEN <<t["blur"]>> ELSE <<>>
      BY RenderingIs
    <2> HIDE DEF a, b
    <2> QED
      BY <1>3, <2>1, <2>2 DEF AlikeIn
  <1>5. AlikeIn(s, t, "sharpen")
    <2> DEFINE a == Rendering(s).sharpen
               b == Rendering(t).sharpen
    <2>1. a = b
      OBVIOUS
    <2>2. /\ a = IF "sharpen" \in DOMAIN s THEN <<s["sharpen"]>> ELSE <<>>
          /\ b = IF "sharpen" \in DOMAIN t THEN <<t["sharpen"]>> ELSE <<>>
      BY RenderingIs
    <2> HIDE DEF a, b
    <2> QED
      BY <1>3, <2>1, <2>2 DEF AlikeIn
  <1>6. /\ s = [x \in DOMAIN s |-> s[x]] /\ t = [x \in DOMAIN t |-> t[x]]
        /\ DOMAIN s \subseteq SpecFields /\ DOMAIN t \subseteq SpecFields
        /\ {"format", "quality"} \subseteq DOMAIN s /\ {"format", "quality"} \subseteq DOMAIN t
        /\ s["format"] \in OUTPUT_FORMATS /\ s["quality"] \in QUALITY_LEVELS /\ t["quality"] \in QUALITY_LEVELS
    BY DEF NormalSpec, SpecShaped
  <1>7. /\ s["format"] = t["format"]
        /\ encoderOptionsFor(s["format"], s["quality"], Given(s, "width", 0))
             = encoderOptionsFor(t["format"], t["quality"], Given(t, "width", 0))
    <2> DEFINE a == [format |-> s["format"],
                     options |-> encoderOptionsFor(s["format"], s["quality"], Given(s, "width", 0))]
               b == [format |-> t["format"],
                     options |-> encoderOptionsFor(t["format"], t["quality"], Given(t, "width", 0))]
    <2>1. Rendering(s).encode = a /\ Rendering(t).encode = b
      BY RenderingIs
    <2>2. a = b
      BY <2>1
    <2>3. a.format = b.format /\ a.options = b.options
      <3> HIDE DEF a, b
      <3> QED
        BY <2>2
    <2> QED
      BY <2>3
  <1>8. s["quality"] = t["quality"]
    <2>1. s["format"] = "png" => s["quality"] \in DOMAIN PNG_PALETTE_QUALITY /\ t["quality"] \in DOMAIN PNG_PALETTE_QUALITY
      BY <1>7 DEF SpellsDefault
    <2> QED
      BY <1>6, <1>7, <2>1, EncodingsApart
  <1>9. \A x \in SpecFields : AlikeIn(s, t, x)
    BY <1>2, <1>4, <1>5, <1>6, <1>7, <1>8 DEF SpecFields, AlikeIn
  <1>10. DOMAIN s = DOMAIN t /\ \A x \in DOMAIN s : s[x] = t[x]
    BY <1>6, <1>9 DEF AlikeIn
  <1> QED
    BY <1>6, <1>10

LEMMA KnownNormal ==
  ASSUME NEW spec \in KnownSpecs
  PROVE  NormalSpec(spec)
PROOF
  <1>1. PICK r \in KnownRequests : CoreParse(r).ok /\ spec = CoreParse(r).spec
    BY DEF KnownSpecs
  <1>2. IsQuery(r.query)
    BY ScenariosSetOut DEF KnownRequests
  <1> DEFINE query == r.query
             accept == r.accept
  <1>3. parseTransform(query, accept, 0, FALSE).ok /\ spec = parseTransform(query, accept, 0, FALSE).spec
    BY <1>1 DEF CoreParse
  <1> HIDE DEF query, accept
  <1>4. IsQuery(query)
    BY <1>2 DEF query
  <1>5. Accepted(query) /\ EnumsKnown(query) /\ spec = SpecOf(query, accept, 0, FALSE)
    BY <1>3, <1>4, AcceptedQueries
  <1> QED
    BY <1>5, SpecsNormal

\* The spec the generator will be asked for is normal, and named in the path.
LEMMA LookedUp ==
  ASSUME TermsInv, AskedInv, NEW v \in Viewers, Looking(v)
  PROVE  /\ Understood(asked[v].uri, asked[v].query, asked[v].accept, view[v].path)
         /\ RequestedSpec(v) = SpecOf(asked[v].query, asked[v].accept, 0, FALSE)
         /\ NormalSpec(RequestedSpec(v))
         /\ view[v].path[4] = toVariantName(RequestedSpec(v))
PROOF
  <1> DEFINE query == asked[v].query
             accept == asked[v].accept
             uri == asked[v].uri
             path == view[v].path
             spec == SpecOf(query, accept, 0, FALSE)
  <1>1. Forwarded(v) /\ path[1] = DERIVED_PREFIX
    BY DEF Looking, TermsInv, ViewInv, UnderWay
  <1>2. made[v].parsed = parseCanonicalKey(path) /\ Understood(uri, query, accept, path)
    BY <1>1, ForwardedSays
  <1> HIDE DEF query, accept, uri, path
  <1>3. /\ parseCanonicalKey(path).spec = spec /\ Accepted(query) /\ EnumsKnown(query)
        /\ path = <<DERIVED_PREFIX, uri[2], uri[3], toVariantName(spec)>>
    BY <1>2 DEF Understood
  <1>4. NormalSpec(spec)
    BY <1>3, SpecsNormal
  <1> HIDE DEF spec
  <1>5. RequestedSpec(v) = spec
    BY <1>2, <1>3 DEF RequestedSpec
  <1>6. path[4] = toVariantName(spec)
    BY <1>3, QuadIs
  <1> QED
    BY <1>2, <1>4, <1>5, <1>6 DEF query, accept, uri, path, spec

\* For any set of requests: of two derivatives whose renditions could not differ, of
\* whatever source, none is looked up under a second name - a fit without a box, a
\* gravity where nothing is cropped, a background nobody sees, a blur of nothing leave
\* no trace in the name (canonical-key.ts, transform-spec.ts, render.ts).
THEOREM OneKeyPerRenderingCorrect == Spec => []OneKeyPerRendering
PROOF
  <1>1. TermsInv /\ AskedInv => OneKeyPerRendering
    <2> SUFFICES ASSUME TermsInv, AskedInv, NEW v \in Viewers, Looking(v), ~SpellsDefault(RequestedSpec(v)),
                        NEW known \in KnownRenderings, known.rendering = Rendering(RequestedSpec(v))
                 PROVE  known.name = view[v].path[4]
      BY DEF OneKeyPerRendering
    <2>1. PICK s \in KnownSpecs : ~SpellsDefault(s) /\ known = [name |-> toVariantName(s), rendering |-> Rendering(s)]
      BY DEF KnownRenderings
    <2>2. known.name = toVariantName(s) /\ known.rendering = Rendering(s)
      BY <2>1
    <2>3. NormalSpec(s) /\ NormalSpec(RequestedSpec(v)) /\ view[v].path[4] = toVariantName(RequestedSpec(v))
      BY KnownNormal, LookedUp
    <2>4. s = RequestedSpec(v)
      BY <2>1, <2>2, <2>3, RenderingsApart
    <2> QED
      BY <2>2, <2>3, <2>4
  <1>2. TermsInv /\ AskedInv /\ [Next]_vars => TermsInv' /\ AskedInv'
    BY AskedStays
  <1> QED
    BY <1>1, <1>2, TermsInvInit, AskedInvInit, PTL DEF Spec

---------------------------------------------------------------------------
(* What a srcset promises. *)

\* A width on the ladder, asked for without a device pixel ratio, is the width served.
LEMMA RungsServed ==
  ASSUME NEW n \in LADDER
  PROVE  snapWidth(Num(n), <<1, 1>>, 0) = n
PROOF
  <1>1. n \in Nat /\ n >= 16 /\ n <= MAX_LADDER_WIDTH /\ MAX_LADDER_WIDTH \in Nat
    BY DEF LADDER, ICON_WIDTHS, DEVICE_WIDTHS, MAX_LADDER_WIDTH
  <1>2. floor1(Num(n)) = <<n, 1>>
    BY <1>1 DEF floor1, AtMost, Num
  <1>3. Ceiling(n * 1, 1 * 1) = n
    BY <1>1 DEF Ceiling
  <1>4. MinOf(n, MAX_LADDER_WIDTH) = n
    BY <1>1 DEF MinOf
  <1>5. snapUp(n) = n
    <2> DEFINE rungs == {r \in LADDER : r >= n}
    <2>0. n >= n
      BY <1>1
    <2>1. n \in rungs /\ rungs \subseteq Nat /\ \A r \in rungs : n <= r
      <3>1. n \in rungs
        BY <2>0
      <3>2. rungs \subseteq Nat
        BY LadderIsNat
      <3>3. \A r \in rungs : n <= r
        BY <1>1, LadderIsNat
      <3> QED
        BY <3>1, <3>2, <3>3
    <2>2. Least(rungs) = n
      <3> HIDE DEF rungs
      <3> QED
        BY <2>1, LeastIs
    <2>3. snapUp(n) = IF rungs = {} THEN MAX_LADDER_WIDTH ELSE Least(rungs)
      BY DEF snapUp
    <2> HIDE DEF rungs
    <2> QED
      BY <2>1, <2>2, <2>3
  <1> DEFINE wanted == floor1(Num(n))
             effective == MinOf(Ceiling(wanted[1] * 1, wanted[2] * 1), MAX_LADDER_WIDTH)
  <1>6. wanted[1] = n /\ wanted[2] = 1
    BY <1>2
  <1>7. effective = n
    <2> HIDE DEF wanted
    <2>1. Ceiling(wanted[1] * 1, wanted[2] * 1) = Ceiling(n * 1, 1 * 1)
      BY <1>6
    <2> QED
      BY <1>3, <1>4, <2>1
  <1>8. snapWidth(Num(n), <<1, 1>>, 0) = snapUp(effective)
    BY DEF snapWidth
  <1> HIDE DEF effective
  <1> QED
    BY <1>5, <1>7, <1>8

LEMMA SingleDensity == CoreDpr(<<1, 1>>) = <<1, 1>>
PROOF
  <1>1. AtMost(<<1, 1>>, MIN_DPR) /\ MIN_DPR = <<1, 1>> /\ MAX_DPR = <<3, 1>>
    BY DEF AtMost, MIN_DPR, MAX_DPR, Num
  <1>2. ~AtMost(MAX_DPR, <<1, 1>>)
    BY <1>1 DEF AtMost
  <1> QED
    BY <1>1, <1>2 DEF CoreDpr

\* The width of a spec is the width its query asks for, snapped.
LEMMA WidthOfSpec ==
  ASSUME NEW query, NEW accept, "w" \in DOMAIN query, "dpr" \notin DOMAIN query
  PROVE  SpecOf(query, accept, 0, FALSE)["width"] = snapWidth(query.w, <<1, 1>>, 0)
PROOF
  <1> DEFINE given(p, default) == IF p \in DOMAIN query THEN query[p] ELSE default
             d == CoreDpr(<<1, 1>>)
             dims == resolveDimensions(query, d, 0)
             fit == normalizeFit(lower(given("fit", "cover")))
             gravity == lower(given("crop", "center"))
             background == normalizeBackground(given("background", <<>>))
             format == resolveFormat(lower(given("format", "auto")), accept, FALSE)
             blur == quantizeBlur(given("blur", <<0, 1>>))
             sharpen == quantizeSharpen(given("sharpen", <<0, 1>>))
             quality == IF "q" \in DOMAIN query THEN quantizeQuality(query.q) ELSE DEFAULT_QUALITY
             base == [format |-> format, quality |-> quality]
             boxed == {"width", "height"} \subseteq DOMAIN dims
             f1 == Field("fit", boxed, fit)
             f2 == Field("gravity", boxed /\ fitCrops(fit) /\ gravity # "center", gravity)
             f3 == Field("background", boxed /\ fitUsesBackground(fit) /\ background # <<>>, background)
             f4 == Field("blur", blur > 0, blur)
             f5 == Field("sharpen", sharpen > 0, sharpen)
  <1>1. SpecOf(query, accept, 0, FALSE) = Assembled(base ++ dims, f1, f2, f3, f4, f5)
    BY DEF SpecOf, Assembled, CoreDpr, Num, DEFAULT_FIT, DEFAULT_GRAVITY, Unparseable
  <1>2. d = <<1, 1>>
    BY SingleDensity
  <1>3. "width" \in DOMAIN dims /\ dims["width"] = snapWidth(query.w, d, 0)
    BY DEF resolveDimensions
  <1>4. "width" \notin DOMAIN base
    OBVIOUS
  <1> HIDE DEF d, dims, base, f1, f2, f3, f4, f5
  <1>5. \A f, g : "width" \in DOMAIN f => "width" \in DOMAIN (f ++ g) /\ (f ++ g)["width"] = f["width"]
    BY OverlayKeeps
  <1> DEFINE s0 == base ++ dims
             s1 == s0 ++ f1
             s2 == s1 ++ f2
             s3 == s2 ++ f3
             s4 == s3 ++ f4
             s5 == s4 ++ f5
  <1>6. "width" \in DOMAIN s0 /\ s0["width"] = dims["width"]
    BY <1>3, <1>4, OverlayAdds
  <1>7. Assembled(base ++ dims, f1, f2, f3, f4, f5) = s5
    BY DEF Assembled
  <1> HIDE DEF s0
  <1>8. "width" \in DOMAIN s1 /\ s1["width"] = s0["width"]
    BY <1>5, <1>6
  <1> HIDE DEF s1
  <1>9. "width" \in DOMAIN s2 /\ s2["width"] = s1["width"]
    BY <1>5, <1>8
  <1> HIDE DEF s2
  <1>10. "width" \in DOMAIN s3 /\ s3["width"] = s2["width"]
    BY <1>5, <1>9
  <1> HIDE DEF s3
  <1>11. "width" \in DOMAIN s4 /\ s4["width"] = s3["width"]
    BY <1>5, <1>10
  <1> HIDE DEF s4
  <1>12. "width" \in DOMAIN s5 /\ s5["width"] = s4["width"]
    BY <1>5, <1>11
  <1> HIDE DEF s5
  <1>13. SpecOf(query, accept, 0, FALSE)["width"] = s5["width"]
    <2>1. SpecOf(query, accept, 0, FALSE) = s5
      BY <1>1, <1>7, Zenon
    <2> QED
      BY <2>1, Zenon
  <1> QED
    BY <1>2, <1>3, <1>6, <1>8, <1>9, <1>10, <1>11, <1>12, <1>13

\* The query of a URL carries the width it was built for, and no ratio that was not given.
LEMMA QueriesCarryTheWidth ==
  ASSUME NEW options, "width" \in DOMAIN options, "dpr" \notin DOMAIN options, NEW defaultQuality
  PROVE  LET query == withTransform(options, defaultQuality)
         IN  "w" \in DOMAIN query /\ query["w"] = Num(options["width"]) /\ "dpr" \notin DOMAIN query
PROOF
  <1> DEFINE given(o) == o \in DOMAIN options
             copied(o, p, wanted) == Field(p, given(o) /\ wanted, options[o])
             number(o, p, wanted) == Field(p, given(o) /\ wanted, Num(options[o]))
             q0 == number("width", "w", TRUE)
             q1 == number("height", "h", TRUE)
             q2 == copied("dpr", "dpr", given("dpr") /\ options.dpr # Num(1))
             q3 == number("quality", "q", given("quality") /\ options.quality # defaultQuality)
             q4 == copied("fit", "fit", TRUE)
             q5 == copied("format", "format", given("format") /\ options.format # "auto")
             q6 == copied("crop", "crop", TRUE)
             q7 == copied("background", "background", TRUE)
             q8 == number("blur", "blur", given("blur") /\ options.blur > 0)
             q9 == number("sharpen", "sharpen", given("sharpen") /\ options.sharpen > 0)
             Carries(query) == "w" \in DOMAIN query /\ query["w"] = Num(options["width"]) /\ "dpr" \notin DOMAIN query
  <1>1. withTransform(options, defaultQuality) = q0 ++ q1 ++ q2 ++ q3 ++ q4 ++ q5 ++ q6 ++ q7 ++ q8 ++ q9
    BY DEF withTransform
  <1>2. \A name, present, value : DOMAIN Field(name, present, value) \subseteq {name}
    BY DEF Field
  <1>3. Carries(q0)
    BY DEF Field
  <1>4. /\ "dpr" \notin DOMAIN q1 /\ "dpr" \notin DOMAIN q2 /\ "dpr" \notin DOMAIN q3
        /\ "dpr" \notin DOMAIN q4 /\ "dpr" \notin DOMAIN q5 /\ "dpr" \notin DOMAIN q6
        /\ "dpr" \notin DOMAIN q7 /\ "dpr" \notin DOMAIN q8 /\ "dpr" \notin DOMAIN q9
    BY DEF Field
  <1>5. \A f, g : Carries(f) /\ "dpr" \notin DOMAIN g => Carries(f ++ g)
    BY OverlayKeeps, OverlayLacks
  <1> HIDE DEF Carries, q0, q1, q2, q3, q4, q5, q6, q7, q8, q9
  <1>6. Carries(q0 ++ q1 ++ q2 ++ q3 ++ q4)
    BY <1>3, <1>4, <1>5
  <1>7. Carries(q0 ++ q1 ++ q2 ++ q3 ++ q4 ++ q5 ++ q6 ++ q7 ++ q8 ++ q9)
    BY <1>4, <1>5, <1>6
  <1>8. Carries(withTransform(options, defaultQuality))
    BY <1>1, <1>7, Zenon
  <1> QED
    BY <1>8 DEF Carries

\* A candidate is a rung that fits the source, or the smallest.
Candidate(width, sourceWidth) == width \in LADDER /\ (width <= sourceWidth \/ width = MIN_LADDER_WIDTH)

LEMMA CapsFit ==
  ASSUME NEW candidates \in SUBSET LADDER, NEW n \in Nat \ {0}, NEW width \in cap(candidates, n)
  PROVE  Candidate(width, n)
  BY DEF cap, Candidate, MIN_LADDER_WIDTH, LADDER, ICON_WIDTHS

LEMMA DefaultsAreNatural ==
  ASSUME NEW n \in Nat \ {0}, NEW preferred \in Nat
  PROVE  defaultWidth(n, preferred) \in Nat
PROOF
  <1> DEFINE fitting == {w \in LADDER : w <= n}
             capped == {w \in fitting : w <= preferred}
  <1>1. defaultWidth(n, preferred) = IF fitting = {} THEN MIN_LADDER_WIDTH
                                ELSE IF capped = {} THEN Least(fitting) ELSE Greatest(capped)
    BY DEF defaultWidth
  <1>2. fitting \subseteq Nat
    BY LadderIsNat
  <1>3. capped \subseteq fitting /\ \A w \in capped : w <= preferred
    OBVIOUS
  <1>4. MIN_LADDER_WIDTH \in Nat
    BY DEF MIN_LADDER_WIDTH
  <1> HIDE DEF fitting, capped
  <1>5. IsFiniteSet(capped) /\ capped \subseteq Int
    <2>1. capped \subseteq 0..preferred
      BY <1>2, <1>3
    <2>2. IsFiniteSet(0..preferred)
      BY FS_Interval
    <2>3. IsFiniteSet(capped)
      BY <2>1, <2>2, FS_Subset
    <2> QED
      BY <2>1, <2>3
  <1>6. fitting # {} => Least(fitting) \in Nat
    <2> SUFFICES ASSUME fitting # {} PROVE Least(fitting) \in Nat
      OBVIOUS
    <2>1. PICK x \in fitting : \A y \in fitting : x <= y
      BY <1>2, LeastNatural
    <2>2. Least(fitting) = x
      BY <1>2, <2>1, LeastIs
    <2> QED
      BY <1>2, <2>1, <2>2
  <1>7. capped # {} => Greatest(capped) \in Nat
    <2> SUFFICES ASSUME capped # {} PROVE Greatest(capped) \in Nat
      OBVIOUS
    <2>1. PICK x \in capped : \A y \in capped : y <= x
      BY <1>5, GreatestMember
    <2>2. \A y \in capped : x >= y
      BY <1>5, <2>1
    <2>3. Greatest(capped) \in capped
      BY <2>2 DEF Greatest
    <2> QED
      BY <1>2, <1>3, <2>3
  <1> QED
    BY <1>1, <1>4, <1>6, <1>7

LEMMA CandidateWidths ==
  ASSUME NEW n \in Nat \ {0}, NEW target \in Nat, NEW widths \in SUBSET LADDER, NEW sizes,
         NEW width \in candidateWidths(n, sizes, target, widths)
  PROVE  Candidate(width, n)
PROOF
  <1> DEFINE pair == {snapUp(target), snapUp(2 * target)}
  <1>1. DEVICE_WIDTHS \in SUBSET LADDER
    BY DEF LADDER
  <1>2. pair \in SUBSET LADDER
    <2>1. snapUp(target) \in LADDER
      BY SnapsAgree
    <2>2. 2 * target \in Nat
      OBVIOUS
    <2>3. snapUp(2 * target) \in LADDER
      BY <2>2, SnapsAgree
    <2> QED
      BY <2>1, <2>3
  <1>3. \/ width \in cap(widths, n)
        \/ width \in cap(DEVICE_WIDTHS, n)
        \/ width \in cap(pair, n)
    BY DEF candidateWidths
  <1> HIDE DEF pair
  <1> QED
    BY <1>1, <1>2, <1>3, CapsFit

\* A candidate's URL asks for the width its descriptor states, and for no other.
Promises(url, descriptor, n) ==
  /\ Candidate(descriptor, n)
  /\ "w" \in DOMAIN url.query /\ url.query["w"] = Num(descriptor) /\ "dpr" \notin DOMAIN url.query

\* Options without a density, and widths on the ladder
Plain(options, widths) ==
  /\ "dpr" \notin DOMAIN options /\ widths \in SUBSET LADDER
  /\ "width" \in DOMAIN options => options["width"] \in Nat

LEMMA ClientPromises ==
  ASSUME NEW config, NEW asset, NEW options, NEW n \in Nat \ {0}, NEW sizes, NEW widths,
         Plain(options, widths),
         NEW c \in buildSrcset(config, asset, options, n, sizes, widths)
  PROVE  Promises(c.url, c.descriptor, n) /\ c.url.uri = baseUrl(config, asset)
PROOF
  <1> DEFINE target == IF "width" \in DOMAIN options THEN options.width ELSE defaultWidth(n, 1080)
             W == candidateWidths(n, sizes, target, widths)
             q(width) == candidateAt(options, width)
  <1>1. buildSrcset(config, asset, options, n, sizes, widths)
          = {[url |-> buildUrl(config, asset, q(width)), descriptor |-> width] : width \in W}
    BY DEF buildSrcset
  <1>2. target \in Nat
    BY DefaultsAreNatural DEF Plain
  <1>3. \A width \in W : Candidate(width, n)
    <2> HIDE DEF target
    <2> QED
      BY <1>2, CandidateWidths DEF Plain
  <1> HIDE DEF W
  <1>4. PICK width \in W : c = [url |-> buildUrl(config, asset, q(width)), descriptor |-> width]
    BY <1>1
  <1> DEFINE tall == {"width", "height"} \subseteq DOMAIN options
             h == Field("height", tall, Round(width * options.height, options.width))
             f == h ++ [width |-> width]
             g == f ++ options
  <1>5. q(width) = g
    BY DEF candidateAt
  <1>6. "width" \notin DOMAIN h /\ "dpr" \notin DOMAIN h
    BY DEF Field
  <1>7. "width" \in DOMAIN [width |-> width] /\ [width |-> width]["width"] = width /\ "dpr" \notin DOMAIN [width |-> width]
    OBVIOUS
  <1> HIDE DEF h, q
  <1>8. "width" \in DOMAIN f /\ f["width"] = width /\ "dpr" \notin DOMAIN f
    BY <1>6, <1>7, OverlayAdds, OverlayLacks
  <1> HIDE DEF f
  <1>9. "width" \in DOMAIN g /\ g["width"] = width /\ "dpr" \notin DOMAIN g
    BY <1>8, OverlayKeeps, OverlayLacks DEF Plain
  <1> HIDE DEF g
  <1>10. "width" \in DOMAIN q(width) /\ q(width)["width"] = width /\ "dpr" \notin DOMAIN q(width)
    BY <1>5, <1>9
  <1> DEFINE options1 == q(width)
             query == withTransform(options1, config.defaultQuality)
  <1>11. c.descriptor = width /\ c.url.uri = baseUrl(config, asset) /\ c.url.query = query
    BY <1>4 DEF buildUrl
  <1> HIDE DEF options1
  <1>12. "width" \in DOMAIN options1 /\ options1["width"] = width /\ "dpr" \notin DOMAIN options1
    BY <1>10 DEF options1
  <1>13. "w" \in DOMAIN query /\ query["w"] = Num(options1["width"]) /\ "dpr" \notin DOMAIN query
    BY <1>12, QueriesCarryTheWidth
  <1> HIDE DEF query
  <1> QED
    BY <1>3, <1>11, <1>12, <1>13 DEF Promises

LEMMA ServicePromises ==
  ASSUME NEW epoch, NEW asset, asset.sourceWidth \in Nat, asset.sourceWidth >= MIN_LADDER_WIDTH,
         NEW c \in serviceSrcset(epoch, asset)
  PROVE  /\ Promises(c.url, c.descriptor, asset.sourceWidth)
         /\ c.url.uri = <<"i", asset.id, toVersionSegment(asset.version, epoch)>>
PROOF
  <1> DEFINE n == asset.sourceWidth
             fitting == {w \in LADDER : n = 0 \/ w <= n}
             uri == <<"i", asset.id, toVersionSegment(asset.version, epoch)>>
             query(width) == [w |-> Num(width)]
  <1>1. MIN_LADDER_WIDTH = 16 /\ 16 \in LADDER
    BY DEF MIN_LADDER_WIDTH, LADDER, ICON_WIDTHS
  <1>2. n # 0 /\ 16 \in fitting
    BY <1>1
  <1>3. PICK width \in fitting : c = [url |-> [uri |-> uri, query |-> query(width)], descriptor |-> width]
    BY <1>2 DEF serviceSrcset
  <1>4. c.descriptor = width /\ c.url.uri = uri /\ c.url.query = query(width)
    BY <1>3
  <1>5. Candidate(width, n)
    BY <1>2, <1>3 DEF Candidate
  <1>6. "w" \in DOMAIN query(width) /\ query(width)["w"] = Num(width) /\ "dpr" \notin DOMAIN query(width)
    OBVIOUS
  <1> HIDE DEF query, uri
  <1> QED
    BY <1>4, <1>5, <1>6 DEF Promises, uri

LEMMA SrcsetsPromise ==
  ASSUME NEW request, NEW config, NEW asset, NEW options, NEW sizes, NEW widths,
         OfSrcset(request, config, asset, options, sizes, widths)
  PROVE  /\ asset.sourceWidth \in Nat \ {0} /\ asset.sourceWidth = Metadata(asset.version).width
         /\ Promises(request, request.descriptor, asset.sourceWidth)
         /\ request.uri[3] = toVersionSegment(asset.version, config.encoderEpoch)
PROOF
  <1> DEFINE c == [url |-> [uri |-> request.uri, query |-> request.query], descriptor |-> request.descriptor]
             segment == toVersionSegment(asset.version, config.encoderEpoch)
             base == <<"i", asset.id, segment>>
             slug == IF asset.slug = "" THEN <<>> ELSE <<asset.slug>>
  <1>1. asset.sourceWidth \in Nat \ {0} /\ asset.sourceWidth = Metadata(asset.version).width
    BY DEF OfSrcset
  <1>2. c.url.uri = request.uri /\ c.url.query = request.query /\ c.descriptor = request.descriptor
    OBVIOUS
  <1>3. base[3] = segment /\ (base \o slug)[3] = segment
    <2> HIDE DEF segment
    <2> QED
      OBVIOUS
  <1>4. baseUrl(config, asset) = base \o slug
    BY DEF baseUrl
  <1>5. \/ Plain(options, widths) /\ c \in buildSrcset(config, asset, options, asset.sourceWidth, sizes, widths)
        \/ asset.sourceWidth >= MIN_LADDER_WIDTH /\ c \in serviceSrcset(config.encoderEpoch, asset)
    BY DEF OfSrcset, Plain
  <1> HIDE DEF c
  <1>6. Promises(c.url, c.descriptor, asset.sourceWidth) /\ c.url.uri \in {baseUrl(config, asset), base}
    <2>1. asset.sourceWidth \in Nat
      BY <1>1
    <2>2. CASE Plain(options, widths) /\ c \in buildSrcset(config, asset, options, asset.sourceWidth, sizes, widths)
      BY <1>1, <2>2, ClientPromises
    <2>3. CASE asset.sourceWidth >= MIN_LADDER_WIDTH /\ c \in serviceSrcset(config.encoderEpoch, asset)
      BY <2>1, <2>3, ServicePromises
    <2> QED
      BY <1>5, <2>2, <2>3
  <1> HIDE DEF base, slug, segment
  <1>7. request.uri[3] = segment
    BY <1>2, <1>3, <1>4, <1>6
  <1>8. Promises(request, request.descriptor, asset.sourceWidth)
    BY <1>2, <1>6 DEF Promises
  <1> QED
    BY <1>1, <1>7, <1>8 DEF segment

\* Every candidate is asked for as a srcset writes it.
CandidatesOfSrcsets ==
  \A request \in KnownRequests : request.descriptor # 0 =>
    \E config, asset, options, sizes, widths : OfSrcset(request, config, asset, options, sizes, widths)

SaysWidth(query, accept, width) == SpecOf(query, accept, 0, FALSE)["width"] = width

\* The width a spec holds, for a query that promises one.
LEMMA PromisedWidth ==
  ASSUME NEW url, NEW accept, NEW descriptor, NEW n \in Nat \ {0}, Promises(url, descriptor, n)
  PROVE  /\ SaysWidth(url.query, accept, descriptor)
         /\ descriptor # MIN_LADDER_WIDTH => MinOf(descriptor, n) = descriptor
PROOF
  <1>1. descriptor \in LADDER /\ (descriptor <= n \/ descriptor = MIN_LADDER_WIDTH)
    BY DEF Promises, Candidate
  <1>2. descriptor \in Nat
    BY <1>1, LadderIsNat
  <1>3. SpecOf(url.query, accept, 0, FALSE)["width"] = snapWidth(Num(descriptor), <<1, 1>>, 0)
    <2>1. "w" \in DOMAIN url.query /\ "dpr" \notin DOMAIN url.query /\ url.query.w = Num(descriptor)
      BY DEF Promises
    <2> QED
      BY <2>1, WidthOfSpec
  <1>4. snapWidth(Num(descriptor), <<1, 1>>, 0) = descriptor
    BY <1>1, RungsServed
  <1>5. descriptor # MIN_LADDER_WIDTH => MinOf(descriptor, n) = descriptor
    BY <1>1, <1>2 DEF MinOf
  <1> QED
    BY <1>3, <1>4, <1>5 DEF SaysWidth

\* The version the generator reads is the one the URL was built for.
LEMMA PromisedVersion ==
  ASSUME NEW uri, NEW query, NEW accept, NEW path, Understood(uri, query, accept, path),
         NEW version, NEW epoch, uri[3] = toVersionSegment(version, epoch)
  PROVE  parseCanonicalKey(path).assetVersion = version
PROOF
  <1>1. parseCanonicalKey(path).ok
    BY DEF Understood
  <1>2. path[3] = toVersionSegment(version, epoch)
    BY QuadIs DEF Understood
  <1>3. parseVersionSegment(path[3]) = <<version, epoch>>
    BY <1>2 DEF parseVersionSegment, toVersionSegment, Numeral
  <1>4. parseCanonicalKey(path).assetVersion = parseVersionSegment(path[3])[1]
    BY <1>1 DEF parseCanonicalKey
  <1> QED
    BY <1>3, <1>4

\* For any set of requests whose candidates are those of srcsets: a candidate is looked up
\* at the width its descriptor states, and the source has the pixels, the smallest rung
\* aside (srcset.ts, delivery.service.ts).
THEOREM SrcsetKeepsItsPromiseCorrect ==
  ASSUME CandidatesOfSrcsets
  PROVE  Spec => []SrcsetKeepsItsPromise
PROOF
  <1>1. TermsInv /\ AskedInv => SrcsetKeepsItsPromise
    <2> SUFFICES ASSUME TermsInv, AskedInv, NEW v \in Viewers, Looking(v), asked[v].descriptor # 0
                 PROVE  /\ RequestedSpec(v).width = asked[v].descriptor
                        /\ asked[v].descriptor # MIN_LADDER_WIDTH =>
                             RenderedWidth(RequestedSpec(v), Metadata(made[v].parsed.assetVersion).width) = asked[v].descriptor
      BY DEF SrcsetKeepsItsPromise
    <2>1. /\ Understood(asked[v].uri, asked[v].query, asked[v].accept, view[v].path)
          /\ RequestedSpec(v) = SpecOf(asked[v].query, asked[v].accept, 0, FALSE)
      BY LookedUp
    <2>2. Forwarded(v) /\ ViewInv(v) /\ view[v].pc # "away"
      BY DEF Looking, TermsInv, ViewInv, UnderWay
    <2>3. made[v].parsed = parseCanonicalKey(view[v].path)
      BY <2>2, ForwardedParses
    <2>4. asked[v] \in KnownRequests
      BY <2>2 DEF AskedInv
    <2> DEFINE request == asked[v]
    <2>5. PICK config, asset, options, sizes, widths : OfSrcset(request, config, asset, options, sizes, widths)
      BY <2>4 DEF CandidatesOfSrcsets
    <2> DEFINE n == asset.sourceWidth
               d == request.descriptor
    <2>6. n \in Nat \ {0} /\ n = Metadata(asset.version).width /\ Promises(request, d, n)
      BY <2>5, SrcsetsPromise
    <2>7. request.uri[3] = toVersionSegment(asset.version, config.encoderEpoch)
      BY <2>5, SrcsetsPromise
    <2>8. made[v].parsed.assetVersion = asset.version
      BY <2>1, <2>3, <2>7, PromisedVersion
    <2> HIDE DEF n, d
    <2>9. RequestedSpec(v)["width"] = d /\ (d # MIN_LADDER_WIDTH => MinOf(d, n) = d)
      <3>1. SaysWidth(request.query, request.accept, d) /\ (d # MIN_LADDER_WIDTH => MinOf(d, n) = d)
        BY <2>6, PromisedWidth
      <3>2. RequestedSpec(v) = SpecOf(request.query, request.accept, 0, FALSE)
        BY <2>1
      <3> QED
        BY <3>1, <3>2, Zenon DEF SaysWidth
    <2> QED
      BY <2>6, <2>8, <2>9 DEF d, RenderedWidth
  <1>2. TermsInv /\ AskedInv /\ [Next]_vars => TermsInv' /\ AskedInv'
    BY AskedStays
  <1> QED
    BY <1>1, <1>2, TermsInvInit, AskedInvInit, PTL DEF Spec
=============================================================================
