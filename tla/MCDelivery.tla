----------------------------- MODULE MCDelivery -----------------------------
(***************************************************************************)
(* Instances of Delivery for TLC: every request of a sweep by a viewer     *)
(* alone, and two viewers who contend for the renditions of a large source *)
(* while it is uploaded, optimized and deleted.                            *)
(***************************************************************************)
EXTENDS Delivery, ConformanceVectors

CONSTANTS v1, v2

\* Version 1 is a phone's photograph, on its side, 2 a tall scan that gets a master, 3 a
\* favicon
MCSourceOf == <<[width |-> 1200, height |-> 1600, orientation |-> 6],
                [width |-> 3000, height |-> 12000, orientation |-> 0],
                [width |-> 12, height |-> 12, orientation |-> 1]>>

MCEpoch == 1

Version(v) == toVersionSegment(v, MCEpoch)
Request(uri, query, accept) ==
  [uri |-> uri, query |-> query, accept |-> accept, signed |-> FALSE, expected |-> <<>>, descriptor |-> 0]
Plain(query) == Request(<<"i", "asset", Version(1), "slug">>, query, ACCEPT_AVIF)

\* The oracle
VectorRequests ==
  {LET r == Request(<<"i", "asset", Version(1)>>, vector.params, vector.accept)
   IN  IF vector.expected.tokens = <<>> THEN r
       ELSE [r EXCEPT !.expected = <<"derived", "asset", Version(1), vector.expected>>] :
     vector \in CONFORMANCE_VECTORS}
GroupRequests == {Plain(query) : query \in UNION EQUIVALENCE_GROUPS}
PathRequests ==
  {[Request(p.uri, p.params, p.accept) EXCEPT !.signed = TRUE,
                                              !.expected = IF p.expected[1] = "ERROR" THEN <<>> ELSE p.expected] :
     p \in PATH_VECTORS}

\* Ties and ends of every ladder, alone and against each other
GridRequests ==
  LET one == {[w |-> <<n, 2>>, dpr |-> <<d, 2>>] : n \in {1, 31, 32, 33, 2559, 7680, 7681}, d \in {1, 2, 3, 5, 7}}
             \cup {[w |-> Num(640), q |-> Num(n)] : n \in {49, 50, 51, 57, 58, 70, 80, 90, 95, 96}}
             \cup {[w |-> Num(640), q |-> <<n, 2>>] : n \in {115, 139, 141, 179, 181}}
             \cup {[w |-> Num(640), blur |-> <<n, 2>>] : n \in {1, 2, 3, 7, 15, 30, 60, 99}}
             \cup {[w |-> Num(640), sharpen |-> <<n, 2>>] : n \in {1, 2, 3, 9}}
      box == {BoxQuery(w, h) : w \in {16, 333, 3840}, h \in {1, 333, 345, 9999}}
      fit == {BoxQuery(640, 360) @@ [fit |-> f, crop |-> c, background |-> b] :
                f \in {"cover", "contain", "outside", "pad", "fill"}, c \in {"center", "top", "entropy"},
                b \in {<<15, 15, 15>>, <<0, 0, 8>>, <<0, 0, 0, 0, 0, 8, 15, 15>>, <<0, 0, 9, 9>>, <<1, 2>>}}
      format == {BoxQuery(640, 360) @@ [fit |-> f, format |-> o, q |-> Num(q)] :
                   f \in {"cover", "contain"}, o \in {"png", "jpeg"}, q \in {50, 75, 85, 95}}
  IN  {Plain(query) : query \in one \cup box \cup fit \cup format}

\* What the client library, its components and the API's own URLs ask for
Config == resolveConfig(MCEpoch, DEFAULT_QUALITY)
Asset(v) == [id |-> "asset", version |-> v, slug |-> "", deliverable |-> TRUE, sourceWidth |-> Metadata(v).width]
OfUrl(url) == Request(url.uri, url.query, ACCEPT_WEBP)
Candidates(srcset) == {[OfUrl(c.url) EXCEPT !.descriptor = c.descriptor] : c \in srcset}
Options == {<<>>, [width |-> 48], [width |-> 400, height |-> 300], [width |-> 640, height |-> 640, fit |-> "cover", crop |-> "top"],
            [quality |-> 85, format |-> "webp"], [width |-> 4000]}
ClientRequests ==
  LET image(v, o, s) == Image(Config, Asset(v), o, s)
      picture == Picture(Config, Asset(1), {[width |-> 1200, height |-> 400]}, [width |-> 800, height |-> 600])
      images == {image(v, o, s) : v \in {1, 3}, o \in Options, s \in {"responsive", "fixed"}}
                \cup picture.sources \cup {picture.img}
                \cup {preloadLinkProps(Config, Asset(1), [width |-> 48], "fixed")}
                \cup {forAsset(Config, Asset(2), <<>>, "responsive", {96, 640, 1080})}
  IN  UNION {Candidates(i.srcset) \cup {OfUrl(i.src)} : i \in images}
      \cup Candidates(urlsFor(MCEpoch, Asset(1)).srcset) \cup {OfUrl(urlsFor(MCEpoch, Asset(v)).src) : v \in {1, 3}}
      \cup {OfUrl(createNextLoader(Config, baseUrl(Config, Asset(1)), w, 75)) : w \in nextImageSizes}

\* Every candidate is a srcset's, as the proofs suppose.
ASSUME CandidatesAreOfSrcsets ==
  \A r \in ClientRequests : r.descriptor # 0 =>
    \E v \in 1..3, s \in {"responsive", "fixed"}, widths \in {{}, {96, 640, 1080}},
       o \in Options \cup {[width |-> 1200, height |-> 400], [width |-> 800, height |-> 600]} :
      OfSrcset(r, Config, Asset(v), o, s, widths)

\* Odd paths: stale epochs, leading zeros, private delivery with and without a signature
PathsAside ==
  LET w640 == W(640)
      zeros == [toVersionSegment(1, MCEpoch) EXCEPT ![2] = [value |-> 1, zeros |-> 1]]
      private == privateBaseUrl(MCEpoch, Asset(1))
  IN  {Request(<<"i", "asset", toVersionSegment(1, 2)>>, w640, {}), Request(<<"i", "asset", zeros>>, w640, {}),
       Request(<<"i", "asset", toVersionSegment(1, MCEpoch)>>, [w |-> Num(3840), format |-> "png"], {}),
       Request(private, w640, {}), [Request(private, w640, {}) EXCEPT !.signed = TRUE]}

Sweep == VectorRequests \cup GroupRequests \cup PathRequests \cup GridRequests \cup ClientRequests \cup PathsAside

\* The tall scan, whose original is yet to come: two viewers at one width, while a call
\* fails or the asset is deleted, and one viewer through both.
Tall(query) == Request(<<"i", "asset", Version(2)>>, query, ACCEPT_AVIF)
Contended(r, s, failures, deletes) ==
  [asked |-> (v1 :> r) @@ (v2 :> s), originals |-> {1, 3}, faults |-> failures, deletes |-> deletes]

MCScenarios ==
  {[asked |-> (v1 :> r) @@ (v2 :> NoRequest), originals |-> {1, 2, 3}, faults |-> 0, deletes |-> FALSE] : r \in Sweep}
  \cup {Contended(Tall(W(1080)), Tall(W(1080)), 1, FALSE), Contended(Tall(W(1080)), Tall(W(1080)), 0, TRUE)}
  \cup {Contended(Tall(query), NoRequest, 1, TRUE) : query \in {W(1080), [w |-> Num(3840), format |-> "png"]}}
=============================================================================
