------------------------------ MODULE Pipeline ------------------------------
(***************************************************************************)
(* The image pipeline of packages/core: which calls a normalized spec      *)
(* makes on the image library, and what of them the library lets the       *)
(* pixels depend on.                                                       *)
(***************************************************************************)
EXTENDS TransformGrammar

---------------------------------------------------------------------------
\* Encoder settings

AVIF_EFFORT_REDUCTION_WIDTH == 1920
QualityTable(q50, q65, q75, q85, q95) ==
  [quality \in QUALITY_LEVELS |->
     CASE quality = 50 -> q50 [] quality = 65 -> q65 [] quality = 75 -> q75 [] quality = 85 -> q85 [] OTHER -> q95]
JPEG_QUALITY == QualityTable(55, 68, 78, 88, 96)
WEBP_QUALITY == QualityTable(50, 62, 72, 82, 93)
AVIF_QUALITY == QualityTable(34, 42, 50, 62, 80)
PNG_PALETTE_QUALITY ==                                                \* above: full colour
  [quality \in {50, 65, 75} |-> CASE quality = 50 -> 60 [] quality = 65 -> 75 [] OTHER -> 85]

chromaSubsampling(quality) == IF quality >= 95 THEN "4:4:4" ELSE "4:2:0"
jpegOptions(quality) ==
  [quality |-> JPEG_QUALITY[quality], chroma |-> chromaSubsampling(quality)]
webpOptions(quality) == [quality |-> WEBP_QUALITY[quality], effort |-> 5]
avifOptions(quality, outputWidth) ==
  [quality |-> AVIF_QUALITY[quality], chroma |-> chromaSubsampling(quality),
   effort |-> IF outputWidth > AVIF_EFFORT_REDUCTION_WIDTH THEN 2 ELSE 4]
pngOptions(quality) ==
  [palette |-> quality \in DOMAIN PNG_PALETTE_QUALITY]
  ++ Field("quality", quality \in DOMAIN PNG_PALETTE_QUALITY, PNG_PALETTE_QUALITY[quality])

\* An absent output width is 0.
encoderOptionsFor(format, quality, outputWidth) ==
  CASE format = "jpeg" -> jpegOptions(quality)
    [] format = "webp" -> webpOptions(quality)
    [] format = "avif" -> avifOptions(quality, outputWidth)
    [] format = "png" -> pngOptions(quality)

---------------------------------------------------------------------------
\* The transform chain

DEFAULT_FLATTEN_BACKGROUND == <<255, 255, 255>>

positionFor(gravity) == IF gravity = DEFAULT_GRAVITY THEN "centre" ELSE gravity

fitFor(fit) == IF fit \in {"contain", "inside", "outside", "fill"} THEN fit ELSE "cover"

Given(spec, field, default) == IF field \in DOMAIN spec THEN spec[field] ELSE default

backgroundOf(spec) == Given(spec, "background", DEFAULT_FLATTEN_BACKGROUND)

\* The calls made for a spec, in the order they are made; an absent call is <<>>.
\* (Orientation is always first and the conversion to sRGB always last but one.)
applyTransform(spec) ==
  [resize  |-> IF {"width", "height"} \cap DOMAIN spec = {} THEN <<>>
               ELSE [width |-> Given(spec, "width", 0), height |-> Given(spec, "height", 0),
                     fit |-> fitFor(Given(spec, "fit", DEFAULT_FIT)),
                     position |-> positionFor(Given(spec, "gravity", DEFAULT_GRAVITY)),
                     background |-> backgroundOf(spec), withoutEnlargement |-> TRUE],
   blur    |-> IF Given(spec, "blur", 0) > 0 THEN <<spec.blur>> ELSE <<>>,
   sharpen |-> IF Given(spec, "sharpen", 0) > 0 THEN <<spec.sharpen>> ELSE <<>>,
   flatten |-> IF supportsAlpha(spec.format) THEN <<>> ELSE backgroundOf(spec),
   encode  |-> [format |-> spec.format,
                options |-> encoderOptionsFor(spec.format, spec.quality, Given(spec, "width", 0))]]

\* A colour, with an opaque alpha channel left out
Opaque(colour) == IF Len(colour) = 4 /\ colour[4] = 255 THEN SubSeq(colour, 1, 3) ELSE colour

\* What the library makes of a resize: with one dimension alone the fit is moot; the
\* position chooses the crop of cover, the background fills the bars of contain.
Resized(r) ==
  IF r = <<>> \/ r.width = 0 \/ r.height = 0
  THEN IF r = <<>> THEN r ELSE [width |-> r.width, height |-> r.height]
  ELSE [width |-> r.width, height |-> r.height, fit |-> r.fit]
       ++ Field("position", r.fit = "cover", r.position)
       ++ Field("background", r.fit = "contain", Opaque(r.background))

\* Everything the pixels of a rendition of one source depend on
Rendering(spec) ==
  LET calls == applyTransform(spec)
  IN  [resize |-> Resized(calls.resize), blur |-> calls.blur, sharpen |-> calls.sharpen,
       flatten |-> Opaque(calls.flatten), encode |-> calls.encode]

\* The width a rendition constrained by width alone comes out with
RenderedWidth(spec, sourceWidth) == MinOf(spec.width, sourceWidth)

---------------------------------------------------------------------------
\* Source metadata and the master rendition

swapsAxes(orientation) == orientation \in 5..8

\* Displayed dimensions of a source stored as width x height; no orientation is 0
readMetadata(width, height, orientation, bytes) ==
  LET swap == swapsAxes(orientation)
  IN  [width |-> IF swap THEN height ELSE width, height |-> IF swap THEN width ELSE height,
       bytes |-> bytes, orientationSwapsAxes |-> swap]

needsMaster(metadata, thresholds) ==
  \/ metadata.bytes > thresholds.bytes
  \/ MaxOf(metadata.width, metadata.height) > thresholds.longestEdge
=============================================================================
