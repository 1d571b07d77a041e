-------------------------- MODULE TransformGrammar --------------------------
(***************************************************************************)
(* The transform grammar of packages/core: from raw query parameters to a  *)
(* normalized spec, from the spec to a variant name, and back.             *)
(*                                                                         *)
(* Conventions.  A non-negative decimal number is a pair <<n, d>> standing *)
(* for n/d.  A raw query is a function from the names of the parameters it *)
(* carries to their raw values: <<n, d>> or Unparseable for a numeric one, *)
(* a string for an enum, hex digits (or Unparseable) for background.  A    *)
(* spec is a function whose domain is the fields that are present.  A      *)
(* variant name is its sequence of tokens with its extension; a token is   *)
(* a pair of its kind and its value.  Rounding is exact: where the code's  *)
(* floats could break a tie either way, both of its sides compute the same *)
(* expression on the same operands.                                        *)
(***************************************************************************)
EXTENDS Integers, Sequences, FiniteSets, Fields

Unparseable == <<>>
Num(n) == <<n, 1>>

AtMost(x, y) == x[1] * y[2] <= y[1] * x[2]
Distance(a, b) == IF a <= b THEN b - a ELSE a - b
Round(n, d) == (2 * n + d) \div (2 * d)
Ceiling(n, d) == (n + d - 1) \div d

MinOf(a, b) == IF a <= b THEN a ELSE b
MaxOf(a, b) == IF a >= b THEN a ELSE b
Least(S) == CHOOSE x \in S : \A y \in S : x <= y
Greatest(S) == CHOOSE x \in S : \A y \in S : x >= y

---------------------------------------------------------------------------
\* Breakpoints

ICON_WIDTHS == {16, 32, 48, 64, 96, 128, 192, 256}
DEVICE_WIDTHS == {320, 480, 640, 750, 828, 960, 1080, 1200, 1440, 1920, 2560, 3840}
LADDER == ICON_WIDTHS \cup DEVICE_WIDTHS
MIN_LADDER_WIDTH == 16
MAX_LADDER_WIDTH == 3840

snapUp(width) ==
  LET rungs == {r \in LADDER : r >= width}
  IN  IF rungs = {} THEN MAX_LADDER_WIDTH ELSE Least(rungs)

capToSource(width, sourceWidth) ==
  LET rungs == {r \in LADDER : r <= sourceWidth}
  IN  CASE width <= sourceWidth -> width
        [] OTHER -> IF rungs = {} THEN MIN_LADDER_WIDTH ELSE Greatest(rungs)

\* An absent source width is 0.
floor1(x) == IF AtMost(x, Num(1)) THEN Num(1) ELSE x

snapWidth(requested, dpr, sourceWidth) ==
  LET wanted == floor1(requested)
      effective == MinOf(Ceiling(wanted[1] * dpr[1], wanted[2] * dpr[2]), MAX_LADDER_WIDTH)
  IN  IF sourceWidth = 0 THEN snapUp(effective) ELSE capToSource(snapUp(effective), sourceWidth)

isLadderWidth(width) == width \in LADDER

\* Ratios are height / width.
RATIOS == {<<9, 21>>, <<9, 16>>, <<2, 3>>, <<3, 4>>, <<1, 1>>, <<4, 3>>, <<3, 2>>, <<16, 9>>, <<21, 9>>}
RATIO_TOLERANCE == <<3, 100>>
MIN_RATIO == <<5, 100>>
MAX_RATIO == <<20, 1>>

\* The relative error of r against c is Off(r, c) / (r[2] * c[1]).
Off(r, c) == Distance(r[1] * c[2], c[1] * r[2])

quantizeRatio(ratio) ==
  LET r == CASE AtMost(ratio, MIN_RATIO) -> MIN_RATIO
             [] AtMost(MAX_RATIO, ratio) -> MAX_RATIO
             [] OTHER -> ratio
      listed == {c \in RATIOS :
                   Off(r, c) * RATIO_TOLERANCE[2] <= RATIO_TOLERANCE[1] * r[2] * c[1]}
  IN  IF listed = {} THEN <<Round(100 * r[1], r[2]), 100>>
      ELSE CHOOSE c \in listed : \A d \in listed : Off(r, c) * d[1] <= Off(r, d) * c[1]

HeightFor(width, ratio) == Round(width * ratio[1], ratio[2])

\* Only the listed ratios: a height the quantizer left at its own percent is refused.
isListedHeight(width, height) == \E c \in RATIOS : HeightFor(width, c) = height

isQuantizedHeight(width, height) ==
  \/ \E c \in RATIOS : HeightFor(width, c) = height
  \/ LET lower == (height * 100) \div width - 1
     IN  \E k \in lower..(lower + 3) :
           5 <= k /\ k <= 2000 /\ HeightFor(width, <<k, 100>>) = height

\* A function of the fields that are present: an absent dimension stays absent.
resolveDimensions(input, dpr, sourceWidth) ==
  LET has(f) == f \in DOMAIN input
      w == snapWidth(input.w, dpr, sourceWidth)
      wanted == <<floor1(input.h)[1] * floor1(input.w)[2], floor1(input.h)[2] * floor1(input.w)[1]>>
  IN  CASE has("w") /\ has("h") -> [width |-> w, height |-> HeightFor(w, quantizeRatio(wanted))]
        [] has("w") /\ ~has("h") -> [width |-> w]
        [] ~has("w") /\ has("h") -> [height |-> snapWidth(input.h, dpr, 0)]
        [] OTHER -> <<>>

---------------------------------------------------------------------------
\* Effects, quality and formats

FIT_MODES == {"cover", "contain", "inside", "outside", "fill", "pad"}
CANONICAL_FIT_MODES == FIT_MODES \ {"pad"}
DEFAULT_FIT == "cover"
normalizeFitNot(fit) == fit      \* the alias would mint a name of its own
normalizeFit(fit) == IF fit = "pad" THEN "contain" ELSE fit
fitUsesBackground(fit) == fit = "contain"
fitCropsWide(fit) == fit \in {"cover", "outside"}
fitCrops(fit) == fit = "cover"

CROP_GRAVITIES == {"center", "top", "bottom", "left", "right", "entropy", "attention"}
DEFAULT_GRAVITY == "center"

BLUR_LEVELS == {0, 2, 5, 10, 20, 40}
SHARPEN_LEVELS == {0, 1, 2}
QUALITY_LEVELS == {50, 65, 75, 85, 95}
DEFAULT_QUALITY == 75

\* The nearest level; the levels ascend and the first match wins a tie.
nearest(levels, requested) ==
  LET off(l) == Distance(requested[1], l * requested[2])
  IN  Least({l \in levels : \A k \in levels : off(l) <= off(k)})

quantizeBlur(requested) == nearest(BLUR_LEVELS, requested)
quantizeSharpen(requested) == nearest(SHARPEN_LEVELS, requested)
quantizeQuality(requested) ==
  nearest(QUALITY_LEVELS, CASE AtMost(requested, Num(50)) -> Num(50)
                            [] AtMost(Num(95), requested) -> Num(95)
                            [] OTHER -> requested)

\* A colour is the sequence of its 8-bit channels, once the shorthand of 3 or 4
\* digits is expanded (digit d becomes the byte 17 * d).  In a raw query it is
\* the sequence of its hex digits, or Unparseable when a digit is not one.
BACKGROUND_CHANNEL_STEP == 17
quantizeChannel(byte) == Round(byte, BACKGROUND_CHANNEL_STEP) * BACKGROUND_CHANNEL_STEP
isQuantizedBackground(hex) == \A i \in DOMAIN hex : hex[i] % BACKGROUND_CHANNEL_STEP = 0

normalizeBackground(digits) ==
  LET bytes == CASE Len(digits) \in {3, 4} -> [i \in DOMAIN digits |-> 17 * digits[i]]
                 [] Len(digits) \in {6, 8} ->
                      [i \in 1..(Len(digits) \div 2) |-> 16 * digits[2 * i - 1] + digits[2 * i]]
                 [] OTHER -> Unparseable
  IN  [i \in DOMAIN bytes |-> quantizeChannel(bytes[i])]

OUTPUT_FORMATS == {"avif", "webp", "jpeg", "png"}
REQUESTED_FORMATS == OUTPUT_FORMATS \cup {"auto"}
FORMAT_EXTENSIONS == [avif |-> "avif", webp |-> "webp", jpeg |-> "jpg", png |-> "png"]
EXTENSION_FORMATS == [avif |-> "avif", webp |-> "webp", jpg |-> "jpeg", png |-> "png"]
supportsAlpha(format) == format # "jpeg"

\* accept is the set of image types the header names.
resolveAutoFormat(accept, sourceHasAlpha) ==
  CASE "avif" \in accept -> "avif"
    [] "avif" \notin accept /\ "webp" \in accept -> "webp"
    [] OTHER -> IF sourceHasAlpha THEN "png" ELSE "jpeg"

resolveFormat(requested, accept, sourceHasAlpha) ==
  IF requested = "auto" THEN resolveAutoFormat(accept, sourceHasAlpha) ELSE requested

---------------------------------------------------------------------------
\* parseTransform

NumericParams == <<"w", "h", "q", "blur", "sharpen", "dpr">>
MIN_DPR == Num(1)
MAX_DPR == Num(3)

\* toLowerCase, on the spellings requests use
Lower == [PAD |-> "pad", COVER |-> "cover", Contain |-> "contain", WebP |-> "webp"]
lower(s) == IF s \in DOMAIN Lower THEN Lower[s] ELSE s

Rejected(code, parameter) == [ok |-> FALSE, code |-> code, parameter |-> parameter]

\* Enums are checked after every number, in the order fit, format, crop.  An
\* absolute rectangle is refused under a code of its own.
enumError(params) ==
  LET unknown(p, known) == p \in DOMAIN params /\ lower(params[p]) \notin known
  IN  CASE unknown("fit", FIT_MODES) -> <<"invalid_enum", "fit">>
        [] ~unknown("fit", FIT_MODES) /\ unknown("format", REQUESTED_FORMATS) -> <<"invalid_enum", "format">>
        [] ~unknown("fit", FIT_MODES) /\ ~unknown("format", REQUESTED_FORMATS)
             /\ unknown("crop", CROP_GRAVITIES) ->
             <<IF params.crop = "10,20" THEN "unsupported_crop" ELSE "invalid_enum", "crop">>
        [] OTHER -> <<>>

Bad(params, i) == NumericParams[i] \in DOMAIN params /\ params[NumericParams[i]] = Unparseable

\* The spec of a request every parameter of which parses.  An inert parameter
\* leaves no field.
SpecOf(params, accept, sourceWidth, sourceHasAlpha) ==
  LET given(p, default) == IF p \in DOMAIN params THEN params[p] ELSE default
      dprRaw == given("dpr", Num(1))
      dpr == CASE AtMost(dprRaw, MIN_DPR) -> MIN_DPR
               [] AtMost(MAX_DPR, dprRaw) -> MAX_DPR
               [] OTHER -> dprRaw
      dims == resolveDimensions(params, dpr, sourceWidth)
      boxConstrained == {"width", "height"} \subseteq DOMAIN dims
      fit == normalizeFit(lower(given("fit", DEFAULT_FIT)))
      gravity == lower(given("crop", DEFAULT_GRAVITY))
      background == normalizeBackground(given("background", Unparseable))
      blur == quantizeBlur(given("blur", Num(0)))
      sharpen == quantizeSharpen(given("sharpen", Num(0)))
  IN  [format |-> resolveFormat(lower(given("format", "auto")), accept, sourceHasAlpha),
       quality |-> IF "q" \in DOMAIN params THEN quantizeQuality(params.q) ELSE DEFAULT_QUALITY]
      ++ dims
      ++ Field("fit", boxConstrained, fit)
      ++ Field("gravity", boxConstrained /\ fitCrops(fit) /\ gravity # DEFAULT_GRAVITY, gravity)
      ++ Field("background", boxConstrained /\ fitUsesBackground(fit) /\ background # Unparseable, background)
      ++ Field("blur", blur > 0, blur)
      ++ Field("sharpen", sharpen > 0, sharpen)

parseTransform(params, accept, sourceWidth, sourceHasAlpha) ==
  LET bad == {i \in DOMAIN NumericParams : Bad(params, i)}
  IN  CASE bad # {} -> Rejected("invalid_number", NumericParams[Least(bad)])
        [] bad = {} /\ enumError(params) # <<>> -> Rejected(enumError(params)[1], enumError(params)[2])
        [] OTHER -> [ok |-> TRUE, spec |-> SpecOf(params, accept, sourceWidth, sourceHasAlpha)]

---------------------------------------------------------------------------
\* Canonical keys

DERIVED_PREFIX == "derived"
VIEWER_PATH_PREFIXES == {"i", "p"}
STORAGE_PREFIXES == {DERIVED_PREFIX, "original", "master", "staging"}

\* The token of a field, when the spec has the field
Token(spec, field, kind) == IF field \in DOMAIN spec THEN << <<kind, spec[field]>> >> ELSE <<>>

extrasTokens(spec) ==
  Token(spec, "gravity", "g") \o Token(spec, "background", "bg")
    \o Token(spec, "blur", "bl") \o Token(spec, "sharpen", "sh")

toVariantName(spec) ==
  LET box == Token(spec, "width", "w") \o Token(spec, "height", "h")
  IN  [tokens |-> (IF box = <<>> THEN << <<"full">> >> ELSE box)
                    \o Token(spec, "fit", "fit") \o << <<"q", spec.quality>> >> \o extrasTokens(spec),
       ext    |-> FORMAT_EXTENSIONS[spec.format]]

\* derived/{assetId}/v{assetVersion}-{encoderEpoch}/{variant}.  A numeral in a
\* path is its value with its count of leading zeros.
Numeral(n) == [value |-> n, zeros |-> 0]
toVersionSegment(assetVersion, encoderEpoch) == <<"v", Numeral(assetVersion), Numeral(encoderEpoch)>>
toCanonicalKey(assetId, assetVersion, encoderEpoch, spec) ==
  <<DERIVED_PREFIX, assetId, toVersionSegment(assetVersion, encoderEpoch), toVariantName(spec)>>

hasNormalizedDimensions(spec) ==
  LET has(f) == f \in DOMAIN spec
  IN  CASE has("width") /\ has("height") ->
             isLadderWidth(spec.width) /\ isQuantizedHeight(spec.width, spec.height)
        [] has("width") /\ ~has("height") -> isLadderWidth(spec.width)
        [] ~has("width") /\ has("height") -> isLadderWidth(spec.height)
        [] OTHER -> TRUE

isFreeOfInertParameters(spec) ==
  LET has(f) == f \in DOMAIN spec
  IN  /\ has("fit") = (has("width") /\ has("height"))
      /\ has("gravity") => has("fit") /\ fitCrops(spec.fit) /\ spec.gravity # DEFAULT_GRAVITY
      /\ has("background") => has("fit") /\ fitUsesBackground(spec.fit)
      /\ has("blur") => spec.blur # 0
      /\ has("sharpen") => spec.sharpen # 0

validToken(t) ==
  CASE t[1] = "full" -> TRUE
    [] t[1] \in {"w", "h"} -> t[2] > 0
    [] t[1] = "q" -> t[2] \in QUALITY_LEVELS
    [] t[1] = "bl" -> t[2] \in BLUR_LEVELS
    [] t[1] = "sh" -> t[2] \in SHARPEN_LEVELS
    [] t[1] = "g" -> t[2] \in CROP_GRAVITIES
    [] t[1] = "fit" -> t[2] \in CANONICAL_FIT_MODES
    [] t[1] = "bg" -> Len(t[2]) \in {3, 4} /\ isQuantizedBackground(t[2])
    [] OTHER -> FALSE

\* The last token of a kind wins; a name that repeats one fails the last gate.
tokensOf(name, kind) == {i \in DOMAIN name.tokens : name.tokens[i][1] = kind}
Read(name, field, kind) ==
  Field(field, tokensOf(name, kind) # {}, name.tokens[Greatest(tokensOf(name, kind))][2])

specIn(name) ==
  [format |-> EXTENSION_FORMATS[name.ext]]
  ++ Read(name, "quality", "q") ++ Read(name, "width", "w") ++ Read(name, "height", "h")
  ++ Read(name, "fit", "fit") ++ Read(name, "gravity", "g") ++ Read(name, "background", "bg")
  ++ Read(name, "blur", "bl") ++ Read(name, "sharpen", "sh")

parseVariantName(name) ==
  IF /\ name.ext \in DOMAIN EXTENSION_FORMATS
     /\ \A i \in DOMAIN name.tokens : validToken(name.tokens[i])
     /\ tokensOf(name, "q") # {}
     /\ hasNormalizedDimensions(specIn(name))
     /\ isFreeOfInertParameters(specIn(name))
     /\ toVariantName(specIn(name)) = name
  THEN [ok |-> TRUE, spec |-> specIn(name)]
  ELSE [ok |-> FALSE, reason |-> "malformed_variant"]

\* Any run of digits is read by value: leading zeros are accepted.
parseVersionSegment(segment) ==
  IF Len(segment) = 3 /\ segment[1] = "v"
  THEN <<segment[2].value, segment[3].value>>
  ELSE <<>>

parseCanonicalKey(key) ==
  LET no(reason) == [ok |-> FALSE, reason |-> reason]
      version == parseVersionSegment(key[3])
      variant == parseVariantName(key[4])
  IN  CASE Len(key) # 4 -> no("malformed_path")
        [] Len(key) = 4 /\ (key[1] # DERIVED_PREFIX \/ key[2] = "") -> no("malformed_path")
        [] OTHER -> CASE version = <<>> -> no("malformed_version")
                      [] version # <<>> /\ ~variant.ok -> no("malformed_variant")
                      [] OTHER -> [ok |-> TRUE, assetId |-> key[2], assetVersion |-> version[1],
                                   encoderEpoch |-> version[2], spec |-> variant.spec]
=============================================================================
