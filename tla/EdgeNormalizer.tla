--------------------------- MODULE EdgeNormalizer ---------------------------
(***************************************************************************)
(* The CloudFront function that rewrites a viewer's request to the path    *)
(* that is both cache key and object key.  Its tables are generated from   *)
(* the core package, so they are the core's own; its algorithms are        *)
(* written a second time, and are translated here a second time.           *)
(***************************************************************************)
EXTENDS Integers, Sequences, FiniteSets, Fields

Core == INSTANCE TransformGrammar

\* Tables generate.mjs derives by asking the core rather than by copying it
FIT_ALIASES == [f \in {g \in Core!FIT_MODES : Core!normalizeFit(g) # g} |-> Core!normalizeFit(f)]
PADDING_FITS == {f \in Core!CANONICAL_FIT_MODES : Core!fitUsesBackground(f)}
CROPPING_FITS == {f \in Core!CANONICAL_FIT_MODES : Core!fitCrops(f)}

has(list, value) == value \in list

---------------------------------------------------------------------------
\* Quantizers

snapUp(width) ==
  IF \E r \in Core!LADDER : r >= width
  THEN CHOOSE r \in Core!LADDER : r >= width /\ \A s \in Core!LADDER : s >= width => r <= s
  ELSE Core!MAX_LADDER_WIDTH

\* Math.max(x, 1)
atLeastOne(x) == IF x[1] < x[2] THEN <<1, 1>> ELSE x

snapWidth(requested, dpr) ==
  LET wanted == atLeastOne(requested)
      effective == Core!Ceiling(wanted[1] * dpr[1], wanted[2] * dpr[2])
  IN  snapUp(IF effective > Core!MAX_LADDER_WIDTH THEN Core!MAX_LADDER_WIDTH ELSE effective)

\* The last of the closest levels
nearestLast(levels, requested) ==
  LET delta(l) == Core!Distance(requested[1], l * requested[2])
  IN  CHOOSE l \in levels : \A k \in levels : delta(l) < delta(k) \/ (delta(l) = delta(k) /\ l >= k)

\* The first of the closest levels
nearest(levels, requested) ==
  LET delta(l) == Core!Distance(requested[1], l * requested[2])
  IN  CHOOSE l \in levels : \A k \in levels : delta(l) < delta(k) \/ (delta(l) = delta(k) /\ l <= k)

clampRatio(r) ==
  CASE r[1] * 20 < r[2] -> <<1, 20>>
    [] r[1] > 20 * r[2] -> <<20, 1>>
    [] OTHER -> r

quantizeRatio(ratio) ==
  LET r == clampRatio(ratio)
      delta(c) == Core!Distance(r[1] * c[2], c[1] * r[2])       \* over r[2] * c[1]
      near(c) == delta(c) * 100 <= 3 * r[2] * c[1]
  IN  IF \E c \in Core!RATIOS : near(c)
      THEN CHOOSE c \in Core!RATIOS :
             near(c) /\ \A d \in Core!RATIOS : delta(c) * d[1] <= delta(d) * c[1]
      ELSE <<Core!Round(r[1] * 100, r[2]), 100>>

quantizeQuality(requested) ==
  nearest(Core!QUALITY_LEVELS,
          CASE requested[1] < 50 * requested[2] -> <<50, 1>>
            [] requested[1] > 95 * requested[2] -> <<95, 1>>
            [] OTHER -> requested)

normalizeBackground(digits) ==
  LET byte(i) == IF Len(digits) <= 4 THEN digits[i] * 17 ELSE digits[2 * i - 1] * 16 + digits[2 * i]
      level(i) == Core!Round(byte(i), 17) * 17
  IN  CASE Len(digits) \in {3, 6} -> [i \in 1..3 |-> level(i)]
        [] Len(digits) \in {4, 8} -> [i \in 1..4 |-> level(i)]
        [] OTHER -> <<>>

resolveAutoFormat(accept) ==
  IF has(accept, "avif") THEN "avif" ELSE IF has(accept, "webp") THEN "webp" ELSE "jpeg"

---------------------------------------------------------------------------
\* Request parsing

reject(code, parameter) == [status |-> 400, code |-> code, parameter |-> parameter]

raw(query, key, default) == IF key \in DOMAIN query THEN query[key] ELSE default

\* The checks in the order they are made; the first that fails answers.
checks(query) ==
  LET number(p) == <<raw(query, p, <<0, 1>>) # <<>>, "invalid_number", p>>
      enum(p, known, first) == <<has(known, Core!lower(raw(query, p, first))), "invalid_enum", p>>
      rect == "crop" \in DOMAIN query /\ query.crop = "10,20"
  IN  << number("w"), number("h"), number("q"), number("blur"), number("sharpen"), number("dpr"),
         enum("fit", Core!FIT_MODES, "cover"), enum("format", Core!REQUESTED_FORMATS, "auto"),
         IF rect THEN <<FALSE, "unsupported_crop", "crop">>
                 ELSE enum("crop", Core!CROP_GRAVITIES, "center") >>

buildVariantName(spec) ==
  LET part(field, kind) == IF field \in DOMAIN spec THEN << <<kind, spec[field]>> >> ELSE <<>>
      full == IF DOMAIN spec \cap {"width", "height"} = {} THEN << <<"full">> >> ELSE <<>>
  IN  [tokens |-> part("width", "w") \o part("height", "h") \o full \o part("fit", "fit")
                    \o part("quality", "q") \o part("gravity", "g") \o part("background", "bg")
                    \o part("blur", "bl") \o part("sharpen", "sh"),
       ext    |-> Core!FORMAT_EXTENSIONS[spec.format]]

normalizeAccepted(query, accept) ==
  LET given(p) == p \in DOMAIN query
      dprRaw == raw(query, "dpr", <<1, 1>>)
      dpr == CASE dprRaw[1] < dprRaw[2] -> <<1, 1>>
               [] dprRaw[1] > 3 * dprRaw[2] -> <<3, 1>>
               [] OTHER -> dprRaw
      width == snapWidth(query.w, dpr)
      w == atLeastOne(query.w)
      h == atLeastOne(query.h)
      ratio == quantizeRatio(<<h[1] * w[2], h[2] * w[1]>>)
      boxConstrained == given("w") /\ given("h")
      fitRaw == Core!lower(raw(query, "fit", Core!DEFAULT_FIT))
      fit == IF fitRaw \in DOMAIN FIT_ALIASES THEN FIT_ALIASES[fitRaw] ELSE fitRaw
      gravity == Core!lower(raw(query, "crop", Core!DEFAULT_GRAVITY))
      background == normalizeBackground(raw(query, "background", <<>>))
      format == Core!lower(raw(query, "format", "auto"))
      blur == nearest(Core!BLUR_LEVELS, raw(query, "blur", <<0, 1>>))
      sharpen == nearest(Core!SHARPEN_LEVELS, raw(query, "sharpen", <<0, 1>>))
  IN  buildVariantName(
        [format |-> IF format = "auto" THEN resolveAutoFormat(accept) ELSE format,
         quality |-> IF given("q") THEN quantizeQuality(query.q) ELSE Core!DEFAULT_QUALITY]
        ++ Field("width", given("w"), width)
        ++ Field("height", boxConstrained, Core!Round(width * ratio[1], ratio[2]))
        ++ Field("height", given("h"), snapWidth(query.h, dpr))
        ++ Field("fit", boxConstrained, fit)
        ++ Field("gravity", boxConstrained /\ has(CROPPING_FITS, fit) /\ gravity # Core!DEFAULT_GRAVITY, gravity)
        ++ Field("background", boxConstrained /\ has(PADDING_FITS, fit) /\ background # <<>>, background)
        ++ Field("blur", blur > 0, blur)
        ++ Field("sharpen", sharpen > 0, sharpen))

\* [variant |-> v] or [error |-> a 400]
normalize(query, accept) ==
  LET failed == {i \in DOMAIN checks(query) : ~checks(query)[i][1]}
      first == checks(query)[Core!Least(failed)]
  IN  IF failed = {} THEN [variant |-> normalizeAccepted(query, accept)]
      ELSE [error |-> reject(first[2], first[3])]

---------------------------------------------------------------------------
\* The handler.  A uri is the sequence of its segments after the leading slash.

isAssetId(segment) == segment \notin {"..", ""}
isVersionSegment(segment) == Len(segment) = 3 /\ segment[1] = "v"

\* The result forwards a path or answers a 400.
handler(uri, query, accept) ==
  LET forward(path) == [status |-> 0, path |-> path]
      result == normalize(query, accept)
  IN  CASE has(Core!STORAGE_PREFIXES, uri[1]) -> reject("unsupported_path", "path")
        [] ~has(Core!STORAGE_PREFIXES, uri[1])
             /\ (Len(uri) \notin {3, 4} \/ ~has(Core!VIEWER_PATH_PREFIXES, uri[1])) -> forward(uri)
        [] OTHER ->
             CASE ~isAssetId(uri[2]) -> reject("invalid_asset_id", "path")
               [] isAssetId(uri[2]) /\ ~isVersionSegment(uri[3]) -> reject("invalid_version", "path")
               [] OTHER -> IF "error" \in DOMAIN result THEN result.error
                           ELSE forward(<<Core!DERIVED_PREFIX, uri[2], uri[3], result.variant>>)
=============================================================================
