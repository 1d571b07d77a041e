----------------------------- MODULE ClientUrls -----------------------------
(***************************************************************************)
(* How delivery URLs come to be: the client library's url, srcset and      *)
(* next/image loader, and the delivery service of the API.  A URL is its   *)
(* segments with its raw query, in the representation of TransformGrammar. *)
(* Options are a function of those the caller gives.                       *)
(***************************************************************************)
EXTENDS TransformGrammar

\* The client's configuration; resolveConfig refuses a negative epoch.
resolveConfig(encoderEpoch, defaultQuality) ==
  [encoderEpoch |-> encoderEpoch, defaultQuality |-> defaultQuality]

\* An absent slug is "".
baseUrl(config, asset) ==
  <<"i", asset.id, toVersionSegment(asset.version, config.encoderEpoch)>>
    \o (IF asset.slug = "" THEN <<>> ELSE <<asset.slug>>)

\* Inert values and the default quality leave no parameter.
withTransform(options, defaultQuality) ==
  LET given(o) == o \in DOMAIN options
      copied(o, p, wanted) == Field(p, given(o) /\ wanted, options[o])
      number(o, p, wanted) == Field(p, given(o) /\ wanted, Num(options[o]))
  IN  number("width", "w", TRUE) ++ number("height", "h", TRUE)
      ++ copied("dpr", "dpr", given("dpr") /\ options.dpr # Num(1))
      ++ number("quality", "q", given("quality") /\ options.quality # defaultQuality)
      ++ copied("fit", "fit", TRUE)
      ++ copied("format", "format", given("format") /\ options.format # "auto")
      ++ copied("crop", "crop", TRUE) ++ copied("background", "background", TRUE)
      ++ number("blur", "blur", given("blur") /\ options.blur > 0)
      ++ number("sharpen", "sharpen", given("sharpen") /\ options.sharpen > 0)

buildUrl(config, asset, options) ==
  [uri |-> baseUrl(config, asset), query |-> withTransform(options, config.defaultQuality)]

---------------------------------------------------------------------------
\* srcset.  An absent source width is 0; sizes is "responsive" (or absent) or "fixed".

isResponsive(sizes) == sizes = "responsive"

\* A source below every rung would be offered at its own width.
capToOwnWidth(candidates, sourceWidth) ==
  LET fitting == {w \in candidates : w <= sourceWidth}
  IN  CASE sourceWidth = 0 -> candidates
        [] OTHER -> IF fitting = {} THEN {sourceWidth} ELSE fitting

\* The rungs that fit the source, or the smallest rung when none does
cap(candidates, sourceWidth) ==
  LET fitting == {w \in candidates : w <= sourceWidth}
  IN  CASE sourceWidth = 0 -> candidates
        [] OTHER -> IF fitting = {} THEN {MIN_LADDER_WIDTH} ELSE fitting

\* widths is the caller's own candidate set, or {} for none.
candidateWidths(sourceWidth, sizes, targetWidth, widths) ==
  CASE widths # {} -> cap(widths, sourceWidth)
    [] widths = {} /\ isResponsive(sizes) -> cap(DEVICE_WIDTHS, sourceWidth)
    [] OTHER -> cap({snapUp(targetWidth), snapUp(2 * targetWidth)}, sourceWidth)

defaultWidth(sourceWidth, preferred) ==
  LET fitting == {w \in LADDER : w <= sourceWidth}
      capped == {w \in fitting : w <= preferred}
  IN  CASE sourceWidth = 0 -> preferred
        [] sourceWidth # 0 /\ fitting = {} -> MIN_LADDER_WIDTH
        [] OTHER -> IF capped = {} THEN Least(fitting) ELSE Greatest(capped)

\* The options of one candidate: a height given with a width travels with every
\* candidate at the same ratio.
candidateAt(options, width) ==
  LET tall == {"width", "height"} \subseteq DOMAIN options
  IN  Field("height", tall, Round(width * options.height, options.width)) ++ [width |-> width] ++ options

\* The candidates: a URL with the width its descriptor states
buildSrcset(config, asset, options, sourceWidth, sizes, widths) ==
  LET target == IF "width" \in DOMAIN options THEN options.width ELSE defaultWidth(sourceWidth, 1080)
  IN  {[url |-> buildUrl(config, asset, candidateAt(options, width)), descriptor |-> width] :
         width \in candidateWidths(sourceWidth, sizes, target, widths)}

---------------------------------------------------------------------------
\* Rendering an asset

\* What components render from: null (FALSE) while the asset has nothing to deliver
forAsset(config, asset, options, sizes, widths) ==
  LET width == IF "width" \in DOMAIN options THEN options.width ELSE defaultWidth(asset.sourceWidth, 1080)
  IN  IF ~asset.deliverable THEN [rendered |-> FALSE]
      ELSE [rendered |-> TRUE,
            src |-> buildUrl(config, asset, [width |-> width] ++ options),
            srcset |-> buildSrcset(config, asset, options, asset.sourceWidth, sizes, widths)]

\* The image element, and the preload hint for the same image
Image(config, asset, transform, sizes) == forAsset(config, asset, transform, sizes, {})
preloadLinkProps(config, asset, transform, sizes) == forAsset(config, asset, transform, sizes, {})

\* Art direction: a candidate set per breakpoint's crop, and the fallback image.  The
\* component's own sizes reaches the element, not the choice of candidates.
Picture(config, asset, crops, fallback) ==
  [sources |-> {forAsset(config, asset, crop, "responsive", {}) : crop \in crops},
   img     |-> forAsset(config, asset, fallback, "responsive", {})]

\* The loader appends the width and quality next/image asked for.
nextImageSizes == DEVICE_WIDTHS \cup ICON_WIDTHS
createNextLoader(config, src, width, quality) ==
  [uri |-> src, query |-> withTransform([width |-> width, quality |-> quality], config.defaultQuality)]

---------------------------------------------------------------------------
\* The API's own URLs

serviceSrcset(encoderEpoch, asset) ==
  LET fitting == {w \in LADDER : asset.sourceWidth = 0 \/ w <= asset.sourceWidth}
      widths == IF fitting = {} THEN {asset.sourceWidth} ELSE fitting
  IN  {[url |-> [uri |-> <<"i", asset.id, toVersionSegment(asset.version, encoderEpoch)>>,
                 query |-> [w |-> Num(width)]],
        descriptor |-> width] : width \in widths}

serviceDefaultWidth(sourceWidth) ==
  LET fitting == {w \in LADDER : w <= sourceWidth}
  IN  IF fitting = {} THEN sourceWidth ELSE Greatest(fitting)

urlsFor(encoderEpoch, asset) ==
  LET base == <<"i", asset.id, toVersionSegment(asset.version, encoderEpoch)>>
  IN  [src |-> [uri |-> base,
                query |-> IF asset.sourceWidth = 0 THEN <<>>
                          ELSE [w |-> Num(serviceDefaultWidth(asset.sourceWidth))]],
       srcset |-> serviceSrcset(encoderEpoch, asset)]

\* Signed delivery swaps the first segment; the query is covered by the signature.
privateBaseUrl(encoderEpoch, asset) ==
  <<"p", asset.id, toVersionSegment(asset.version, encoderEpoch)>>
=============================================================================
