------------------------- MODULE ConformanceVectors -------------------------
(***************************************************************************)
(* The hand-written oracle of packages/core: requests with the variant     *)
(* name they must get.  The expectations are transcribed, never computed   *)
(* from the grammar.                                                       *)
(***************************************************************************)
EXTENDS TransformGrammar, TLC

ACCEPT_AVIF == {"avif", "webp"}
ACCEPT_WEBP == {"webp"}
ACCEPT_LEGACY == {}

\* A vector and the two shapes of its expectation
V(params, accept, expected) == [params |-> params, accept |-> accept, expected |-> expected]
Name(tokens, ext) == [tokens |-> tokens, ext |-> ext]
Error(code) == [tokens |-> <<>>, ext |-> code]

W(n) == [w |-> Num(n)]
BoxQuery(w, h) == [w |-> Num(w), h |-> Num(h)]
AvifWidth(w) == Name(<< <<"w", w>>, <<"q", 75>> >>, "avif")
Boxed(h, fit, extras) == Name(<< <<"w", 640>>, <<"h", h>>, <<"fit", fit>>, <<"q", 75>> >> \o extras, "avif")

WIDTH_BOUNDARIES ==
  << 16, 32, 48, 64, 96, 128, 192, 256, 320, 480, 640, 750, 828, 960, 1080, 1200, 1440, 1920, 2560, 3840 >>

\* Each rung lands on itself, one past it on the next, one past the last on the last.
widthVectors ==
  {V(W(WIDTH_BOUNDARIES[i]), ACCEPT_AVIF, AvifWidth(WIDTH_BOUNDARIES[i])) : i \in 1..20}
  \cup {V(W(WIDTH_BOUNDARIES[i] + 1), ACCEPT_AVIF, AvifWidth(WIDTH_BOUNDARIES[i + 1])) : i \in 1..19}
  \cup {V(W(n), ACCEPT_AVIF, AvifWidth(IF n = 1 THEN 16 ELSE 3840)) : n \in {1, 3841, 99999}}

workedExamples ==
  {V(W(e[1]), ACCEPT_AVIF, AvifWidth(e[2])) : e \in {<<602, 640>>, <<980, 1080>>, <<641, 750>>, <<40, 48>>}}
  \cup {V(W(400) @@ [dpr |-> Num(2)], ACCEPT_AVIF, AvifWidth(828))}

dprVectors ==
  {V(W(e[1]) @@ [dpr |-> e[2]], ACCEPT_AVIF, AvifWidth(e[3])) :
     e \in {<<828, Num(1), 828>>, <<414, Num(2), 828>>, <<276, Num(3), 828>>, <<213, Num(3), 640>>,
            <<214, Num(3), 750>>, <<320, Num(2), 640>>, <<100, Num(9), 320>>, <<100, <<1, 10>>, 128>>}}

qualityVectors ==
  {V(W(640) @@ [q |-> Num(e[1])], ACCEPT_AVIF, Name(<< <<"w", 640>>, <<"q", e[2]>> >>, "avif")) :
     e \in {<<50, 50>>, <<57, 50>>, <<58, 65>>, <<65, 65>>, <<70, 65>>, <<71, 75>>, <<75, 75>>,
            <<82, 85>>, <<85, 85>>, <<95, 95>>, <<250, 95>>, <<0, 50>>}}

formatVectors ==
  {V(W(640) @@ e[1], e[2], Name(<< <<"w", 640>>, <<"q", 75>> >>, e[3])) :
     e \in {<< <<>>, ACCEPT_AVIF, "avif">>, << <<>>, ACCEPT_WEBP, "webp">>, << <<>>, ACCEPT_LEGACY, "jpg">>,
            << <<>>, {"avif"}, "avif">>}}
  \cup
  {V(W(640) @@ [format |-> e[1]], e[2], Name(<< <<"w", 640>>, <<"q", 75>> >>, e[3])) :
     e \in {<<"auto", ACCEPT_AVIF, "avif">>, <<"jpeg", ACCEPT_AVIF, "jpg">>, <<"webp", ACCEPT_AVIF, "webp">>,
            <<"png", ACCEPT_AVIF, "png">>, <<"avif", ACCEPT_LEGACY, "avif">>}}

ratioVectors ==
  {V(BoxQuery(e[1], e[2]), ACCEPT_AVIF, Boxed(e[3], "cover", <<>>)) :
     e \in {<<640, 360, 360>>, <<640, 362, 360>>, <<640, 355, 360>>, <<640, 640, 640>>, <<640, 480, 480>>,
            <<640, 427, 427>>, <<640, 853, 853>>, <<640, 1138, 1138>>, <<602, 339, 360>>}}
  \cup
  {V([h |-> Num(e[1])], ACCEPT_AVIF, Name(<< <<"h", e[2]>>, <<"q", 75>> >>, "avif")) :
     e \in {<<480, 480>>, <<481, 640>>}}

elisionVectors ==
  {V(W(640) @@ [fit |-> f], ACCEPT_AVIF, AvifWidth(640)) : f \in {"cover", "contain", "inside"}}
  \cup {V(W(640) @@ p, ACCEPT_AVIF, AvifWidth(640)) :
          p \in {[blur |-> Num(0)], [sharpen |-> Num(0)], [dpr |-> Num(1)],
                 [utm_source |-> Num(1)], [q |-> Num(75)]}}
  \cup {V(BoxQuery(640, 640) @@ [fit |-> "cover", background |-> <<15, 15, 0, 0, 0, 0>>], ACCEPT_AVIF,
          Boxed(640, "cover", <<>>)),
        V(BoxQuery(640, 640) @@ [fit |-> "cover", crop |-> "center"], ACCEPT_AVIF, Boxed(640, "cover", <<>>)),
        V(BoxQuery(640, 640) @@ [fit |-> "contain", crop |-> "attention"], ACCEPT_AVIF,
          Boxed(640, "contain", <<>>)),
        V(BoxQuery(640, 360) @@ [fit |-> "COVER"], ACCEPT_AVIF, Boxed(360, "cover", <<>>)),
        V([W |-> Num(640)], ACCEPT_AVIF, Name(<< <<"full">>, <<"q", 75>> >>, "avif")),
        V(<<>>, ACCEPT_AVIF, Name(<< <<"full">>, <<"q", 75>> >>, "avif")),
        V([q |-> Num(85)], ACCEPT_AVIF, Name(<< <<"full">>, <<"q", 85>> >>, "avif"))}

fitVectors ==
  {V(BoxQuery(640, 360) @@ [fit |-> e[1]], ACCEPT_AVIF, Boxed(360, e[2], <<>>)) :
     e \in {<<"cover", "cover">>, <<"contain", "contain">>, <<"inside", "inside">>, <<"outside", "outside">>,
            <<"fill", "fill">>, <<"pad", "contain">>, <<"PAD", "contain">>, <<"Contain", "contain">>}}

gravityElisionVectors ==
  {V(BoxQuery(640, 360) @@ [fit |-> e[1], crop |-> e[2]], ACCEPT_AVIF, Boxed(360, e[1], e[3])) :
     e \in {<<"outside", "attention", <<>> >>, <<"outside", "top", <<>> >>, <<"inside", "entropy", <<>> >>,
            <<"fill", "left", <<>> >>, <<"cover", "top", << <<"g", "top">> >> >>,
            <<"cover", "attention", << <<"g", "attention">> >> >>, <<"cover", "center", <<>> >>}}

zeroDimensionVectors ==
  {V(W(0), ACCEPT_AVIF, AvifWidth(16)),
   V([h |-> Num(0)], ACCEPT_AVIF, Name(<< <<"h", 16>>, <<"q", 75>> >>, "avif")),
   V(BoxQuery(0, 0), ACCEPT_AVIF,
     Name(<< <<"w", 16>>, <<"h", 16>>, <<"fit", "cover">>, <<"q", 75>> >>, "avif")),
   V(BoxQuery(0, 360), ACCEPT_AVIF,
     Name(<< <<"w", 16>>, <<"h", 320>>, <<"fit", "cover">>, <<"q", 75>> >>, "avif")),
   V(BoxQuery(640, 0), ACCEPT_AVIF, Boxed(32, "cover", <<>>))}

errorVectors ==
  {V(W(640) @@ p, ACCEPT_LEGACY, Error("invalid_enum")) : p \in {[fit |-> "squish"], [format |-> "bmp"]}}
  \cup {V(BoxQuery(640, 360) @@ [crop |-> c], ACCEPT_LEGACY, Error("invalid_enum")) : c \in {"nowhere", "focal"}}
  \cup {V(W(640) @@ [crop |-> "10,20"], ACCEPT_LEGACY, Error("unsupported_crop"))}
  \cup {V([w |-> Unparseable], ACCEPT_LEGACY, Error("invalid_number")),
        V([h |-> Unparseable], ACCEPT_LEGACY, Error("invalid_number"))}
  \cup {V(W(640) @@ p, ACCEPT_LEGACY, Error("invalid_number")) :
          p \in {[q |-> Unparseable], [dpr |-> Unparseable], [blur |-> Unparseable]}}

effectVectors ==
  {V(W(640) @@ e[1], ACCEPT_AVIF, Name(<< <<"w", 640>>, <<"q", 75>> >> \o e[2], "avif")) :
     e \in {<<[blur |-> Num(5)], << <<"bl", 5>> >> >>, <<[blur |-> Num(4)], << <<"bl", 5>> >> >>,
            <<[sharpen |-> Num(1)], << <<"sh", 1>> >> >>,
            <<[blur |-> Num(10), sharpen |-> Num(2)], << <<"bl", 10>>, <<"sh", 2>> >> >>}}
  \cup
  {V(BoxQuery(640, 360) @@ [fit |-> "pad", background |-> e[1]], ACCEPT_AVIF,
     Boxed(360, "contain", << <<"bg", e[2]>> >>)) :
     e \in {<< <<15, 15, 0, 0, 0, 0>>, <<255, 0, 0>> >>, << <<15, 10, 0>>, <<255, 170, 0>> >>,
            << <<15, 15, 0, 0, 0, 1>>, <<255, 0, 0>> >>, << <<8, 0, 8, 0, 8, 0>>, <<136, 136, 136>> >>,
            << <<7, 15, 7, 15, 7, 15>>, <<119, 119, 119>> >>,
            << <<1, 2, 3, 4, 5, 6, 7, 8>>, <<17, 51, 85, 119>> >>}}

formatMatrixVectors ==
  {V(W(WIDTH_BOUNDARIES[i]) @@ [format |-> e[1]], ACCEPT_AVIF,
     Name(<< <<"w", WIDTH_BOUNDARIES[i]>>, <<"q", 75>> >>, e[2])) :
     i \in 1..20, e \in {<<"avif", "avif">>, <<"webp", "webp">>, <<"jpeg", "jpg">>, <<"png", "png">>}}

CONFORMANCE_VECTORS ==
  widthVectors \cup formatMatrixVectors \cup workedExamples \cup dprVectors \cup qualityVectors
    \cup formatVectors \cup ratioVectors \cup elisionVectors \cup fitVectors \cup gravityElisionVectors
    \cup zeroDimensionVectors \cup errorVectors \cup effectVectors

\* Requests that must share one key
EQUIVALENCE_GROUPS ==
  LET box(p) == BoxQuery(640, 360) @@ p
      padOn(hex) == box([fit |-> "pad", background |-> hex])
  IN  { {W(481), W(500), W(602), W(639), W(640)},
        {W(640), W(320) @@ [dpr |-> Num(2)], W(213) @@ [dpr |-> Num(3)]},
        {[h |-> Num(480)], [h |-> Num(480), fit |-> "cover"],
         [h |-> Num(480), fit |-> "pad", background |-> <<15, 15, 0, 0, 0, 0>>]},
        {W(640), W(640) @@ [fit |-> "cover"], W(640) @@ [fit |-> "inside"], W(640) @@ [fit |-> "fill"]},
        {W(640) @@ [q |-> Num(n)] : n \in {71, 75, 78}},
        {BoxQuery(640, h) : h \in {356, 360, 362}},
        {padOn(<<15, 15, 10, 10, 0, 0>>), padOn(<<15, 10, 0>>)},
        {W(640) @@ [blur |-> Num(n)] : n \in {4, 5, 6}},
        {box([fit |-> f]) : f \in {"pad", "contain", "PAD"}} \cup {box([fit |-> "pad", crop |-> "attention"])},
        {box([fit |-> "outside"])} \cup {box([fit |-> "outside", crop |-> c]) : c \in {"top", "attention", "center"}} }

---------------------------------------------------------------------------
\* Paths: a viewer's uri with the path it is rewritten to, or the code it is refused with

PathVersion == <<"v", Numeral(3), Numeral(1)>>
P(uri, params, accept, expected) == [uri |-> uri, params |-> params, accept |-> accept, expected |-> expected]

PATH_VECTORS ==
  LET w640 == W(640) @@ [format |-> "avif"]
      rewritten == <<"derived", "asset", PathVersion, AvifWidth(640)>>
      refused(code) == <<"ERROR", code>>
  IN  { P(<<"i", "asset", PathVersion, "slug">>, w640, {}, rewritten),
        P(<<"i", "asset", PathVersion>>, w640, {}, rewritten),
        P(<<"p", "asset", PathVersion, "slug">>, w640, {}, rewritten),
        P(<<"derived", "asset", PathVersion, Name(<< <<"w", 641>>, <<"q", 75>> >>, "avif")>>, <<>>, {},
          refused("unsupported_path")),
        P(<<"original", "asset", <<"1">>, "source">>, <<>>, {}, refused("unsupported_path")),
        P(<<"master", "asset", <<"1">>, "master">>, <<>>, {}, refused("unsupported_path")),
        P(<<"staging", "upload">>, <<>>, {}, refused("unsupported_path")),
        P(<<"i", "..", PathVersion, "slug">>, W(640), {}, refused("invalid_asset_id")),
        P(<<"i", "asset", <<"3-1">>, "slug">>, W(640), {}, refused("invalid_version")),
        P(<<"i", "asset", <<"vx">>, "slug">>, W(640), {}, refused("invalid_version")),
        P(<<"healthz">>, <<>>, {}, <<"healthz">>),
        P(<<"i", "asset">>, W(640), {}, <<"i", "asset">>) }
=============================================================================
