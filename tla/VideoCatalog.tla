---------------------------- MODULE VideoCatalog ----------------------------
(***************************************************************************)
(* The catalogue of Leonardo's video models and what becomes of a video    *)
(* request before an account is looked for (internal/service/              *)
(* video_models.go, the head of GenerateVideo in video.go).                *)
(*                                                                         *)
(* Names are in lower case, as the code compares them.  A resolution is    *)
(* its number of lines, AutoMode one that Leonardo chooses.  A size is     *)
(* the resolution and the aspect ratio it was looked up for: the pixels    *)
(* are left out, and so are the flags that only shape Leonardo's request.  *)
(***************************************************************************)
EXTENDS Integers, FiniteSetsExt, SequencesExt

AutoMode == 0

(* The aspect ratios that each table of sizes has at each resolution.      *)
Three == {"16:9", "1:1", "9:16"}
Two   == {"16:9", "9:16"}
Five  == Three \cup {"4:3", "3:4"}
Sizes(modes, aspects) == [m \in modes |-> aspects]

Dims720       == Sizes({720}, Three)
Dims7201080   == Sizes({720, 1080}, Three)
Dims7201080Five == Sizes({720, 1080}, Five)
Seedance2Dims == [m \in {480, 720, 1080} |->
                    Five \cup {"21:9"} \cup (IF m = 720 THEN {} ELSE {"9:21"})]
Seedance1Dims == Sizes({480, 720, 1080}, Five \cup {"21:9"})
MotionDims    == Sizes({480, 720}, Five)
Hailuo03Dims  == [m \in {AutoMode, 1440} |-> IF m = AutoMode THEN {"16:9"} ELSE Five \cup {"21:9"}]
Veo4kDims     == Sizes({720, 1080, 2160}, Two)
LtxLandscapeDims == Sizes({1080, 1440, 2160}, {"16:9"})
Ltx23Dims     == Sizes({1080, 1440, 2160}, Two)
GrokDims      == [m \in {AutoMode, 400, 720, 960} |->
                    CASE m = AutoMode -> {"16:9"} [] m = 400 -> Two
                      [] m = 720 -> Three     [] m = 960 -> {"1:1"}]
Hailuo23Dims  == Sizes({768, 1080}, Two)
OnlyMode(dims, mode) == [m \in {mode} |-> dims[m]]

(* A row: what clients call the model, the modes it offers and its default *)
(* one, its sizes, its durations and its default one, whether it makes     *)
(* sound and whether it starts from an image.                              *)
Row(slug, name, modes, mode, dims, durations, duration, audio, image) ==
  [slug |-> slug, name |-> name, value |-> slug, aliases |-> {}, hidden |-> FALSE,
   modes |-> modes, mode |-> mode, dims |-> dims,
   durations |-> durations, duration |-> duration, audio |-> audio, image |-> image]
Valued(v, row)      == [row EXCEPT !.value = v]
Aliased(names, row) == [row EXCEPT !.aliases = names]

VideoModels == <<
  Row("seedance-2.0", "seedance 2.0", {480, 720, 1080}, 720, Seedance2Dims, 4..15, 8, "optional", "may"),
  Row("seedance-2.0-fast", "seedance 2.0 fast", {480, 720}, 720, Seedance2Dims, 4..15, 8, "optional", "may"),
  Row("seedance-2.0-mini", "seedance 2.0 mini", {720}, 720, Dims720, 4..15, 8, "optional", "may"),
  Aliased({"video-2.0-480p"},
    Row("seedance-2.0-480p", "seedance 2.0 480p", {480}, 480, OnlyMode(Seedance2Dims, 480), 4..15, 8, "optional", "may")),
  Aliased({"video-2.0-fast-480p"},
    Row("seedance-2.0-fast-480p", "seedance 2.0 fast 480p", {480}, 480, OnlyMode(Seedance2Dims, 480), 4..15, 8, "optional", "may")),
  Aliased({"video-2.0-mini-480p"},
    Row("seedance-2.0-mini-480p", "seedance 2.0 mini 480p", {480}, 480, OnlyMode(Seedance2Dims, 480), 4..15, 8, "optional", "may")),
  Row("seedance-1.0-pro", "seedance 1.0 pro", {480, 720, 1080}, 720, Seedance1Dims, {4, 6, 8, 10}, 8, "none", "may"),
  Row("seedance-1.0-pro-fast", "seedance 1.0 pro fast", {480, 720, 1080}, 720, Seedance1Dims, {4, 6, 8, 10}, 8, "none", "may"),
  [Aliased({"minimaxh3", "minimax-h3", "minimax-hailuo-03", "hailuo-h3"},
    Row("hailuo-03", "minimax hailuo 03", {AutoMode, 1440}, 1440, Hailuo03Dims, 5..15, 5, "required", "may"))
    EXCEPT !.hidden = TRUE],
  Aliased({"hailuo-2_3"}, Valued("hailuo-2_3",
    Row("hailuo-2.3", "minimax hailuo 2.3", {768, 1080}, 768, Hailuo23Dims, {6, 10}, 6, "none", "may"))),
  Aliased({"hailuo-2_3-fast"}, Valued("hailuo-2_3-fast",
    Row("hailuo-2.3-fast", "minimax hailuo 2.3 fast", {768, 1080}, 768, Hailuo23Dims, {6, 10}, 6, "none", "may"))),
  Row("kling-3.0", "kling 3.0", {720, 1080}, 1080, Dims7201080, 3..15, 5, "optional", "may"),
  Row("kling-3.0-turbo", "kling 3.0 turbo", {720, 1080}, 1080, Dims7201080, 3..15, 5, "optional", "may"),
  Row("kling-video-o-3", "kling o3", {720, 1080}, 1080, Dims7201080, 3..15, 5, "optional", "may"),
  Row("kling-video-o-1", "kling o1", {1080}, 1080, Sizes({1080}, Three), {5, 10}, 5, "none", "may"),
  Row("kling-2.6", "kling 2.6", {1080}, 1080, OnlyMode(Dims7201080, 1080), {5, 10}, 5, "none", "may"),
  Row("kling-2.5-turbo-standard", "kling 2.5 turbo standard", {720}, 720, Dims720, {5, 10}, 5, "none", "must"),
  Valued("kling2_5",
    Row("kling-2.5-turbo", "kling 2.5 turbo", {1080}, 1080, OnlyMode(Dims7201080, 1080), {5, 10}, 5, "none", "may")),
  Valued("kling2_1",
    Row("kling-2.1-pro", "kling 2.1 pro", {1080}, 1080, Sizes({1080}, Two), {5, 10}, 5, "none", "must")),
  Row("veo-3.1-generate-001", "veo 3.1", {720, 1080, 2160}, 1080, Veo4kDims, {4, 6, 8}, 8, "optional", "may"),
  Row("veo-3.1-fast-generate-001", "veo 3.1 fast", {720, 1080, 2160}, 1080, Veo4kDims, {4, 6, 8}, 8, "optional", "may"),
  Row("veo-3.1-lite", "veo 3.1 lite", {720, 1080}, 1080, Sizes({720, 1080}, Two), {4, 6, 8}, 8, "optional", "may"),
  Valued("ltxv-2.0-pro",
    Row("ltx-2-pro", "ltx 2 pro", {1080, 1440, 2160}, 1080, LtxLandscapeDims, {6, 8}, 8, "optional", "may")),
  Valued("ltxv-2.0-fast",
    Row("ltx-2-fast", "ltx 2 fast", {1080, 1440, 2160}, 1080, LtxLandscapeDims, {6, 8}, 8, "optional", "may")),
  Valued("ltxv-2.3-pro",
    Row("ltx-2.3-pro", "ltx 2.3 pro", {1080, 1440, 2160}, 1080, Ltx23Dims, {6, 8, 10}, 8, "optional", "may")),
  Valued("ltxv-2.3-fast",
    Row("ltx-2.3-fast", "ltx 2.3 fast", {1080, 1440, 2160}, 1080, Ltx23Dims, {2 * n : n \in 3..10}, 8, "optional", "may")),
  Row("wan-2.7", "wan 2.7", {720, 1080}, 1080, Dims7201080, 2..10, 5, "none", "may"),
  Row("wan-2.6", "wan 2.6", {720, 1080}, 1080, Dims7201080Five, {5, 10, 15}, 5, "none", "may"),
  Row("grok-imagine-1.5", "grok imagine 1.5", {AutoMode, 400, 720, 960}, 720, GrokDims, 3..15, 6, "optional", "must"),
  Row("gemini-omni-flash", "gemini omni flash", {720}, 720, Sizes({720}, Two), 3..10, 5, "none", "no"),
  Row("happy-horse-1.1", "happy horse 1.1", {720, 1080}, 1080, Dims7201080Five, 3..15, 5, "optional", "may"),
  Row("motion_2.0", "motion 2.0", {480, 720}, 480, MotionDims, {5}, 5, "none", "may"),
  Row("motion_2.0-fast", "motion 2.0 fast", {480, 720}, 480, MotionDims, {5}, 5, "none", "may")
>>

DefaultAspect == "16:9"
-----------------------------------------------------------------------------
(* LookupVideoModel: the first callable model that goes by the name.       *)
Unknown == "unknown"
GoesBy(m, q) == q \in {m.slug, m.value, m.name} \cup m.aliases

(* Mutant: only the value that Leonardo knows the model by is compared.    *)
LookupVideoModel_ValueOnly(q) ==
  LET i == SelectInSeq(VideoModels, LAMBDA m : ~m.hidden /\ q \in {m.value, m.name}) IN
  IF i = 0 THEN Unknown ELSE VideoModels[i].slug

LookupVideoModel(q) ==
  LET i == SelectInSeq(VideoModels, LAMBDA m : ~m.hidden /\ GoesBy(m, q)) IN
  IF i = 0 THEN Unknown ELSE VideoModels[i].slug

Model(slug) == VideoModels[SelectInSeq(VideoModels, LAMBDA m : m.slug = slug)]

(* A resolution that the model does not offer is replaced by its default   *)
(* one, and so is none at all.                                             *)
ResolveResolution(m, input) == IF input \in m.modes THEN input ELSE m.mode

(* The size for an aspect ratio, or for the default one, or none.          *)
NoSize == <<0, "none">>
ResolveDimensions(m, mode, aspect) ==
  IF mode = AutoMode THEN NoSize
  ELSE IF aspect \in m.dims[mode] THEN <<mode, aspect>>
  ELSE IF DefaultAspect \in m.dims[mode] THEN <<mode, DefaultAspect>>
  ELSE NoSize

(* The longest duration on offer that is not longer than the request, or   *)
(* the shortest one; the default one if there is no request.               *)
ClampDuration(m, req) ==
  IF req <= 0 THEN m.duration
  ELSE LET fitting == {d \in m.durations : d <= req} IN
       IF fitting = {} THEN Min(m.durations) ELSE Max(fitting)

(* The head of GenerateVideo: what is asked of Leonardo, or a refusal.     *)
Refused == [refused |-> TRUE]
Submission(q, resolution, aspect, seconds, audio, image) ==
  IF LookupVideoModel(q) = Unknown THEN Refused
  ELSE LET m    == Model(LookupVideoModel(q))
           mode == ResolveResolution(m, resolution)
           size == ResolveDimensions(m, mode, aspect)
       IN  IF \/ size = NoSize /\ mode # AutoMode
              \/ m.audio = "none" /\ audio
              \/ m.image = "no" /\ image
              \/ m.image = "must" /\ ~image
           THEN Refused
           ELSE [refused |-> FALSE, value |-> m.value, mode |-> mode, size |-> size,
                 duration |-> ClampDuration(m, seconds),
                 audio |-> audio \/ m.audio = "required"]
=============================================================================
