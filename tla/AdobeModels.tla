---------------------------- MODULE AdobeModels -----------------------------
(***************************************************************************)
(* How a request of the Adobe endpoints becomes one of the sidecar's       *)
(* models (internal/server/adobe_models.go).  Every combination of family, *)
(* duration, resolution and aspect ratio is a model of its own there, a    *)
(* variant; a client may name the variant or its family, whose advertised  *)
(* options are those of all its variants.                                  *)
(*                                                                         *)
(* An id is the sequence of its parts, which dashes separate in the code.  *)
(* Distances, real numbers in the code, are in thousandths, with rounded   *)
(* natural logarithms.                                                     *)
(***************************************************************************)
EXTENDS Integers, FiniteSetsExt, SequencesExt

(* The families, in the order in which an id is compared with them.        *)
Firefly(s) == <<"firefly">> \o s
MatchOrder == <<
  Firefly(<<"nano", "banana", "pro">>), Firefly(<<"sora2", "pro">>),
  Firefly(<<"veo31", "ref">>), Firefly(<<"veo31", "fast">>),
  Firefly(<<"seedance20", "fast">>), Firefly(<<"nano", "banana2">>),
  Firefly(<<"nano", "banana">>), Firefly(<<"gpt", "image">>),
  Firefly(<<"sora2">>), Firefly(<<"gemini", "omni">>), Firefly(<<"veo31">>),
  Firefly(<<"kling", "o3">>), Firefly(<<"kling3">>), Firefly(<<"seedance20">>) >>

CanonicalAdobeModelID(id) ==
  LET i == SelectInSeq(MatchOrder, LAMBDA family : IsPrefix(family, id)) IN
  IF i = 0 THEN id ELSE MatchOrder[i]
-----------------------------------------------------------------------------
(* What the id of a variant says: "firefly-veo31-8s-16x9-1080p".  0, Blank *)
(* and <<>> stand for what it does not say.                                *)
Blank == ""

FirstOf(s, Is(_), default) ==
  LET i == SelectInSeq(s, Is) IN IF i = 0 THEN default ELSE s[i]

SecondsOf == [p \in {"4s", "6s", "8s"} |-> CASE p = "4s" -> 4 [] p = "6s" -> 6 [] p = "8s" -> 8]
RatioOf == [p \in {"16x9", "9x16", "1x1"} |->
              CASE p = "16x9" -> <<16, 9>> [] p = "9x16" -> <<9, 16>> [] p = "1x1" -> <<1, 1>>]
Resolutions == {"480p", "720p", "1080p", "1k", "2k", "4k"}

NotSaid == [duration |-> 0, resolution |-> Blank, aspect |-> <<>>]
AdobeModelMetadata(id) ==
  LET Says(parts) == FirstOf(id, LAMBDA p : p \in parts, Blank) IN
  [duration   |-> IF Says(DOMAIN SecondsOf) = Blank THEN 0 ELSE SecondsOf[Says(DOMAIN SecondsOf)],
   resolution |-> Says(Resolutions),
   aspect     |-> IF Says(DOMAIN RatioOf) = Blank THEN <<>> ELSE RatioOf[Says(DOMAIN RatioOf)]]

(* The sidecar's row for it: what it states goes before what the id says,  *)
(* and that before its default or its first option.                        *)
AdobeModelMetadataFromRow(id, stated, usual) ==
  [k \in DOMAIN NotSaid |->
     CASE stated[k] # NotSaid[k]                                  -> stated[k]
       [] stated[k] = NotSaid[k] /\ AdobeModelMetadata(id)[k] # NotSaid[k]
                                                                  -> AdobeModelMetadata(id)[k]
       [] OTHER                                                   -> usual[k]]

(* A variant: its id, a number in the order of the ids, and its options.   *)
Variant(id, order, stated, usual) ==
  LET row == AdobeModelMetadataFromRow(id, stated, usual) IN
  [id |-> id, order |-> order, family |-> CanonicalAdobeModelID(id),
   media |-> IF {"nano", "gpt"} \cap Range(id) # {} THEN "image" ELSE "video",
   duration |-> row.duration, resolution |-> row.resolution, aspect |-> row.aspect]

(* The logarithms of the numbers that resolutions and ratios are made of.  *)
Ln == [n \in Resolutions |->
         CASE n = "480p" -> 6174 [] n = "720p" -> 6579 [] n = "1080p" -> 6985
           [] n = "1k"   -> 6931 [] n = "2k"   -> 7625 [] n = "4k"    -> 8318]
LnRatio == [r \in {<<1, 1>>, <<4, 3>>, <<3, 4>>, <<16, 9>>, <<9, 16>>, <<21, 9>>} |->
         CASE r = <<1, 1>>  -> 0   [] r = <<4, 3>>  -> 288  [] r = <<3, 4>>  -> -288
           [] r = <<16, 9>> -> 575 [] r = <<9, 16>> -> -575 [] r = <<21, 9>> -> 847]
Distance(a, b) == IF a < b THEN b - a ELSE a - b

(* normalizeAdobeResolution: what clients write, and what it stands for.   *)
NormalizeAdobeResolution(value, media) ==
  CASE value \in {Blank, "auto"}       -> Blank
    [] value = "low"                -> IF media = "image" THEN "1k" ELSE "480p"
    [] value \in {"medium", "hd"}   -> IF media = "image" THEN "2k" ELSE "720p"
    [] value = "standard"           -> IF media = "image" THEN "1k" ELSE "720p"
    [] value = "high"               -> IF media = "image" THEN "4k" ELSE "1080p"
    [] value \in DOMAIN Ln          -> value
    [] value \in {"1", "2", "4"} /\ media = "image" -> value \o "k"
    [] value \in {"480", "720", "1080"}             -> value \o "p"
    [] OTHER                        -> Blank

(* normalizeAdobeAspect: a ratio as it is, pixels in lowest terms.         *)
GCD(a, b) == Max({d \in 1..a : a % d = 0 /\ b % d = 0})
NormalizeAdobeAspect(size) ==
  IF size = <<>> \/ (size[1] <= 100 /\ size[2] <= 100) THEN size
  ELSE LET d == GCD(size[1], size[2]) IN <<size[1] \div d, size[2] \div d>>

(* What a request asks for: the first key that says it, or the usual.  A   *)
(* request has durations, resolutions and ratios under several keys, and   *)
(* the size in pixels.                                                     *)
RequestedAdobeDuration(req, media) ==
  IF media # "video" THEN 0 ELSE FirstOf(req.durations, LAMBDA d : d > 0, 6)

LongSide(size) == Max({size[1], size[2]})
ResolutionOfSize(size, media) ==
  CASE media = "image" /\ size = <<>> -> "1k"
    [] media # "image" /\ size = <<>> -> "720p"
    [] media = "image" /\ size # <<>> ->
         IF LongSide(size) > 3072 THEN "4k" ELSE IF LongSide(size) > 1536 THEN "2k" ELSE "1k"
    [] OTHER -> IF LongSide(size) >= 1000 THEN "1080p" ELSE "720p"
RequestedAdobeResolution(req, media) ==
  FirstOf([i \in DOMAIN req.resolutions |-> NormalizeAdobeResolution(req.resolutions[i], media)],
          LAMBDA r : r # Blank, ResolutionOfSize(req.size, media))

RequestedAdobeAspect(req, media) ==
  FirstOf([i \in DOMAIN req.ratios |-> NormalizeAdobeAspect(req.ratios[i])]
            \o <<NormalizeAdobeAspect(req.size)>>,
          LAMBDA r : r # <<>>, IF media = "image" THEN <<1, 1>> ELSE <<16, 9>>)
-----------------------------------------------------------------------------
(* How far a variant is from the request: a second counts most, and enough *)
(* of them more than too few, then the ratio, then the resolution.         *)
DurationScore(v, duration) ==
  IF duration > 0 /\ v.duration > 0
  THEN 100000 * Distance(v.duration, duration) + (IF v.duration < duration THEN 1000 ELSE 0)
  ELSE 0
ResolutionScore(v, resolution) ==
  IF v.resolution = Blank THEN 5000 ELSE 20 * Distance(Ln[v.resolution], Ln[resolution])
AspectScore(v, aspect) ==
  IF v.aspect = <<>> THEN 0 ELSE 40 * Distance(LnRatio[v.aspect], LnRatio[aspect])
AdobeVariantScore(v, duration, resolution, aspect) ==
  DurationScore(v, duration) + ResolutionScore(v, resolution) + AspectScore(v, aspect)

(* Mutant: the first of the nearest variants wins.                         *)
Nearer_First(v, w, score) == score[v] < score[w]

Nearer(v, w, score) == score[v] < score[w] \/ (score[v] = score[w] /\ v.order < w.order)

(* The nearest variant of a family, the catalogue gone through in order.   *)
NoVariant == [id |-> <<>>]
NearestOf(family, variants, score) ==
  LET best[k \in 0..Len(variants)] ==
        IF k = 0 THEN NoVariant
        ELSE IF /\ variants[k] \in family
                /\ best[k - 1] = NoVariant \/ Nearer(variants[k], best[k - 1], score)
             THEN variants[k] ELSE best[k - 1]
  IN  best[Len(variants)]

(* selectAdobeModelVariant: the variant that is named, or the nearest one  *)
(* of the family that is named, for a catalogue in the sidecar's order.    *)
SelectAdobeModelVariant(variants, requested, media, req) ==
  LET named == {v \in Range(variants) : v.id = requested}
      family == {v \in Range(variants) :
                   v.family = CanonicalAdobeModelID(requested) /\ v.media = media}
      score == [v \in family |->
                  AdobeVariantScore(v, RequestedAdobeDuration(req, media),
                    RequestedAdobeResolution(req, media), RequestedAdobeAspect(req, media))]
  IN  IF named # {} THEN LET v == CHOOSE v \in named : TRUE IN
                         IF v.media = media THEN v ELSE NoVariant
      ELSE NearestOf(family, variants, score)
-----------------------------------------------------------------------------
(* buildAdobeCanonicalModels: the defaults that a family advertises.       *)
DefaultAdobeDuration(options) ==
  IF options = {} THEN 0
  ELSE Max({d \in options : \A e \in options : Distance(d, 6) <= Distance(e, 6)})
Closest(target, options, value) ==
  IF target \in options THEN target
  ELSE CHOOSE o \in options : \A p \in options :
         \/ Distance(value[o], value[target]) < Distance(value[p], value[target])
         \/ Distance(value[o], value[target]) = Distance(value[p], value[target])
            /\ value[o] <= value[p]
DefaultAdobeResolution(media, options) ==
  IF options = {} THEN Blank
  ELSE Closest(IF media = "image" THEN "1k" ELSE "720p", options, Ln)
DefaultAdobeAspect(media, options) ==
  IF options = {} THEN <<>>
  ELSE Closest(IF media = "image" THEN <<1, 1>> ELSE <<16, 9>>, options, LnRatio)
=============================================================================
