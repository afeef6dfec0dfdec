------------------------------ MODULE Catalogs ------------------------------
(***************************************************************************)
(* The two model catalogues of the API server at work: a client's request  *)
(* for a model and its options, and what is submitted for it, to the Adobe *)
(* sidecar by selectAdobeModelVariant and to Leonardo by GenerateVideo.    *)
(* Both are functions; a request and its outcome are a behaviour of two    *)
(* states.                                                                 *)
(***************************************************************************)
EXTENDS AdobeModels, VideoCatalog

CONSTANTS
  Listings, \* the sidecar's lists of variants, in its order
  Wishes,   \* the options that clients ask the sidecar for
  Seconds,  \* the durations that clients ask Leonardo for
  Aspects   \* and the aspect ratios

(* The variants that one stands among: of its family and its medium.       *)
Kin(listed, v) == {w \in Range(listed) : w.family = v.family /\ w.media = v.media}

(* The sidecar's lists are of the kind that its ids have in the code's own
   examples and tests: an id is not empty, and none is a family's name beside
   other variants of the family (a client who names the family would get that
   one); videos have a length and images none; the ratio is said (one that is
   not counts as the right one), and the resolution by all of a family or by
   none; a family of images has a square one (3:4 and 4:3 are equally far from
   1:1, and the distance and the advertised default may choose differently).
   The order is the one of the ids, and the lists may be in any.           *)
Measured(v) ==
  /\ v.duration \in Nat
  /\ v.resolution \in Resolutions \cup {Blank}
  /\ v.aspect \in DOMAIN LnRatio
WellListed(listed) ==
  /\ Len(listed) \in Nat /\ DOMAIN listed = 1..Len(listed)
  /\ \A v \in Range(listed) :
       /\ v.id # <<>> /\ v.order \in Nat
       /\ v.family = CanonicalAdobeModelID(v.id)
       /\ v.media \in {"image", "video"}
       /\ Measured(v) /\ (v.duration > 0 <=> v.media = "video")
       /\ \A w \in Kin(listed, v) : w.resolution = Blank => v.resolution = Blank
       /\ v.media = "image" => \E w \in Kin(listed, v) : w.aspect = <<1, 1>>
  /\ \A v, w \in Range(listed) :
       /\ v.order = w.order => v = w
       /\ w.id = v.family => w = v

(* A request's keys are lists, and the resolution and the ratio that it asks
   for are some whose distances are known.                                 *)
Measurable(req) ==
  /\ req.durations \in Seq(Nat)
  /\ Len(req.resolutions) \in Nat /\ DOMAIN req.resolutions = 1..Len(req.resolutions)
  /\ Len(req.ratios) \in Nat /\ DOMAIN req.ratios = 1..Len(req.ratios)
  /\ \A media \in {"image", "video"} :
       /\ RequestedAdobeResolution(req, media) \in Resolutions
       /\ RequestedAdobeAspect(req, media) \in DOMAIN LnRatio

ASSUME ListingsAssumption == \A listed \in Listings : WellListed(listed)
ASSUME WishesAssumption   == \A req \in Wishes : Measurable(req)
ASSUME SecondsAssumption  == Seconds \subseteq Int

VARIABLES query, outcome

catalogsVars == <<query, outcome>>
-----------------------------------------------------------------------------
NoQuery == [of |-> "none"]
Pending == [refused |-> TRUE, pending |-> TRUE]

AskAdobe ==
  \E listed \in Listings, req \in Wishes : \E v \in Range(listed) :
    query = [of |-> "adobe", listed |-> listed, family |-> v.family, media |-> v.media, req |-> req]

AskLeonardo ==
  \E m \in Range(VideoModels), seconds \in Seconds, aspect \in Aspects, both \in BOOLEAN :
    \E name \in {m.slug, m.name, m.value} \cup m.aliases, mode \in m.modes \cup {720, 4320} :
      query = [of |-> "leonardo", slug |-> m.slug, name |-> name, mode |-> mode,
               aspect |-> aspect, seconds |-> seconds, audio |-> both, image |-> both]

CatalogsInit ==
  /\ AskAdobe \/ AskLeonardo
  /\ outcome = Pending

Submit ==
  /\ outcome = Pending
  /\ query.of # "none"
  /\ outcome' =
       IF query.of = "adobe"
       THEN SelectAdobeModelVariant(query.listed, query.family, query.media, query.req)
       ELSE Submission(query.name, query.mode, query.aspect, query.seconds, query.audio, query.image)
  /\ UNCHANGED query

CatalogsSpec == CatalogsInit /\ [][Submit]_catalogsVars
-----------------------------------------------------------------------------
Options(v) == <<v.duration, v.resolution, v.aspect>>
Wanted(req, media) ==
  <<RequestedAdobeDuration(req, media), RequestedAdobeResolution(req, media),
    RequestedAdobeAspect(req, media)>>
Unstated(req) ==
  /\ \A i \in DOMAIN req.durations : req.durations[i] = 0
  /\ \A i \in DOMAIN req.resolutions : req.resolutions[i] = Blank
  /\ \A i \in DOMAIN req.ratios : req.ratios[i] = <<>>
  /\ req.size = <<>>

(* The options that a family advertises by default.                        *)
Defaults(S, media) ==
  <<DefaultAdobeDuration({v.duration : v \in S} \ {0}),
    DefaultAdobeResolution(media, {v.resolution : v \in S} \ {Blank}),
    DefaultAdobeAspect(media, {v.aspect : v \in S} \ {<<>>})>>

(* A request for a family means the nearest variant of the family, whatever
   the sidecar's order of its models.  One with the options of a variant gets
   these options; one that leaves them out gets the defaults that the family
   advertises, if it has them together; and a clip is not silently shortened
   (adobe_models.go:466-467) when a variant that differs in its duration only
   is as near and long enough.                                             *)
SelectionFaithful ==
  query.of = "adobe" /\ outcome # Pending =>
    LET family == {v \in Range(query.listed) : v.family = query.family /\ v.media = query.media}
        wanted == Wanted(query.req, query.media)
        far    == [v \in family |-> AdobeVariantScore(v, wanted[1], wanted[2], wanted[3])]
    IN  /\ outcome \in family
        /\ \A v \in family \ {outcome} :
             far[outcome] < far[v] \/ (far[outcome] = far[v] /\ outcome.order < v.order)
        /\ \A v \in family : Options(v) = wanted => Options(outcome) = wanted
        /\ Unstated(query.req) =>
             \A v \in family : LET usual == Defaults(family, query.media) IN
               Options(v) = usual => Options(outcome) = usual
        /\ ~\E v \in family :
             /\ v.resolution = outcome.resolution /\ v.aspect = outcome.aspect
             /\ outcome.duration < wanted[1] /\ wanted[1] <= v.duration
             /\ Distance(v.duration, wanted[1]) <= Distance(outcome.duration, wanted[1])

(* Clients can submit "exactly what they received from /v1/models"
   (video_models.go:227-228): by its id, its name and Leonardo's name a model
   is found, and a resolution and a duration that it advertises
   (server.go:253-281) are what is paid for.  What it does not advertise is
   never paid for: the duration is the longest on offer that the request
   covers, the resolution one of the model's.  A square video of 960 lines of
   Grok's is advertised and refused.                                       *)
AdvertisedIsSubmitted ==
  query.of = "leonardo" /\ outcome # Pending =>
    LET m == Model(query.slug)
        advertised == /\ ~m.hidden
                      /\ query.mode \in m.modes /\ query.aspect = DefaultAspect
                      /\ query.audio => m.audio # "none"
                      /\ query.image => m.image # "no"
                      /\ m.image = "must" => query.image
    IN  /\ m.hidden => outcome = Refused
        /\ advertised =>
             IF m.slug = "grok-imagine-1.5" /\ query.mode = 960 THEN outcome = Refused
             ELSE ~outcome.refused /\ outcome.mode = query.mode
        /\ ~outcome.refused =>
             /\ outcome.value = m.value
             /\ outcome.mode \in m.modes
             /\ outcome.size = NoSize \/ outcome.size[2] \in m.dims[outcome.mode]
             /\ outcome.duration \in m.durations
             /\ query.seconds \in m.durations => outcome.duration = query.seconds
             /\ \A d \in m.durations :
                  query.seconds > 0 /\ outcome.duration < d => query.seconds < d
=============================================================================
