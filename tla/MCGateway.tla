------------------------------ MODULE MCGateway -----------------------------
(* The gateway with all that it does, and, from initial states of their    *)
(* own, every query of the catalogues with its outcome.                    *)
EXTENDS Gateway, Catalogs, TLC

CONSTANTS h1, h2, r1, i1, i2, c1, p1, p2

VideosAndImages == {<<"video", r1>>, <<"image", r1>>}

Says(d, r, a) == [duration |-> d, resolution |-> r, aspect |-> a]
Named(parts, order) == Variant(Firefly(parts), order, NotSaid, NotSaid)
Variants == {
  Named(<<"gpt", "image", "1k", "1x1">>, 1), Named(<<"gpt", "image", "2k", "1x1">>, 2),
  Named(<<"sora2", "4s", "16x9">>, 3), Named(<<"sora2", "8s", "16x9">>, 4),
  Named(<<"veo31", "4s", "16x9", "720p">>, 5), Named(<<"veo31", "8s", "16x9", "1080p">>, 6),
  Named(<<"veo31", "8s", "16x9", "720p">>, 7), Named(<<"veo31", "8s", "9x16", "720p">>, 8),
  Variant(Firefly(<<"veo31", "fast", "6s">>), 9, Says(0, "720p", <<16, 9>>), NotSaid),
  Variant(Firefly(<<"veo31", "silent">>), 10, NotSaid, Says(8, "720p", <<16, 9>>)) }
UpToThreeVariants == UNION {SetToSeqs(S) : S \in UNION {kSubset(n, Variants) : n \in 1..3}}

Asking(d, r, a) == [durations |-> <<d>>, resolutions |-> <<r>>, ratios |-> <<a>>, size |-> <<>>]
SomeWishes ==
  {Asking(d, r, a) : d \in {0, 5, 6, 8}, r \in {"", "hd", "1080"}, a \in {<<>>, <<9, 16>>}}
  \cup {[Asking(0, "", <<>>) EXCEPT !.size = <<1080, 1920>>]}

MCInit ==
  /\ Init
  /\ CatalogsInit \/ (query = NoQuery /\ outcome = Pending)
MCNext ==
  \/ query = NoQuery /\ Next /\ UNCHANGED catalogsVars
  \/ Submit /\ UNCHANGED vars
MCSpec == MCInit /\ [][MCNext]_<<vars, catalogsVars>>

Symmetry == Permutations({h1, h2}) \cup Permutations({i1, i2}) \cup Permutations({p1, p2})
=============================================================================
