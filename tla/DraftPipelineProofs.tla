------------------------- MODULE DraftPipelineProofs -------------------------
(***************************************************************************)
(* Proofs about DraftPipeline, from what was published staying what the    *)
(* stages before it say: no answer of a backtest or of an evaluation       *)
(* depends on what it is asked for, every aggregate is a count of the      *)
(* payloads that were accepted, a pair and its baseline are the whole of   *)
(* the rows of a pick, and a history is of what was created before.        *)
(***************************************************************************)
EXTENDS DraftPipeline, FiniteSetTheorems, SequenceTheorems, WellFoundedInduction, TLAPS

-----------------------------------------------------------------------------
(* The stages: what was published stays what the stages before it say.     *)

Payloads == {c.payload : c \in approved}

\* The studies, as functions of what they were made of.
BacktestOf(data, counts) ==
    [e \in {p \in DOMAIN counts : FoldSplits(data, p) # {}} |->
        UNION {Predictions(data.participants, s) : s \in FoldSplits(data, e)}]
AggregatesOf(data, target) ==
    LET built == Aggregates(data, target)
        sound == /\ ReciprocalOutcomes(MatchupContributions(data, target), built)
                 /\ \A a \in built.matchups \cup built.synergies : BundleReconciles(a.bundle)
    IN  IF AggregationRaises(data, target) \/ ~sound THEN Refused
        ELSE [target |-> target, built |-> built]
RollingOf(corpora, timed) ==
    IF PooledFails(corpora) THEN Refused ELSE Answers(Rolling(timed))

DraftStudies == {"aggregates", "predicted", "composition", "pooled", "rolling"}

Accepted == /\ approved \subseteq Candidates /\ IsFiniteSet(approved)
            /\ \A c, d \in approved : c.payload.match_id = d.payload.match_id => c = d

Ordered == /\ canonical = Nothing => features = Nothing
           /\ features = Nothing => drafts = Nothing
           /\ canonical = Nothing => DOMAIN studies = {}
           /\ drafts = Nothing => DOMAIN studies \cap DraftStudies = {}
           /\ "focal" \in DOMAIN studies => "topLane" \in DOMAIN studies

StagesAre ==
    /\ Published(canonical) =>
          LET made == Canonical(Payloads, Platform, ExpectedCounts) IN
          made.ready /\ canonical = made.rows
    /\ Published(features) =>
          Published(canonical) /\ features = Analytical(canonical, ExpectedCounts).rows
    /\ Published(drafts) =>
          LET made == DraftDataset(canonical, features, ExpectedCounts) IN
          Published(features) /\ made.ready /\ drafts = made.rows

StudiesAre ==
    /\ DOMAIN studies \cap DraftStudies # {} => Published(drafts)
    /\ "aggregates" \in DOMAIN studies =>
          \E target \in DOMAIN ExpectedCounts :
             studies.aggregates = AggregatesOf(drafts, target)
    /\ "predicted" \in DOMAIN studies => studies.predicted = BacktestOf(drafts, ExpectedCounts)
    /\ "composition" \in DOMAIN studies =>
          studies.composition = Answers(Composition(drafts, Platform))
    /\ "pooled" \in DOMAIN studies => studies.pooled = Answers(Pooled(Corpora))
    /\ "rolling" \in DOMAIN studies => studies.rolling = RollingOf(Corpora, TimedSource)
    /\ "focal" \in DOMAIN studies => studies.focal = Answers(FocalRolling(FocalRows))

SInv == Accepted /\ Ordered /\ StagesAre /\ StudiesAre

\* Before anything has run there is nothing to compare.
LEMMA InitStages == Init => SInv
  <1> SUFFICES ASSUME Init PROVE SInv
    OBVIOUS
  <1>1. Accepted
    BY FS_EmptySet DEF Init, Accepted
  <1>2. Ordered /\ StagesAre /\ StudiesAre
    BY DEF Init, Ordered, StagesAre, StudiesAre, Published
  <1> QED BY <1>1, <1>2 DEF SInv

\* A population grows only before the first stage has run, by payloads of other matches.
LEMMA ApproveStages == ASSUME SInv, NEW c \in Candidates, Approve(c) PROVE SInv'
  <1> USE DEF SInv, Approve
  <1>1. Accepted'
    <2>1. IsFiniteSet(approved \cup {c})
      BY FS_AddElement DEF Accepted
    <2> QED BY <2>1 DEF Accepted
  <1>2. Ordered'
    BY DEF Ordered
  <1>3. StagesAre' /\ StudiesAre'
    BY DEF Ordered, StagesAre, StudiesAre, Published
  <1> QED BY <1>1, <1>2, <1>3


\* What the stages are a function of is fixed as long as they are.
LEMMA FixedPopulation ==
  ASSUME approved' = approved
  PROVE  Payloads' = Payloads /\ ExpectedCounts' = ExpectedCounts /\ TimelineOf' = TimelineOf
  BY DEF Payloads, ExpectedCounts, TimelineOf

\* Once Stage 3.1 has run its population is fixed, and so are its rows.
LEMMA CanonicalStages == ASSUME SInv, BuildCanonical PROVE SInv'
  <1> USE DEF SInv, BuildCanonical
  <1>1. Accepted' /\ Ordered'
    BY DEF Accepted, Ordered
  <1>2. StagesAre'
    BY FixedPopulation DEF Ordered, StagesAre, Published, Outcome, Payloads
  <1>3. StudiesAre'
    BY DEF Ordered, StudiesAre
  <1> QED BY <1>1, <1>2, <1>3

\* Stage 3.2 is computed from the canonical rows that stay.
LEMMA FeatureStages == ASSUME SInv, BuildFeatures PROVE SInv'
  <1> USE DEF SInv, BuildFeatures
  <1>1. Accepted' /\ Ordered'
    BY DEF Accepted, Ordered, Published
  <1>2. StagesAre'
    BY FixedPopulation DEF Ordered, StagesAre, Published, Outcome
  <1>3. StudiesAre'
    <2>1. DOMAIN studies' \cap DraftStudies = {}
      BY DEF Ordered
    <2>2. FocalRows' = FocalRows
      BY DEF FocalRows
    <2> QED BY <2>1, <2>2 DEF StudiesAre, DraftStudies
  <1> QED BY <1>1, <1>2, <1>3

\* Stage 3.3A is computed from the canonical rows and the features that stay.
LEMMA DraftStages == ASSUME SInv, BuildDrafts PROVE SInv'
  <1> USE DEF SInv, BuildDrafts
  <1>1. Accepted' /\ Ordered'
    BY DEF Accepted, Ordered, Published
  <1>2. StagesAre'
    BY FixedPopulation DEF Ordered, StagesAre, Published, Outcome
  <1>3. StudiesAre'
    <2>1. DOMAIN studies' \cap DraftStudies = {}
      BY DEF Ordered
    <2>2. FocalRows' = FocalRows
      BY DEF FocalRows
    <2> QED BY <2>1, <2>2 DEF StudiesAre, DraftStudies
  <1> QED BY <1>1, <1>2, <1>3

\* A study adds its own entry.
LEMMA Studying ==
  ASSUME NEW name, NEW result, Study(name, result)
  PROVE  /\ DOMAIN studies' = DOMAIN studies \cup {name} /\ name \notin DOMAIN studies
         /\ studies'[name] = result
         /\ \A n \in DOMAIN studies : studies'[n] = studies[n]
         /\ approved' = approved /\ canonical' = canonical
         /\ features' = features /\ drafts' = drafts
  BY DEF Study

\* The other studies stand, and so does what they were made of.
LEMMA StandingStudies ==
  ASSUME SInv, NEW name \in DraftStudies \cup {"topLane", "focal"}, NEW result,
         Study(name, result), name \in DraftStudies => Published(drafts),
         name = "topLane" => Published(canonical),
         name = "focal" => "topLane" \in DOMAIN studies
  PROVE  /\ Accepted' /\ Ordered' /\ StagesAre'
         /\ ExpectedCounts' = ExpectedCounts /\ Corpora' = Corpora /\ TimedSource' = TimedSource
         /\ DOMAIN studies' \cap DraftStudies # {} => Published(drafts)'
         /\ "topLane" \in DOMAIN studies => FocalRows' = FocalRows
  <1>1. /\ DOMAIN studies' = DOMAIN studies \cup {name} /\ name \notin DOMAIN studies
        /\ \A n \in DOMAIN studies : studies'[n] = studies[n]
        /\ approved' = approved /\ canonical' = canonical
        /\ features' = features /\ drafts' = drafts
    BY Studying
  <1>2. Accepted'
    BY <1>1 DEF SInv, Accepted
  <1>3. Ordered'
    <2>1. name \in DraftStudies => drafts # Nothing
      BY DEF Published
    <2>2. canonical # Nothing
      BY <2>1 DEF SInv, Ordered, Published
    <2> QED BY <1>1, <2>1, <2>2 DEF SInv, Ordered, Published
  <1>4. Payloads' = Payloads /\ ExpectedCounts' = ExpectedCounts /\ TimelineOf' = TimelineOf
    BY <1>1, FixedPopulation
  <1>5. StagesAre'
    BY <1>1, <1>4 DEF SInv, StagesAre, Published
  <1>6. Source' = Source
    BY <1>1, <1>4 DEF Source
  <1>7. Corpora' = Corpora
    BY <1>6 DEF Corpora
  <1>8. TimedSource' = TimedSource
    BY <1>6, <1>7 DEF TimedSource
  <1>9. DOMAIN studies' \cap DraftStudies # {} => Published(drafts)'
    BY <1>1 DEF SInv, StudiesAre, Published
  <1>10. "topLane" \in DOMAIN studies => FocalRows' = FocalRows
    BY <1>1 DEF FocalRows
  <1> QED BY <1>2, <1>3, <1>4, <1>5, <1>7, <1>8, <1>9, <1>10

\* Every study: what it publishes is computed from the stages as they are.
LEMMA DraftStudy ==
  ASSUME SInv, Published(drafts),
         \/ \E target \in DOMAIN ExpectedCounts : BuildAggregates(target)
         \/ Backtest \/ Compose \/ DevelopPooled \/ DevelopRolling
  PROVE  SInv'
  <1> DEFINE Made(n, r) ==
        CASE n = "predicted" -> r = BacktestOf(drafts, ExpectedCounts)
          [] n = "composition" -> r = Answers(Composition(drafts, Platform))
          [] n = "pooled" -> r = Answers(Pooled(Corpora))
          [] n = "rolling" -> r = RollingOf(Corpora, TimedSource)
          [] n = "aggregates" ->
                \E target \in DOMAIN ExpectedCounts : r = AggregatesOf(drafts, target)
  <1>0. PICK n \in DraftStudies : \E r : Study(n, r) /\ Made(n, r)
    <2>1. CASE \E target \in DOMAIN ExpectedCounts : BuildAggregates(target)
      BY <2>1 DEF BuildAggregates, DraftStudies, AggregatesOf
    <2>2. CASE Backtest
      BY <2>2 DEF Backtest, DraftStudies, BacktestOf
    <2>3. CASE Compose
      BY <2>3 DEF Compose, DraftStudies
    <2>4. CASE DevelopPooled
      BY <2>4 DEF DevelopPooled, DraftStudies
    <2>5. CASE DevelopRolling
      BY <2>5 DEF DevelopRolling, DraftStudies, RollingOf
    <2> QED BY <2>1, <2>2, <2>3, <2>4, <2>5
  <1>1. PICK r : Study(n, r) /\ Made(n, r)
    BY <1>0
  <1>2. /\ DOMAIN studies' = DOMAIN studies \cup {n} /\ n \notin DOMAIN studies
        /\ studies'[n] = r
        /\ \A m \in DOMAIN studies : studies'[m] = studies[m]
        /\ drafts' = drafts
    BY <1>1, Studying
  <1>3. /\ Accepted' /\ Ordered' /\ StagesAre'
        /\ ExpectedCounts' = ExpectedCounts /\ Corpora' = Corpora /\ TimedSource' = TimedSource
        /\ DOMAIN studies' \cap DraftStudies # {} => Published(drafts)'
        /\ "topLane" \in DOMAIN studies => FocalRows' = FocalRows
    BY <1>1, StandingStudies DEF DraftStudies
  <1>4. StudiesAre'
    <2>1. Published(drafts)'
      BY <1>1, <1>2, <1>3
    <2>2. n \notin {"focal", "topLane"}
      BY <1>1 DEF DraftStudies
    <2>3. "predicted" \in DOMAIN studies' =>
             studies'.predicted = BacktestOf(drafts, ExpectedCounts)
      BY <1>1, <1>2 DEF SInv, StudiesAre
    <2>4. "composition" \in DOMAIN studies' =>
             studies'.composition = Answers(Composition(drafts, Platform))
      BY <1>1, <1>2 DEF SInv, StudiesAre
    <2>5. "pooled" \in DOMAIN studies' => studies'.pooled = Answers(Pooled(Corpora))
      BY <1>1, <1>2 DEF SInv, StudiesAre
    <2>6. "rolling" \in DOMAIN studies' => studies'.rolling = RollingOf(Corpora, TimedSource)
      BY <1>1, <1>2 DEF SInv, StudiesAre
    <2>7. "focal" \in DOMAIN studies' =>
             "topLane" \in DOMAIN studies /\ studies'.focal = Answers(FocalRolling(FocalRows))
      BY <1>2, <2>2 DEF SInv, StudiesAre, Ordered
    <2>8. "aggregates" \in DOMAIN studies' =>
             \E target \in DOMAIN ExpectedCounts :
                studies'.aggregates = AggregatesOf(drafts, target)
      BY <1>1, <1>2 DEF SInv, StudiesAre
    <2> QED BY <1>2, <1>3, <2>1, <2>3, <2>4, <2>5, <2>6, <2>7, <2>8 DEF StudiesAre
  <1> QED BY <1>3, <1>4 DEF SInv

\* The same for the top-lane rows and the study of those.
LEMMA TopLaneStudy ==
  ASSUME SInv, BuildTopLane \/ DevelopFocal PROVE SInv'
  <1> DEFINE Made(n, r) ==
        /\ n = "topLane" => Published(canonical)
        /\ n = "focal" => "topLane" \in DOMAIN studies /\ r = Answers(FocalRolling(FocalRows))
  <1>0. PICK n \in {"topLane", "focal"} : \E r : Study(n, r) /\ Made(n, r)
    BY DEF BuildTopLane, DevelopFocal, Studied
  <1>1. PICK r : Study(n, r) /\ Made(n, r)
    BY <1>0
  <1>2. /\ DOMAIN studies' = DOMAIN studies \cup {n} /\ n \notin DOMAIN studies
        /\ studies'[n] = r
        /\ \A m \in DOMAIN studies : studies'[m] = studies[m]
        /\ drafts' = drafts
    BY <1>1, Studying
  <1>3. /\ Accepted' /\ Ordered' /\ StagesAre'
        /\ ExpectedCounts' = ExpectedCounts /\ Corpora' = Corpora /\ TimedSource' = TimedSource
        /\ DOMAIN studies' \cap DraftStudies # {} => Published(drafts)'
        /\ "topLane" \in DOMAIN studies => FocalRows' = FocalRows
    <2>1. n \notin DraftStudies
      BY <1>1 DEF DraftStudies
    <2> QED BY <1>1, <2>1, StandingStudies
  <1>4. StudiesAre'
    <2>1. "focal" \in DOMAIN studies' =>
             "topLane" \in DOMAIN studies /\ studies'.focal = Answers(FocalRolling(FocalRows))
      BY <1>1, <1>2 DEF SInv, StudiesAre, Ordered
    <2>2. "predicted" \in DOMAIN studies' =>
             studies'.predicted = BacktestOf(drafts, ExpectedCounts)
      BY <1>1, <1>2 DEF SInv, StudiesAre
    <2>3. "composition" \in DOMAIN studies' =>
             studies'.composition = Answers(Composition(drafts, Platform))
      BY <1>1, <1>2 DEF SInv, StudiesAre
    <2>4. "pooled" \in DOMAIN studies' => studies'.pooled = Answers(Pooled(Corpora))
      BY <1>1, <1>2 DEF SInv, StudiesAre
    <2>5. "rolling" \in DOMAIN studies' => studies'.rolling = RollingOf(Corpora, TimedSource)
      BY <1>1, <1>2 DEF SInv, StudiesAre
    <2>6. "aggregates" \in DOMAIN studies' =>
             \E target \in DOMAIN ExpectedCounts :
                studies'.aggregates = AggregatesOf(drafts, target)
      BY <1>1, <1>2 DEF SInv, StudiesAre
    <2> QED BY <1>2, <1>3, <2>1, <2>2, <2>3, <2>4, <2>5, <2>6 DEF StudiesAre
  <1> QED BY <1>3, <1>4 DEF SInv

\* Every step keeps what the stages and the studies are.
LEMMA StageSteps == SInv /\ [Next]_vars => SInv'
  <1> SUFFICES ASSUME SInv, [Next]_vars PROVE SInv'
    OBVIOUS
  <1>1. CASE UNCHANGED vars
    <2>1. /\ approved' = approved /\ canonical' = canonical /\ features' = features
          /\ drafts' = drafts /\ studies' = studies
      BY <1>1 DEF vars
    <2>2. Payloads' = Payloads /\ ExpectedCounts' = ExpectedCounts /\ TimelineOf' = TimelineOf
      BY <2>1, FixedPopulation
    <2>3. Source' = Source
      BY <2>1, <2>2 DEF Source
    <2>4. Corpora' = Corpora
      BY <2>3 DEF Corpora
    <2>5. TimedSource' = TimedSource
      BY <2>3, <2>4 DEF TimedSource
    <2>6. FocalRows' = FocalRows
      BY <2>1 DEF FocalRows
    <2> QED
      BY <2>1, <2>2, <2>4, <2>5, <2>6
      DEF SInv, Accepted, Ordered, StagesAre, StudiesAre, Published
  <1>2. CASE \E c \in Candidates : Approve(c)
    BY <1>2, ApproveStages
  <1>3. CASE BuildCanonical \/ BuildFeatures \/ BuildDrafts
    BY <1>3, CanonicalStages, FeatureStages, DraftStages
  <1>4. CASE \/ \E target \in DOMAIN ExpectedCounts : BuildAggregates(target)
             \/ Backtest \/ Compose \/ DevelopPooled \/ DevelopRolling
    <2>1. Published(drafts)
      BY <1>4 DEF BuildAggregates, Backtest, Compose, DevelopPooled, DevelopRolling
    <2> QED BY <1>4, <2>1, DraftStudy
  <1>5. CASE BuildTopLane \/ DevelopFocal
    BY <1>5, TopLaneStudy
  <1> QED BY <1>1, <1>2, <1>3, <1>4, <1>5 DEF Next
-----------------------------------------------------------------------------
(* Answers to drafts and to rows.                                          *)

\* What a model is asked of a draft are its picks, and nothing of its outcome.
LEMMA AlikeDrafts ==
  ASSUME NEW d, NEW e, d.allied = e.allied, d.opposing = e.opposing
  PROVE  /\ \A m : Answer(m, d) = Answer(m, e)
         /\ \A t : RoleAnswer(t, d) = RoleAnswer(t, e)
  <1>1. \A k : FeatureValue(d, k) = FeatureValue(e, k)
    <2> TAKE k
    <2>1. d["allied"] = e["allied"] /\ d["opposing"] = e["opposing"]
      OBVIOUS
    <2> QED BY <2>1 DEF FeatureValue
  <1>2. \A v : Vector(d, v) = Vector(e, v)
    <2> TAKE v
    <2>1. {f \in v : FeatureValue(d, f) # 0} = {f \in v : FeatureValue(e, f) # 0}
      BY <1>1
    <2> QED BY <1>1, <2>1 DEF Vector
  <1>3. \A m : Answer(m, d) = Answer(m, e)
    BY <1>2 DEF Answer
  <1>4. \A t : RoleAnswer(t, d) = RoleAnswer(t, e)
    <2> TAKE t
    <2>1. \A side \in {"allied", "opposing"} : d[side] = e[side]
      OBVIOUS
    <2>2. \A side \in {"allied", "opposing"} :
            [p \in Positions |-> RoleRecord(t, p, d[side][p])]
              = [p \in Positions |-> RoleRecord(t, p, e[side][p])]
      BY <2>1
    <2> QED BY <2>2 DEF RoleAnswer
  <1> QED BY <1>3, <1>4

\* Rows that differ in what happened from a time on give the folds before that time
\* the same training rows, and validation rows created at the same times.
LEMMA RollingIsBlind ==
  ASSUME NEW drafted, NEW sources, NEW b
  PROVE  LET rows == TimedDrafts(drafted, sources) IN
         RollingAnswers(Turned(rows, b[1]), b) = RollingAnswers(rows, b)
  <1> DEFINE rows == TimedDrafts(drafted, sources)
             Turn(r) == IF r.game_creation < b[1] THEN r ELSE [r EXCEPT !.outcome = ~@]
             turned == Turned(rows, b[1])
             f == OuterFold(rows, b)
             g == OuterFold(turned, b)
  <1>1. \A r \in rows : /\ Turn(r).match_id = r.match_id /\ Turn(r).allied = r.allied
                        /\ Turn(r).opposing = r.opposing
                        /\ Turn(r).game_creation = r.game_creation
    BY DEF TimedDrafts
  <1>2. turned = {Turn(r) : r \in rows}
    BY DEF Turned
  <1>3. \A r \in rows : r.game_creation < b[1] => Turn(r) = r
    OBVIOUS
  <1> HIDE DEF rows, turned, Turn
  <1>4. Until(turned, b[1]) = Until(rows, b[1])
    BY <1>1, <1>2, <1>3 DEF Until
  <1>5. Within(turned, b[1], b[2]) = {Turn(r) : r \in Within(rows, b[1], b[2])}
    BY <1>1, <1>2 DEF Within
  <1>6. g[1] = f[1] /\ g[3] = f[3] /\ f[2] = Within(rows, b[1], b[2])
        /\ g[2] = {Turn(r) : r \in f[2]} /\ f[2] \subseteq rows
    BY <1>4, <1>5 DEF OuterFold, Within
  <1>7. SharedModel(g) = SharedModel(f)
    BY <1>6 DEF SharedModel
  <1> HIDE DEF f, g
  <1>8. \A r \in f[2] : SharedAnswer(g, Turn(r)) = SharedAnswer(f, r)
    <2> TAKE r \in f[2]
    <2>1. Turn(r).allied = r.allied /\ Turn(r).opposing = r.opposing
      BY <1>1, <1>6
    <2>2. /\ \A m : Answer(m, Turn(r)) = Answer(m, r)
          /\ \A t : RoleAnswer(t, Turn(r)) = RoleAnswer(t, r)
      BY <2>1, AlikeDrafts
    <2>3. {Answer(Model(f[1], v, "frozen"), Turn(r)) : v \in Variants}
            = {Answer(Model(f[1], v, "frozen"), r) : v \in Variants}
      BY <2>2
    <2>4. {Answer(Model(g[1], v, "frozen"), Turn(r)) : v \in Variants}
            = {Answer(Model(f[1], v, "frozen"), r) : v \in Variants}
      BY <2>3, <1>6
    <2>5. <<Cardinality({s \in g[1] : s.outcome}), Cardinality(g[1])>>
            = <<Cardinality({s \in f[1] : s.outcome}), Cardinality(f[1])>>
      BY <1>6
    <2> QED BY <1>6, <1>7, <2>2, <2>4, <2>5 DEF SharedAnswer
  <1>9. {<<d.match_id, SharedAnswer(g, d)>> : d \in g[2]}
          = {<<d.match_id, SharedAnswer(f, d)>> : d \in f[2]}
    BY <1>1, <1>6, <1>8
  <1> QED BY <1>9 DEF RollingAnswers, f, g, rows, turned

\* The same for focal rows, of which gold, tower and win are turned.
LEMMA FocalIsBlind ==
  ASSUME NEW rows, NEW b
  PROVE  FocalAnswers(TurnedFocal(rows, b[1]), b) = FocalAnswers(rows, b)
  <1> DEFINE Turn(r) ==
               IF r.game_creation < b[1] THEN r
               ELSE [match_group |-> r.match_group, platform |-> r.platform,
                     game_creation |-> r.game_creation, player |-> r.player,
                     champion |-> r.champion, enemy |-> r.enemy, team |-> r.team,
                     win |-> ~r.win, tower |-> "neither_by_15",
                     gold |-> [minute \in PrimaryMinutes |-> -r.gold[minute]]]
             turned == TurnedFocal(rows, b[1])
             f == OuterFold(Development(rows), b)
             g == OuterFold(Development(turned), b)
  <1>1. \A r : /\ Turn(r).match_group = r.match_group /\ Turn(r).champion = r.champion
               /\ Turn(r).enemy = r.enemy /\ Turn(r).team = r.team
               /\ Turn(r).game_creation = r.game_creation
    OBVIOUS
  <1>2. turned = {Turn(r) : r \in rows}
    BY DEF TurnedFocal
  <1>3. \A r \in rows : r.game_creation < b[1] => Turn(r) = r
    OBVIOUS
  <1> HIDE DEF turned, Turn
  <1>4. Development(turned) = {Turn(r) : r \in Development(rows)} /\ Development(rows) \subseteq rows
    BY <1>1, <1>2 DEF Development, Until
  <1>5. Until(Development(turned), b[1]) = Until(Development(rows), b[1])
    BY <1>1, <1>3, <1>4 DEF Until
  <1>6. Within(Development(turned), b[1], b[2])
          = {Turn(r) : r \in Within(Development(rows), b[1], b[2])}
    BY <1>1, <1>4 DEF Within
  <1>7. g[1] = f[1] /\ g[3] = f[3] /\ g[2] = {Turn(r) : r \in f[2]}
    BY <1>5, <1>6 DEF OuterFold
  <1>8. InnerWindow(g) = InnerWindow(f)
    BY <1>7 DEF InnerWindow
  <1> HIDE DEF f, g
  <1>9. FocalConfiguration(g) = FocalConfiguration(f)
    BY <1>8 DEF FocalConfiguration
  <1>10. \A r \in f[2] : FocalAnswer(g, Turn(r)) = FocalAnswer(f, r)
    <2> TAKE r \in f[2]
    <2>1. FocalFeatures(Turn(r)) = FocalFeatures(r)
      BY <1>1 DEF FocalFeatures
    <2>2. {s \in g[1] : s.champion = Turn(r).champion} = {s \in f[1] : s.champion = r.champion}
      BY <1>1, <1>7
    <2> QED BY <1>7, <1>9, <2>1, <2>2 DEF FocalAnswer
  <1>11. {<<r.match_group, r.team, FocalAnswer(g, r)>> : r \in g[2]}
           = {<<r.match_group, r.team, FocalAnswer(f, r)>> : r \in f[2]}
    BY <1>1, <1>7, <1>10
  <1> QED BY <1>11 DEF FocalAnswers, f, g, turned

-----------------------------------------------------------------------------
(* Drafts out of their fold.                                               *)

RowsOf(data, id) == {o \in data.participants : o.match_id = id}

\* A complete match has rows, which name it.
LEMMA CompleteMatch ==
  ASSUME NEW data, NEW id, Complete(RowsOf(data, id))
  PROVE  /\ (CHOOSE o \in RowsOf(data, id) : TRUE) \in RowsOf(data, id)
         /\ (CHOOSE o \in RowsOf(data, id) : TRUE).match_id = id
  <1>1. RowsOf(data, id) # {}
    <2>1. Cardinality(RowsOf(data, id)) # 0
      BY CanonicalAssumption DEF Complete, EvenTeams
    <2> QED BY <2>1, FS_EmptySet
  <1>2. (CHOOSE o \in RowsOf(data, id) : TRUE) \in RowsOf(data, id)
    BY <1>1
  <1> QED BY <1>2 DEF RowsOf

\* The rows of a corpus are one for each complete match of a context.
LEMMA CorpusRows ==
  ASSUME NEW data, NEW platform
  PROVE  Corpus(data, platform).rows =
           {MatchDraft(RowsOf(data, id), platform) :
               id \in {i \in {c.match_id : c \in data.contexts} : Complete(RowsOf(data, i))}}
  BY DEF Corpus, RowsOf

\* A corpus has one draft of a match, which is in its scope.
LEMMA CorpusIsKeyed ==
  ASSUME NEW data, NEW platform, Coherent(data)
  PROVE  /\ \A d \in Corpus(data, platform).rows :
               <<d.match_id, d.public_patch>> \in Corpus(data, platform).scope
         /\ \A d, e \in Corpus(data, platform).rows : d.match_id = e.match_id => d = e
  <1>1. \A d \in Corpus(data, platform).rows :
           /\ d = MatchDraft(RowsOf(data, d.match_id), platform)
           /\ <<d.match_id, d.public_patch>> \in {<<c.match_id, c.public_patch>> : c \in data.contexts}
    <2> TAKE d \in Corpus(data, platform).rows
    <2>1. PICK c \in data.contexts : /\ Complete(RowsOf(data, c.match_id))
                                     /\ d = MatchDraft(RowsOf(data, c.match_id), platform)
      BY CorpusRows
    <2> DEFINE some == CHOOSE o \in RowsOf(data, c.match_id) : TRUE
    <2>2. some \in RowsOf(data, c.match_id) /\ some.match_id = c.match_id
      BY <2>1, CompleteMatch
    <2>3. d.match_id = some.match_id /\ d.public_patch = some.public_patch
      BY <2>1 DEF MatchDraft
    <2> HIDE DEF some
    <2>4. some.public_patch = c.public_patch
      BY <2>2 DEF Coherent, RowsOf
    <2> QED BY <2>1, <2>2, <2>3, <2>4
  <1>2. Corpus(data, platform).scope = {<<c.match_id, c.public_patch>> : c \in data.contexts}
    BY DEF Corpus
  <1> QED BY <1>1, <1>2

\* Sources whose accepted matches are disjoint have one draft of a match between them.
LEMMA PooledIsKeyed ==
  ASSUME NEW sources, \A s \in sources : Coherent(s.drafts),
         ~PooledFails({Corpus(s.drafts, s.platform) : s \in sources})
  PROVE  \A d, e \in PooledDrafts({Corpus(s.drafts, s.platform) : s \in sources}) :
            d.match_id = e.match_id => d = e
  <1> DEFINE corpora == {Corpus(s.drafts, s.platform) : s \in sources}
  <1> TAKE d, e \in PooledDrafts(corpora)
  <1> HAVE d.match_id = e.match_id
  <1>1. PICK s \in sources : /\ d \in Corpus(s.drafts, s.platform).rows
                             /\ d.public_patch = TargetPatch
    BY DEF PooledDrafts
  <1>2. PICK t \in sources : /\ e \in Corpus(t.drafts, t.platform).rows
                             /\ e.public_patch = TargetPatch
    BY DEF PooledDrafts
  <1>3. <<d.match_id, TargetPatch>> \in Corpus(s.drafts, s.platform).scope
    BY <1>1, CorpusIsKeyed
  <1>4. <<d.match_id, TargetPatch>> \in Corpus(t.drafts, t.platform).scope
    BY <1>2, CorpusIsKeyed
  <1>5. Corpus(s.drafts, s.platform) = Corpus(t.drafts, t.platform)
    <2> DEFINE c1 == Corpus(s.drafts, s.platform)
               c2 == Corpus(t.drafts, t.platform)
    <2>1. c1 \in corpora /\ c2 \in corpora
      OBVIOUS
    <2>2. <<d.match_id, TargetPatch>> \in {x \in c1.scope : x[2] = TargetPatch}
      BY <1>3
    <2>3. <<d.match_id, TargetPatch>> \in {x \in c2.scope : x[2] = TargetPatch}
      BY <1>4
    <2> HIDE DEF c1, c2, corpora
    <2>4. ~PooledFails(corpora)
      BY DEF corpora
    <2>5. c1 = c2
      BY <2>1, <2>2, <2>3, <2>4 DEF PooledFails
    <2> QED BY <2>5 DEF c1, c2
  <1> QED BY <1>1, <1>2, <1>5, CorpusIsKeyed

\* The folds of a plan: a draft is validated in the fold it is planned for, by what is
\* planned for the others.
LEMMA PlannedFold ==
  ASSUME NEW rows, NEW f
  PROVE  f \in PlannedFolds(rows) <=>
           \E k \in 0..SelectionFolds - 1 :
              f = <<{d \in rows : FoldPlan(rows)[d.match_id] # k},
                    {d \in rows : FoldPlan(rows)[d.match_id] = k}>>
  BY DEF PlannedFolds, Partitions, Parts

\* What a model selected within a training set has seen is in it: what it is fitted on,
\* what the candidates are fitted on, and what they are scored on.
LEMMA SeenInTraining ==
  ASSUME NEW f, NEW v
  PROVE  Seen(PooledModel(f, v)) \subseteq {d.match_id : d \in f[1]}
  <1> DEFINE model == PooledModel(f, v)
             training == f[1]
  <1>1. ASSUME NEW e \in model.strength
        PROVE  /\ e[2][1].training \subseteq training
               /\ \E d \in training : e[1] = d.match_id
    <2>1. e \in SelectedBy(PlannedFolds(training), v)
      BY <1>1 DEF PooledModel, Model
    <2>2. PICK g \in PlannedFolds(training) : \E d \in g[2] :
             e = <<d.match_id, Answer(Model(g[1], v, "candidate"), d), d.outcome>>
      BY <2>1 DEF SelectedBy
    <2>3. PICK d \in g[2] : e = <<d.match_id, Answer(Model(g[1], v, "candidate"), d), d.outcome>>
      BY <2>2
    <2>4. e[1] = d.match_id /\ e[2][1] = Model(g[1], v, "candidate")
      BY <2>3 DEF Answer
    <2>5. e[2][1].training = g[1]
      BY <2>4 DEF Model
    <2>6. g[1] \subseteq training /\ g[2] \subseteq training
      BY PlannedFold
    <2> QED BY <2>3, <2>4, <2>5, <2>6
  <1>2. model.training = training
    BY DEF PooledModel, Model
  <1> HIDE DEF model, training
  <1>3. model.training \cup UNION {e[2][1].training : e \in model.strength} \subseteq training
    BY <1>1, <1>2
  <1>4. {e[1] : e \in model.strength} \subseteq {d.match_id : d \in training}
    BY <1>1
  <1> QED BY <1>3, <1>4 DEF Seen, model, training

\* Each draft is asked once, in its own fold, of a model that has seen the others.
LEMMA PooledIsHeldOut ==
  ASSUME NEW corpora, ~Pooled(corpora).raises,
         \A d, e \in PooledDrafts(corpora) : d.match_id = e.match_id => d = e
  PROVE  /\ \A a \in Pooled(corpora).answers : a[1] \notin Seen(a[3][1])
         /\ \A d \in PooledDrafts(corpora), v \in Variants :
               Cardinality({a \in Pooled(corpora).answers : a[1] = d.match_id /\ a[2] = v}) = 1
  <1> DEFINE rows == PooledDrafts(corpora)
             answer(f, v, d) == <<d.match_id, v, Answer(PooledModel(f, v), d)>>
             answers == Pooled(corpora).answers
  <1>1. answers = UNION {UNION {{answer(f, v, d) : d \in f[2]} : v \in Variants} :
                            f \in PlannedFolds(rows)}
    BY DEF Pooled, PooledAnswers, PlannedFolds
  <1> HIDE DEF rows, answers
  <1>2. \A a : a \in answers <=> \E f \in PlannedFolds(rows), v \in Variants : \E d \in f[2] :
                                    a = answer(f, v, d)
    BY <1>1
  <1>3. ASSUME NEW a \in answers PROVE a[1] \notin Seen(a[3][1])
    <2>1. PICK f \in PlannedFolds(rows), v \in Variants : \E d \in f[2] : a = answer(f, v, d)
      BY <1>2, <1>3
    <2>2. PICK d \in f[2] : a = answer(f, v, d)
      BY <2>1
    <2>3. a[1] = d.match_id /\ a[3][1] = PooledModel(f, v)
      BY <2>2 DEF Answer
    <2>4. Seen(PooledModel(f, v)) \subseteq {e.match_id : e \in f[1]}
      BY SeenInTraining
    <2>5. \A e \in f[1] : e.match_id # d.match_id
      BY PlannedFold
    <2> QED BY <2>3, <2>4, <2>5
  <1>4. ASSUME NEW d \in rows, NEW v \in Variants
        PROVE  Cardinality({a \in answers : a[1] = d.match_id /\ a[2] = v}) = 1
    <2> DEFINE k == FoldPlan(rows)[d.match_id]
               f == <<{e \in rows : FoldPlan(rows)[e.match_id] # k},
                      {e \in rows : FoldPlan(rows)[e.match_id] = k}>>
    <2>1. k \in 0..SelectionFolds - 1
      BY DEF Pooled, PlanFails, rows
    <2>2. f \in PlannedFolds(rows) /\ d \in f[2]
      BY <2>1, PlannedFold
    <2>3. ASSUME NEW g \in PlannedFolds(rows), d \in g[2] PROVE g = f
      BY <2>3, PlannedFold
    <2> HIDE DEF f, k
    <2>4. answer(f, v, d) \in answers
      BY <1>2, <2>2
    <2>5. ASSUME NEW a \in answers, a[1] = d.match_id, a[2] = v PROVE a = answer(f, v, d)
      <3>1. PICK g \in PlannedFolds(rows), w \in Variants : \E e \in g[2] : a = answer(g, w, e)
        BY <1>2, <2>5
      <3>2. PICK e \in g[2] : a = answer(g, w, e)
        BY <3>1
      <3>3. e.match_id = d.match_id /\ w = v
        BY <2>5, <3>2
      <3>4. e \in rows
        BY PlannedFold
      <3>5. e = d
        BY <3>3, <3>4 DEF rows
      <3>6. g = f
        BY <2>3, <3>5
      <3> QED BY <3>2, <3>3, <3>5, <3>6
    <2>6. answer(f, v, d)[1] = d.match_id /\ answer(f, v, d)[2] = v
      OBVIOUS
    <2>7. {a \in answers : a[1] = d.match_id /\ a[2] = v} = {answer(f, v, d)}
      BY <2>4, <2>5, <2>6
    <2> QED BY <2>7, FS_Singleton
  <1> QED BY <1>3, <1>4 DEF rows, answers

\* The answers of a fold of a plan, one for each draft of it and each variant.
LEMMA AnswersOfFold ==
  ASSUME NEW rows, NEW plan, NEW k \in 0..SelectionFolds - 1
  PROVE  LET f == <<{d \in rows : plan[d.match_id] # k}, {d \in rows : plan[d.match_id] = k}>>
         IN  AnswersOf(PooledAnswers(rows, plan), plan, k) =
               UNION {{<<d.match_id, v, Answer(PooledModel(f, v), d)>> : d \in f[2]} :
                         v \in Variants}
  <1> DEFINE Fold(i) == <<{d \in rows : plan[d.match_id] # i}, {d \in rows : plan[d.match_id] = i}>>
             answer(i, v, d) == <<d.match_id, v, Answer(PooledModel(Fold(i), v), d)>>
  <1>1. Partitions(rows, plan) = {Fold(i) : i \in 0..SelectionFolds - 1}
    BY DEF Partitions, Parts
  <1>2. \A i : \A d \in Fold(i)[2] : plan[d.match_id] = i
    OBVIOUS
  <1> HIDE DEF Fold
  <1>3. \A a : a \in PooledAnswers(rows, plan) <=>
              \E i \in 0..SelectionFolds - 1, v \in Variants : \E d \in Fold(i)[2] :
                 a = answer(i, v, d)
    BY <1>1 DEF PooledAnswers
  <1>4. \A i, v, d : answer(i, v, d)[1] = d.match_id
    OBVIOUS
  <1> HIDE DEF answer
  <1>5. \A a : a \in AnswersOf(PooledAnswers(rows, plan), plan, k) <=>
              \E v \in Variants : \E d \in Fold(k)[2] : a = answer(k, v, d)
    BY <1>2, <1>3, <1>4 DEF AnswersOf
  <1>6. AnswersOf(PooledAnswers(rows, plan), plan, k) =
          UNION {{answer(k, v, d) : d \in Fold(k)[2]} : v \in Variants}
    BY <1>5
  <1> QED BY <1>6 DEF answer, Fold

\* Outcomes that are turned round within a fold leave the others as they are, and what a
\* draft of the fold is asked about.
LEMMA PooledIsBlind ==
  ASSUME NEW rows, NEW plan, NEW k \in 0..SelectionFolds - 1,
         \A d \in rows : {"match_id", "allied", "opposing"} \subseteq DOMAIN d
  PROVE  AnswersOf(PooledAnswers(TurnedFold(rows, plan, k), plan), plan, k)
           = AnswersOf(PooledAnswers(rows, plan), plan, k)
  <1> DEFINE Turn(d) == IF plan[d.match_id] = k THEN [d EXCEPT !.outcome = ~@] ELSE d
             turned == TurnedFold(rows, plan, k)
             f == <<{d \in rows : plan[d.match_id] # k}, {d \in rows : plan[d.match_id] = k}>>
             g == <<{d \in turned : plan[d.match_id] # k}, {d \in turned : plan[d.match_id] = k}>>
  <1>1. \A d \in rows : /\ Turn(d).match_id = d.match_id /\ Turn(d).allied = d.allied
                        /\ Turn(d).opposing = d.opposing
    OBVIOUS
  <1>2. \A d : plan[d.match_id] # k => Turn(d) = d
    OBVIOUS
  <1>3. turned = {Turn(d) : d \in rows}
    BY DEF TurnedFold
  <1> HIDE DEF Turn, turned
  <1>4. g[1] = f[1]
    BY <1>1, <1>2, <1>3
  <1>5. g[2] = {Turn(d) : d \in f[2]} /\ f[2] \subseteq rows
    BY <1>1, <1>3
  <1> HIDE DEF f, g
  <1>6. \A v : PooledModel(g, v) = PooledModel(f, v)
    BY <1>4 DEF PooledModel
  <1>7. \A v : {<<d.match_id, v, Answer(PooledModel(g, v), d)>> : d \in g[2]}
               = {<<d.match_id, v, Answer(PooledModel(f, v), d)>> : d \in f[2]}
    <2> TAKE v
    <2>1. \A d \in f[2] : /\ Turn(d).match_id = d.match_id
                          /\ Answer(PooledModel(f, v), Turn(d)) = Answer(PooledModel(f, v), d)
      BY <1>1, <1>5, AlikeDrafts
    <2> QED BY <1>5, <1>6, <2>1
  <1>8. UNION {{<<d.match_id, v, Answer(PooledModel(g, v), d)>> : d \in g[2]} : v \in Variants}
          = UNION {{<<d.match_id, v, Answer(PooledModel(f, v), d)>> : d \in f[2]} : v \in Variants}
    BY <1>7
  <1>9. AnswersOf(PooledAnswers(rows, plan), plan, k) =
          UNION {{<<d.match_id, v, Answer(PooledModel(f, v), d)>> : d \in f[2]} : v \in Variants}
    BY AnswersOfFold DEF f
  <1>10. AnswersOf(PooledAnswers(turned, plan), plan, k) =
          UNION {{<<d.match_id, v, Answer(PooledModel(g, v), d)>> : d \in g[2]} : v \in Variants}
    <2> HIDE DEF turned
    <2> QED BY AnswersOfFold DEF g
  <1> QED BY <1>8, <1>9, <1>10 DEF turned

-----------------------------------------------------------------------------
(* The backtest.                                                           *)

\* An observation with its outcome turned round when it is not before a patch.
Flip(o, e) == IF o.public_patch < e THEN o ELSE [o EXCEPT !.win = ~@]

Flipped(rows, e) == {Flip(o, e) : o \in rows}

SameButOutcome(p, o) ==
    /\ p.match_id = o.match_id /\ p.participant_id = o.participant_id
    /\ p.public_patch = o.public_patch /\ p.team_id = o.team_id
    /\ p.champion_id = o.champion_id /\ p.analysis_position = o.analysis_position
    /\ p.lane_opponent = o.lane_opponent /\ p.role_eligible = o.role_eligible
    /\ p.matchup_eligible = o.matchup_eligible /\ p.synergy_eligible = o.synergy_eligible

\* Turning rows round changes neither who meets whom nor who stands beside whom.
LEMMA FlippedOpponents ==
  ASSUME NEW rows, NEW e, \A o \in rows : SameButOutcome(Flip(o, e), o), NEW o \in rows
  PROVE  /\ ResolvedOpponent(Flipped(rows, e), Flip(o, e))
              = Flipped(ResolvedOpponent(rows, o), e)
         /\ EligibleAllies(Flipped(rows, e), Flip(o, e)) = Flipped(EligibleAllies(rows, o), e)
         /\ Role(Flip(o, e)) = Role(o)
  BY DEF Flipped, ResolvedOpponent, EligibleAllies, Role, SameButOutcome

\* The policies are fitted on rows that are not turned, and on their matches.
LEMMA FlippedFit ==
  ASSUME NEW rows, NEW e, \A o \in rows : SameButOutcome(Flip(o, e), o), NEW split,
         \A o \in rows : o.match_id \in split.training_ids => Flip(o, e) = o
  PROVE  Fit(Flipped(rows, e), split) = Fit(rows, split)
  <1> DEFINE turned == Flipped(rows, e)
             training(R) == {o \in R : /\ o.match_id \in split.training_ids
                                       /\ o.role_eligible /\ o.analysis_position # Missing}
             against(R) == {q \in training(R) \X R : /\ q[1].matchup_eligible
                                                     /\ q[2] \in ResolvedOpponent(R, q[1])}
             beside(R) == {q \in training(R) \X R : /\ q[1].synergy_eligible
                                                    /\ q[2] \in EligibleAllies(R, q[1])}
             counts(pairs) ==
               [k \in {<<Role(q[1]), Role(q[2])>> : q \in pairs} |->
                   Record({q[1] : q \in {x \in pairs : <<Role(x[1]), Role(x[2])>> = k}})]
             made(t, a, b) ==
               [global |-> Record(t),
                role |-> [k \in {Role(o) : o \in t} |-> Record({o \in t : Role(o) = k})],
                matchup |-> counts(a), synergy |-> counts(b)]
  <1>1. Fit(rows, split) = made(training(rows), against(rows), beside(rows))
    BY DEF Fit
  <1>2. Fit(turned, split) = made(training(turned), against(turned), beside(turned))
    BY DEF Fit
  <1>3. training(turned) = training(rows)
    BY DEF SameButOutcome, Flipped
  <1>4. \A o \in training(rows) : ResolvedOpponent(turned, o) = ResolvedOpponent(rows, o)
    BY DEF ResolvedOpponent, SameButOutcome, Flipped
  <1>5. \A o \in training(rows) : EligibleAllies(turned, o) = EligibleAllies(rows, o)
    BY DEF EligibleAllies, SameButOutcome, Flipped
  <1>6. \A o, p : p \in ResolvedOpponent(rows, o) \cup EligibleAllies(rows, o) => p \in rows
    BY DEF EligibleAllies, ResolvedOpponent
  <1>7. \A o, p : p \in ResolvedOpponent(turned, o) \cup EligibleAllies(turned, o) => p \in turned
    BY DEF EligibleAllies, ResolvedOpponent
  <1> HIDE DEF turned, training, made
  <1>8. against(turned) = against(rows)
    BY <1>3, <1>4, <1>6, <1>7
  <1>9. beside(turned) = beside(rows)
    BY <1>3, <1>5, <1>6, <1>7
  <1> HIDE DEF against, beside
  <1>10. Fit(turned, split) = Fit(rows, split)
    BY <1>1, <1>2, <1>3, <1>8, <1>9
  <1> QED BY <1>10 DEF turned

\* An answer is the same for a turned row among turned rows.
LEMMA FlippedPrediction ==
  ASSUME NEW rows, NEW e, \A o \in rows : SameButOutcome(Flip(o, e), o),
         NEW o \in rows, NEW fitted, NEW policy \in Policies
  PROVE  Predict(policy, Flipped(rows, e), fitted, Flip(o, e))
           = Predict(policy, rows, fitted, o)
  <1> DEFINE turned == Flipped(rows, e)
             against == ResolvedOpponent(rows, o)
             beside == EligibleAllies(rows, o)
             pairs(stats, s) ==
               {<<Baseline(fitted, o), StatOf(stats, <<Role(o), Role(p)>>)>> : p \in s}
  <1>1. /\ ResolvedOpponent(turned, Flip(o, e)) = Flipped(against, e)
        /\ EligibleAllies(turned, Flip(o, e)) = Flipped(beside, e)
        /\ Role(Flip(o, e)) = Role(o)
    BY FlippedOpponents
  <1>2. \A p \in against \cup beside : Role(Flip(p, e)) = Role(p)
    <2>1. against \cup beside \subseteq rows
      BY DEF ResolvedOpponent, EligibleAllies
    <2> QED BY <2>1 DEF Role, SameButOutcome
  <1>3. Baseline(fitted, Flip(o, e)) = Baseline(fitted, o)
    BY <1>1 DEF Baseline
  <1>4. SameButOutcome(Flip(o, e), o)
    OBVIOUS
  <1> HIDE DEF turned, against, beside
  <1>5. \A stats :
          /\ {<<Baseline(fitted, Flip(o, e)), StatOf(stats, <<Role(Flip(o, e)), Role(p)>>)>> :
                 p \in Flipped(against, e)} = pairs(stats, against)
          /\ {<<Baseline(fitted, Flip(o, e)), StatOf(stats, <<Role(Flip(o, e)), Role(p)>>)>> :
                 p \in Flipped(beside, e)} = pairs(stats, beside)
    BY <1>1, <1>2, <1>3 DEF Flipped
  <1>6. MatchupPrediction(turned, fitted, Flip(o, e)) = MatchupPrediction(rows, fitted, o)
    <2>1. CASE ~o.matchup_eligible
      BY <1>4, <2>1 DEF MatchupPrediction, SameButOutcome
    <2>2. CASE o.matchup_eligible /\ against = {}
      BY <1>1, <1>4, <2>2 DEF MatchupPrediction, SameButOutcome, against, Flipped
    <2>3. CASE o.matchup_eligible /\ against # {}
      <3>1. ResolvedOpponent(turned, Flip(o, e)) # {}
        BY <1>1, <2>3 DEF Flipped
      <3>2. Flip(o, e).matchup_eligible
        BY <1>4, <2>3 DEF SameButOutcome
      <3>3. MatchupPrediction(rows, fitted, o) = Answered(pairs(fitted.matchup, against))
        BY <2>3 DEF MatchupPrediction, against
      <3>4. MatchupPrediction(turned, fitted, Flip(o, e)) =
              Answered({<<Baseline(fitted, Flip(o, e)),
                          StatOf(fitted.matchup, <<Role(Flip(o, e)), Role(p)>>)>> :
                            p \in Flipped(against, e)})
        BY <1>1, <3>1, <3>2 DEF MatchupPrediction
      <3> QED BY <1>5, <3>3, <3>4
    <2> QED BY <2>1, <2>2, <2>3
  <1>7. SynergyPrediction(turned, fitted, Flip(o, e)) = SynergyPrediction(rows, fitted, o)
    <2>1. CASE ~o.synergy_eligible
      BY <1>4, <2>1 DEF SynergyPrediction, SameButOutcome
    <2>2. CASE o.synergy_eligible /\ beside = {}
      BY <1>1, <1>4, <2>2 DEF SynergyPrediction, SameButOutcome, beside, Flipped
    <2>3. CASE o.synergy_eligible /\ beside # {}
      <3>1. EligibleAllies(turned, Flip(o, e)) # {}
        BY <1>1, <2>3 DEF Flipped
      <3>2. Flip(o, e).synergy_eligible
        BY <1>4, <2>3 DEF SameButOutcome
      <3>3. SynergyPrediction(rows, fitted, o) = Answered(pairs(fitted.synergy, beside))
        BY <2>3 DEF SynergyPrediction, beside
      <3>4. SynergyPrediction(turned, fitted, Flip(o, e)) =
              Answered({<<Baseline(fitted, Flip(o, e)),
                          StatOf(fitted.synergy, <<Role(Flip(o, e)), Role(p)>>)>> :
                            p \in Flipped(beside, e)})
        BY <1>1, <3>1, <3>2 DEF SynergyPrediction
      <3> QED BY <1>5, <3>3, <3>4
    <2> QED BY <2>1, <2>2, <2>3
  <1>8. Predict(policy, turned, fitted, Flip(o, e)) = Predict(policy, rows, fitted, o)
    <2> DEFINE chosen(unfit, matchup, synergy, role) ==
                 IF unfit THEN Evidence("role_ineligible", {})
                 ELSE CASE policy = "naive_empirical" -> Answered({fitted.global})
                        [] policy = "champion_role_baseline" ->
                              IF role \in DOMAIN fitted.role
                              THEN Answered({fitted.role[role]})
                              ELSE Evidence("unseen_champion_role", {})
                        [] policy = "shrunk_directional_matchup" -> matchup
                        [] policy = "shrunk_directional_synergy" -> synergy
                        [] policy = "matchup_synergy_combination" ->
                              CASE matchup.missing # "none" -> matchup
                                [] matchup.missing = "none" /\ synergy.missing # "none" -> synergy
                                [] matchup.missing = "none" /\ synergy.missing = "none" ->
                                      Answered(matchup.evidence \cup synergy.evidence)
    <2>1. Predict(policy, turned, fitted, Flip(o, e)) =
            chosen(~Flip(o, e).role_eligible \/ Flip(o, e).analysis_position = Missing,
                   MatchupPrediction(turned, fitted, Flip(o, e)),
                   SynergyPrediction(turned, fitted, Flip(o, e)), Role(Flip(o, e)))
      BY Zenon DEF Predict
    <2>2. Predict(policy, rows, fitted, o) =
            chosen(~o.role_eligible \/ o.analysis_position = Missing,
                   MatchupPrediction(rows, fitted, o), SynergyPrediction(rows, fitted, o), Role(o))
      BY Zenon DEF Predict
    <2>3. (~Flip(o, e).role_eligible \/ Flip(o, e).analysis_position = Missing)
            <=> (~o.role_eligible \/ o.analysis_position = Missing)
      BY <1>4 DEF SameButOutcome
    <2>4. ASSUME NEW u1 \in BOOLEAN, NEW u2 \in BOOLEAN, u1 = u2, NEW m, NEW n, NEW r
          PROVE  chosen(u1, m, n, r) = chosen(u2, m, n, r)
      BY <2>4
    <2> HIDE DEF chosen
    <2> QED BY <1>1, <1>6, <1>7, <2>1, <2>2, <2>3, <2>4
  <1> QED BY <1>8 DEF turned

\* What is predicted for a split does not depend on the outcomes of turned rows.
LEMMA FlippedPredictions ==
  ASSUME NEW rows, NEW e, \A o \in rows : SameButOutcome(Flip(o, e), o), NEW split,
         \A o \in rows : o.match_id \in split.training_ids => Flip(o, e) = o
  PROVE  Predictions(Flipped(rows, e), split) = Predictions(rows, split)
  <1> DEFINE turned == Flipped(rows, e)
             asked(R) == {o \in R : o.match_id \in split.evaluation_ids}
             line(R, fitted, o, policy) ==
               [match_id |-> o.match_id, participant_id |-> o.participant_id,
                policy |-> policy, answer |-> Predict(policy, R, fitted, o)]
             lines(R, fitted) ==
               UNION {{line(R, fitted, o, policy) : policy \in Policies} : o \in asked(R)}
             fitted == Fit(rows, split)
  <1>1. Fit(turned, split) = fitted
    BY FlippedFit
  <1>2. \A R : Predictions(R, split) =
                 IF Fit(R, split).global[2] = 0 THEN {} ELSE lines(R, Fit(R, split))
    BY DEF Predictions
  <1>4. asked(turned) = {Flip(o, e) : o \in asked(rows)}
    BY DEF SameButOutcome, Flipped
  <1> HIDE DEF fitted
  <1>5. ASSUME NEW o \in rows, NEW policy \in Policies
        PROVE  line(turned, fitted, Flip(o, e), policy) = line(rows, fitted, o, policy)
    BY FlippedPrediction DEF SameButOutcome
  <1> HIDE DEF turned, line
  <1>6. {{line(turned, fitted, o, policy) : policy \in Policies} : o \in asked(turned)}
          = {{line(rows, fitted, o, policy) : policy \in Policies} : o \in asked(rows)}
    <2>1. \A o \in asked(rows) :
            {line(turned, fitted, Flip(o, e), policy) : policy \in Policies}
              = {line(rows, fitted, o, policy) : policy \in Policies}
      BY <1>5
    <2> DEFINE set(o) == {line(rows, fitted, o, policy) : policy \in Policies}
               set2(o) == {line(turned, fitted, o, policy) : policy \in Policies}
               old == asked(rows)
               new == asked(turned)
    <2>2. \A o \in old : set2(Flip(o, e)) = set(o)
      BY <2>1
    <2>3. new = {Flip(o, e) : o \in old}
      BY <1>4
    <2> HIDE DEF set, set2, old, new
    <2>4. {set2(o) : o \in new} = {set(o) : o \in old}
      BY <2>2, <2>3
    <2> QED BY <2>4 DEF set, set2, old, new
  <1>7. lines(turned, fitted) = lines(rows, fitted)
    BY <1>6
  <1> HIDE DEF lines
  <1>8. Predictions(turned, split) = Predictions(rows, split)
    BY <1>1, <1>2, <1>7 DEF fitted
  <1> QED BY <1>8 DEF turned

\* The matches a split trains on are of patches before the one it evaluates.
LEMMA TrainsBefore ==
  ASSUME NEW data, Coherent(data), NEW e, NEW split \in FoldSplits(data, e)
  PROVE  \A o \in data.participants : o.match_id \in split.training_ids => Flip(o, e) = o
  <1> TAKE o \in data.participants
  <1> HAVE o.match_id \in split.training_ids
  <1>1. PICK c \in data.contexts : o.match_id = c.match_id /\ c.public_patch < e
    BY DEF FoldSplits
  <1> QED BY <1>1 DEF Coherent, Flip

-----------------------------------------------------------------------------
(* The composition models.                                                 *)

\* Observations that can be turned round: finitely many, still different afterwards.
Turnable(rows, e) ==
    /\ IsFiniteSet(rows)
    /\ \A o \in rows : SameButOutcome(Flip(o, e), o)
    /\ \A o, p \in rows : Flip(o, e) = Flip(p, e) => o = p

\* Turned observations are as many as before.
LEMMA FlippedSize ==
  ASSUME NEW rows, NEW e, Turnable(rows, e)
  PROVE  Cardinality(Flipped(rows, e)) = Cardinality(rows)
  <1> DEFINE f == [o \in rows |-> Flip(o, e)]
  <1>1. f \in Bijection(rows, Flipped(rows, e))
    <2>1. f \in [rows -> Flipped(rows, e)]
      BY DEF Flipped
    <2>2. \A o, p \in rows : f[o] = f[p] => o = p
      BY DEF Turnable
    <2>3. \A t \in Flipped(rows, e) : \E o \in rows : f[o] = t
      BY DEF Flipped
    <2> HIDE DEF f
    <2> QED BY <2>1, <2>2, <2>3 DEF Bijection, Injection, Surjection, IsInjective
  <1>2. ExistsBijection(rows, Flipped(rows, e))
    BY <1>1 DEF ExistsBijection
  <1> QED BY <1>2, FS_Bijection DEF Turnable

\* The teams of turned observations are the turned teams.
LEMMA FlippedTeams ==
  ASSUME NEW rows, NEW e, Turnable(rows, e)
  PROVE  /\ TeamIds(Flipped(rows, e)) = TeamIds(rows)
         /\ \A id : /\ Team(Flipped(rows, e), id) = Flipped(Team(rows, id), e)
                    /\ Turnable(Team(rows, id), e)
  <1>1. TeamIds(Flipped(rows, e)) = TeamIds(rows)
    BY DEF TeamIds, Flipped, Turnable, SameButOutcome
  <1>2. ASSUME NEW id PROVE Team(Flipped(rows, e), id) = Flipped(Team(rows, id), e)
    BY DEF Team, Flipped, Turnable, SameButOutcome
  <1>3. ASSUME NEW id PROVE Turnable(Team(rows, id), e)
    <2>1. Team(rows, id) \in SUBSET rows
      BY DEF Team
    <2>2. IsFiniteSet(Team(rows, id))
      BY <2>1, FS_Subset DEF Turnable
    <2> QED BY <2>1, <2>2 DEF Turnable
  <1> QED BY <1>1, <1>2, <1>3

\* A match is complete whichever side won.
LEMMA FlippedComplete ==
  ASSUME NEW rows, NEW e, Turnable(rows, e)
  PROVE  Complete(Flipped(rows, e)) <=> Complete(rows)
  <1>1. \A id : Cardinality(Team(Flipped(rows, e), id)) = Cardinality(Team(rows, id))
    BY FlippedTeams, FlippedSize
  <1>2. EvenTeams(Flipped(rows, e)) <=> EvenTeams(rows)
    BY <1>1, FlippedTeams, FlippedSize DEF EvenTeams
  <1>3. (\A o \in Flipped(rows, e) : o.role_eligible) <=> (\A o \in rows : o.role_eligible)
    BY DEF Flipped, Turnable, SameButOutcome
  <1>4. \A id : {o.analysis_position : o \in Team(Flipped(rows, e), id)}
                  = {o.analysis_position : o \in Team(rows, id)}
    <2> TAKE id
    <2>1. \A o \in Team(rows, id) : Flip(o, e).analysis_position = o.analysis_position
      BY DEF Team, Turnable, SameButOutcome
    <2>2. Team(Flipped(rows, e), id) = Flipped(Team(rows, id), e)
      BY FlippedTeams
    <2>3. {o.analysis_position : o \in Flipped(Team(rows, id), e)}
            = {o.analysis_position : o \in Team(rows, id)}
      BY <2>1 DEF Flipped
    <2> QED BY <2>2, <2>3
  <1> QED BY <1>2, <1>3, <1>4, FlippedTeams DEF Complete

\* In a complete team a position is one member's.
LEMMA OnePerPosition ==
  ASSUME NEW team, IsFiniteSet(team), Cardinality(team) = TeamSize,
         {o.analysis_position : o \in team} = Positions
  PROVE  \A o, p \in team : o.analysis_position = p.analysis_position => o = p
  <1> DEFINE f == [o \in team |-> o.analysis_position]
  <1>1. f \in [team -> Positions] /\ \A t \in Positions : \E o \in team : f[o] = t
    OBVIOUS
  <1>2. DOMAIN f = team /\ \A o \in team : f[o] = o.analysis_position
    OBVIOUS
  <1> HIDE DEF f
  <1>3. f \in Surjection(team, Positions)
    BY <1>1 DEF Surjection
  <1>4. Cardinality(Positions) = Cardinality(team)
    BY CompositionAssumption
  <1>5. f \in Injection(team, Positions)
    BY <1>3, <1>4, FS_Surjection
  <1> QED BY <1>2, <1>5 DEF Injection, IsInjective

\* A turned team has the same champions in its positions.
LEMMA FlippedAssignments ==
  ASSUME NEW rows, NEW e, Turnable(rows, e), Complete(rows), NEW id
  PROVE  Assignments(Team(Flipped(rows, e), id)) = Assignments(Team(rows, id))
  <1> DEFINE team == Team(rows, id)
  <1>1. Team(Flipped(rows, e), id) = Flipped(team, e) /\ Turnable(team, e)
    BY FlippedTeams
  <1>2. CASE id \notin TeamIds(rows)
    <2>1. team = {} /\ Flipped(team, e) = {}
      BY <1>2 DEF Team, TeamIds, Flipped
    <2> QED BY <1>1, <2>1
  <1>3. CASE id \in TeamIds(rows)
    <2>1. Cardinality(team) = TeamSize /\ {o.analysis_position : o \in team} = Positions
      BY <1>3 DEF Complete, EvenTeams
    <2>2. \A o, p \in team : o.analysis_position = p.analysis_position => o = p
      BY <1>1, <2>1, OnePerPosition DEF Turnable
    <2> HIDE DEF team
    <2>3. ASSUME NEW p \in Positions
          PROVE  (CHOOSE o \in Flipped(team, e) : o.analysis_position = p).champion_id
                   = (CHOOSE o \in team : o.analysis_position = p).champion_id
      <3> DEFINE x == CHOOSE o \in Flipped(team, e) : o.analysis_position = p
                 z == CHOOSE o \in team : o.analysis_position = p
      <3>1. PICK w \in team : w.analysis_position = p
        BY <2>1
      <3>2. z \in team /\ z.analysis_position = p
        BY <3>1
      <3>3. Flip(w, e) \in Flipped(team, e) /\ Flip(w, e).analysis_position = p
        BY <1>1, <3>1 DEF Flipped, Turnable, SameButOutcome
      <3>4. x \in Flipped(team, e) /\ x.analysis_position = p
        BY <3>3
      <3> HIDE DEF x, z
      <3>5. PICK y \in team : x = Flip(y, e)
        BY <3>4 DEF Flipped
      <3>6. y.analysis_position = p /\ x.champion_id = y.champion_id
        BY <1>1, <3>4, <3>5 DEF Turnable, SameButOutcome
      <3>7. y = z
        BY <2>2, <3>2, <3>6
      <3> QED BY <3>6, <3>7 DEF x, z
    <2>4. [p \in Positions |-> (CHOOSE o \in Flipped(team, e) : o.analysis_position = p).champion_id]
            = [p \in Positions |-> (CHOOSE o \in team : o.analysis_position = p).champion_id]
      BY <2>3
    <2> QED BY <1>1, <2>4 DEF Assignments, team
  <1> QED BY <1>2, <1>3

\* The draft of a complete match whose rows agree on the match and the patch.
LEMMA FlippedDraft ==
  ASSUME NEW rows, NEW e, Turnable(rows, e), Complete(rows), NEW platform,
         \A o, p \in rows : o.match_id = p.match_id /\ o.public_patch = p.public_patch
  PROVE  LET d == MatchDraft(rows, platform)
             t == MatchDraft(Flipped(rows, e), platform)
         IN  /\ t.match_id = d.match_id /\ t.public_patch = d.public_patch
             /\ t.allied = d.allied /\ t.opposing = d.opposing
             /\ \A o \in rows : d.match_id = o.match_id /\ d.public_patch = o.public_patch
  <1> DEFINE some == CHOOSE o \in rows : TRUE
             other == CHOOSE o \in Flipped(rows, e) : TRUE
             d == MatchDraft(rows, platform)
             t == MatchDraft(Flipped(rows, e), platform)
  <1>1. rows # {}
    <2>1. Cardinality(rows) # 0
      BY CanonicalAssumption DEF Complete, EvenTeams
    <2> QED BY <2>1, FS_EmptySet
  <1>2. some \in rows
    BY <1>1
  <1>3. other \in Flipped(rows, e)
    BY <1>1 DEF Flipped
  <1> HIDE DEF some, other
  <1>4. other.match_id = some.match_id /\ other.public_patch = some.public_patch
    BY <1>2, <1>3 DEF Flipped, Turnable, SameButOutcome
  <1>5. TeamIds(Flipped(rows, e)) = TeamIds(rows)
    BY FlippedTeams
  <1>6. /\ d.match_id = some.match_id /\ d.public_patch = some.public_patch
        /\ d.allied = Assignments(Team(rows, Min(TeamIds(rows))))
        /\ d.opposing = Assignments(Team(rows, Max(TeamIds(rows))))
    BY DEF MatchDraft, some
  <1>7. /\ t.match_id = other.match_id /\ t.public_patch = other.public_patch
        /\ t.allied = Assignments(Team(Flipped(rows, e), Min(TeamIds(rows))))
        /\ t.opposing = Assignments(Team(Flipped(rows, e), Max(TeamIds(rows))))
    BY <1>5 DEF MatchDraft, other
  <1> HIDE DEF d, t
  <1>8. t.allied = d.allied /\ t.opposing = d.opposing
    BY <1>6, <1>7, FlippedAssignments
  <1>9. \A o \in rows : d.match_id = o.match_id /\ d.public_patch = o.public_patch
    BY <1>2, <1>6
  <1> QED BY <1>4, <1>6, <1>7, <1>8, <1>9 DEF d, t

\* The drafts of a training patch before the turned one are what they were, and those
\* of the turned patch are the same picks.
LEMMA FlippedCorpus ==
  ASSUME NEW data, NEW turned, Coherent(data), Turnable(data.participants, EvaluationPatch),
         turned.contexts = data.contexts,
         turned.participants = Flipped(data.participants, EvaluationPatch),
         NEW platform
  PROVE  LET old == Corpus(data, platform).rows
             new == Corpus(turned, platform).rows
         IN  /\ {d \in new : d.public_patch = TrainingPatch}
                  = {d \in old : d.public_patch = TrainingPatch}
             /\ \A d \in old : \E t \in new :
                   /\ t.match_id = d.match_id /\ t.public_patch = d.public_patch
                   /\ t.allied = d.allied /\ t.opposing = d.opposing
             /\ \A t \in new : \E d \in old :
                   /\ t.match_id = d.match_id /\ t.public_patch = d.public_patch
                   /\ t.allied = d.allied /\ t.opposing = d.opposing
  <1> DEFINE e == EvaluationPatch
             ids == {c.match_id : c \in data.contexts}
             rows(id) == RowsOf(data, id)
             draft(id) == MatchDraft(rows(id), platform)
             turn(id) == MatchDraft(Flipped(rows(id), e), platform)
             complete == {id \in ids : Complete(rows(id))}
             old == Corpus(data, platform).rows
             new == Corpus(turned, platform).rows
  <1>1. ASSUME NEW id PROVE RowsOf(turned, id) = Flipped(rows(id), e)
    BY DEF RowsOf, Flipped, Turnable, SameButOutcome
  <1>2. ASSUME NEW id PROVE Turnable(rows(id), e)
    <2>1. rows(id) \in SUBSET data.participants
      BY DEF RowsOf
    <2>2. IsFiniteSet(rows(id))
      BY <2>1, FS_Subset DEF Turnable
    <2> QED BY <2>1, <2>2 DEF Turnable
  <1>3. ASSUME NEW id \in ids
        PROVE  \A o, p \in rows(id) : o.match_id = p.match_id /\ o.public_patch = p.public_patch
    BY DEF RowsOf, Coherent
  <1>4. old = {draft(id) : id \in complete}
    BY CorpusRows
  <1>5. new = {turn(id) : id \in complete}
    <2>1. new = {MatchDraft(RowsOf(turned, id), platform) :
                    id \in {i \in ids : Complete(RowsOf(turned, i))}}
      BY CorpusRows
    <2>2. {i \in ids : Complete(RowsOf(turned, i))} = complete
      BY <1>1, <1>2, FlippedComplete
    <2>3. \A id : MatchDraft(RowsOf(turned, id), platform) = turn(id)
      BY <1>1
    <2> HIDE DEF complete, turn, ids, new
    <2> QED BY <2>1, <2>2, <2>3
  <1>6. ASSUME NEW id \in complete
        PROVE  /\ turn(id).match_id = draft(id).match_id
               /\ turn(id).public_patch = draft(id).public_patch
               /\ turn(id).allied = draft(id).allied /\ turn(id).opposing = draft(id).opposing
               /\ \A o \in rows(id) : draft(id).public_patch = o.public_patch
    BY <1>2, <1>3, FlippedDraft
  <1>7. ASSUME NEW id \in complete, draft(id).public_patch = TrainingPatch
        PROVE  turn(id) = draft(id)
    <2>1. \A o \in rows(id) : Flip(o, e) = o
      BY <1>6, <1>7, CompositionAssumption DEF Flip
    <2>2. Flipped(rows(id), e) = rows(id)
      BY <2>1 DEF Flipped
    <2> QED BY <2>2
  <1> HIDE DEF draft, turn, complete, old, new
  <1>8. {d \in new : d.public_patch = TrainingPatch} = {d \in old : d.public_patch = TrainingPatch}
    BY <1>4, <1>5, <1>6, <1>7
  <1>9. \A d \in old : \E t \in new :
           /\ t.match_id = d.match_id /\ t.public_patch = d.public_patch
           /\ t.allied = d.allied /\ t.opposing = d.opposing
    BY <1>4, <1>5, <1>6
  <1>10. \A t \in new : \E d \in old :
           /\ t.match_id = d.match_id /\ t.public_patch = d.public_patch
           /\ t.allied = d.allied /\ t.opposing = d.opposing
    BY <1>4, <1>5, <1>6
  <1> QED BY <1>8, <1>9, <1>10 DEF old, new

\* No answer about a match depends on who won it, or on who won later.
LEMMA CompositionIsBlind ==
  ASSUME NEW data, NEW turned, Coherent(data), Turnable(data.participants, EvaluationPatch),
         turned.contexts = data.contexts,
         turned.participants = Flipped(data.participants, EvaluationPatch),
         NEW platform
  PROVE  Composition(turned, platform).answers = Composition(data, platform).answers
  <1> DEFINE old == Corpus(data, platform).rows
             new == Corpus(turned, platform).rows
             training(rows) == {d \in rows : d.public_patch = TrainingPatch}
             evaluation(rows) == {d \in rows : d.public_patch = EvaluationPatch}
             fitted(t) == [v \in Variants |-> Model(t, v, SelectedBy(GroupedFolds(t), v))]
             answers(t, d) ==
               [policy \in Variants \cup {"naive_0_5", "champion_role_baseline"} |->
                   CASE policy = "naive_0_5" -> "half"
                     [] policy = "champion_role_baseline" -> RoleAnswer(t, d)
                     [] policy \in Variants -> Answer(fitted(t)[policy], d)]
  <1>1. Composition(data, platform).answers =
          {<<d.match_id, answers(training(old), d)>> : d \in evaluation(old)}
    BY DEF Composition
  <1>2. Composition(turned, platform).answers =
          {<<d.match_id, answers(training(new), d)>> : d \in evaluation(new)}
    BY DEF Composition
  <1>3. /\ training(new) = training(old)
        /\ \A d \in old : \E t \in new :
              /\ t.match_id = d.match_id /\ t.public_patch = d.public_patch
              /\ t.allied = d.allied /\ t.opposing = d.opposing
        /\ \A t \in new : \E d \in old :
              /\ t.match_id = d.match_id /\ t.public_patch = d.public_patch
              /\ t.allied = d.allied /\ t.opposing = d.opposing
    BY FlippedCorpus
  <1> HIDE DEF old, new, fitted
  <1>4. ASSUME NEW t, NEW d, NEW f, d.allied = f.allied, d.opposing = f.opposing
        PROVE  answers(t, d) = answers(t, f)
    <2>1. /\ \A m : Answer(m, d) = Answer(m, f)
          /\ RoleAnswer(t, d) = RoleAnswer(t, f)
      BY <1>4, AlikeDrafts
    <2> QED BY <2>1
  <1> HIDE DEF answers
  <1>5. {<<d.match_id, answers(training(new), d)>> : d \in evaluation(new)}
          = {<<d.match_id, answers(training(old), d)>> : d \in evaluation(old)}
    <2> DEFINE given == training(old)
               said(d) == <<d.match_id, answers(given, d)>>
    <2>1. \A d \in evaluation(new) : \E f \in evaluation(old) : said(d) = said(f)
      BY <1>3, <1>4
    <2>2. \A d \in evaluation(old) : \E f \in evaluation(new) : said(d) = said(f)
      BY <1>3, <1>4
    <2> HIDE DEF said, evaluation
    <2>3. {said(d) : d \in evaluation(new)} = {said(d) : d \in evaluation(old)}
      BY <2>1, <2>2
    <2> QED BY <1>3, <2>3 DEF said
  <1> QED BY <1>1, <1>2, <1>5

-----------------------------------------------------------------------------
(* What the stages make of an accepted population can be turned round.     *)

\* A set of values of a function on a finite set is finite.
LEMMA FiniteImage ==
  ASSUME NEW S, IsFiniteSet(S), NEW f, NEW T, T = {f[x] : x \in S}
  PROVE  IsFiniteSet(T)
  <1> DEFINE g == [x \in S |-> f[x]]
  <1>1. g \in [S -> T] /\ \A t \in T : \E x \in S : g[x] = t
    OBVIOUS
  <1> HIDE DEF g
  <1>2. g \in Surjection(S, T)
    BY <1>1 DEF Surjection
  <1> QED BY <1>2, FS_Surjection

\* Canonical rows are finitely many, with an outcome each and one match of an identifier.
LEMMA SourceCanonical ==
  ASSUME SInv, Published(canonical)
  PROVE  /\ IsFiniteSet(canonical.participants)
         /\ \A r \in canonical.participants : r.win \in BOOLEAN
         /\ \A m, n \in canonical.matches : m.match_id = n.match_id => m = n
  <1> DEFINE good == {a \in Payloads : Transforms(a, Platform)}
             rowsOf(a) == {ParticipantRow(a, r) : r \in a.participants}
  <1>1. /\ canonical.participants = UNION {rowsOf(a) : a \in good}
        /\ canonical.matches = {MatchRow(a) : a \in good}
    BY DEF SInv, StagesAre, Canonical
  <1>2. ASSUME NEW a \in good
        PROVE  /\ IsFiniteSet(a.participants)
               /\ \A r \in a.participants : r.win \in BOOLEAN
    <2>1. PICK c \in approved : c.payload = a
      BY DEF Payloads
    <2>2. c \in Candidates
      BY DEF SInv, Accepted
    <2>3. \A r \in a.participants : r["win"] # Missing
      BY DEF Transforms, CriticalFields
    <2> QED BY <2>1, <2>2, <2>3, CandidatesAssumption
  <1>3. IsFiniteSet(good)
    <2>1. IsFiniteSet(approved)
      BY DEF SInv, Accepted
    <2> DEFINE f == [c \in approved |-> c.payload]
    <2>2. Payloads = {f[c] : c \in approved}
      BY DEF Payloads
    <2> HIDE DEF f
    <2>3. IsFiniteSet(Payloads)
      BY <2>1, <2>2, FiniteImage
    <2>4. good \in SUBSET Payloads
      OBVIOUS
    <2> QED BY <2>3, <2>4, FS_Subset
  <1>4. ASSUME NEW a \in good PROVE IsFiniteSet(rowsOf(a))
    <2> DEFINE f == [r \in a.participants |-> ParticipantRow(a, r)]
    <2>1. rowsOf(a) = {f[r] : r \in a.participants}
      OBVIOUS
    <2> HIDE DEF f, rowsOf, good
    <2> QED BY <1>2, <2>1, FiniteImage
  <1>5. IsFiniteSet({rowsOf(a) : a \in good})
    <2> DEFINE f == [a \in good |-> rowsOf(a)]
               T == {rowsOf(a) : a \in good}
    <2>1. T = {f[a] : a \in good}
      OBVIOUS
    <2> HIDE DEF f, T, good
    <2>2. IsFiniteSet(T)
      BY <1>3, <2>1, FiniteImage
    <2> QED BY <2>2 DEF T
  <1>6. \A m, n \in canonical.matches : m.match_id = n.match_id => m = n
    <2>1. \A a, b \in Payloads : a.match_id = b.match_id => a = b
      BY DEF SInv, Accepted, Payloads
    <2>2. \A a : MatchRow(a).match_id = a.match_id
      BY DEF MatchRow
    <2> QED BY <1>1, <2>1, <2>2
  <1>7. \A r \in canonical.participants : r.win \in BOOLEAN
    <2> TAKE r \in canonical.participants
    <2>1. PICK a \in good : \E q \in a.participants : r = ParticipantRow(a, q)
      BY <1>1
    <2>2. PICK q \in a.participants : r = ParticipantRow(a, q)
      BY <2>1
    <2>3. r.win = q.win
      BY <2>2 DEF ParticipantRow
    <2> QED BY <1>2, <2>3
  <1>8. IsFiniteSet(canonical.participants)
    <2> DEFINE T == {rowsOf(a) : a \in good}
    <2>1. \A t \in T : IsFiniteSet(t)
      BY <1>4
    <2>2. IsFiniteSet(T) /\ canonical.participants = UNION T
      BY <1>1, <1>5
    <2> HIDE DEF T
    <2> QED BY <2>1, <2>2, FS_UNION
  <1> QED BY <1>6, <1>7, <1>8

\* So are the features, which have the patch of their match.
LEMMA SourceFeatures ==
  ASSUME SInv, Published(features)
  PROVE  /\ IsFiniteSet(features.participants)
         /\ \A f \in features.participants : f.win \in BOOLEAN
         /\ Coherent(features)
  <1> DEFINE participantsOf(id) == {r \in canonical.participants : r.match_id = id}
             teamsOf(id) == {t \in canonical.teams : t.match_id = id}
             context(m) == MatchContext(m, participantsOf(m.match_id), teamsOf(m.match_id))
             contexts == {context(m) : m \in canonical.matches}
             contextOf(id) == CHOOSE c \in contexts : c.match_id = id
  <1>1. PICK teamOf : features.participants =
           {ParticipantFeature(contextOf(r.match_id), r, teamOf[r]) :
               r \in canonical.participants}
    <2> DEFINE teams == {TeamFeature(contextOf(t.match_id), t,
                            {r \in participantsOf(t.match_id) : r.team_id = t.team_id}) :
                           t \in canonical.teams}
               teamFor(r) == CHOOSE t \in teams : t.match_id = r.match_id /\ t.team_id = r.team_id
               of == [r \in canonical.participants |-> teamFor(r)]
    <2>1. features.participants =
            {ParticipantFeature(contextOf(r.match_id), r, teamFor(r)) : r \in canonical.participants}
      <3>1. \A n : Analytical(canonical, n).rows.participants =
              {ParticipantFeature(contextOf(r.match_id), r, teamFor(r)) :
                  r \in canonical.participants}
        BY DEF Analytical
      <3> HIDE DEF contextOf, teamFor
      <3> QED BY <3>1 DEF SInv, StagesAre
    <2> HIDE DEF teamFor, contextOf
    <2>2. features.participants =
            {ParticipantFeature(contextOf(r.match_id), r, of[r]) : r \in canonical.participants}
      BY <2>1
    <2> QED BY <2>2 DEF contextOf
  <1>2. features.contexts = contexts
    <2>1. \A n : Analytical(canonical, n).rows.contexts = contexts
      BY DEF Analytical
    <2> HIDE DEF contexts
    <2> QED BY <2>1 DEF SInv, StagesAre
  <1>3. /\ IsFiniteSet(canonical.participants)
        /\ \A r \in canonical.participants : r.win \in BOOLEAN
        /\ \A m, n \in canonical.matches : m.match_id = n.match_id => m = n
    BY SourceCanonical DEF SInv, StagesAre
  <1>4. \A c, d \in contexts : c.match_id = d.match_id => c = d
    <2>1. \A m : context(m).match_id = m.match_id
      BY DEF MatchContext
    <2> HIDE DEF context
    <2> QED BY <1>3, <2>1
  <1>5. \A f \in features.participants : \E r \in canonical.participants :
           /\ f.match_id = r.match_id /\ f.win = r.win
           /\ f.public_patch = contextOf(r.match_id).public_patch
    <2>1. \A c, r, t : /\ ParticipantFeature(c, r, t).match_id = r.match_id
                       /\ ParticipantFeature(c, r, t).win = r.win
                       /\ ParticipantFeature(c, r, t).public_patch = c.public_patch
      BY DEF ParticipantFeature
    <2> HIDE DEF contextOf
    <2> QED BY <1>1, <2>1
  <1>6. Coherent(features)
    <2> SUFFICES ASSUME NEW f \in features.participants, NEW c \in contexts,
                        f.match_id = c.match_id
                 PROVE  f.public_patch = c.public_patch
      BY <1>2 DEF Coherent
    <2>1. PICK r \in canonical.participants :
             f.match_id = r.match_id /\ f.public_patch = contextOf(r.match_id).public_patch
      <3> HIDE DEF contextOf
      <3> QED BY <1>5
    <2> HIDE DEF contexts
    <2>2. contextOf(r.match_id) \in contexts /\ contextOf(r.match_id).match_id = r.match_id
      BY <2>1
    <2>3. contextOf(r.match_id) = c
      BY <1>4, <2>1, <2>2
    <2> QED BY <2>1, <2>3
  <1>7. IsFiniteSet(features.participants)
    <2> DEFINE g == [r \in canonical.participants |->
                        ParticipantFeature(contextOf(r.match_id), r, teamOf[r])]
    <2> HIDE DEF contextOf
    <2>1. features.participants = {g[r] : r \in canonical.participants}
      BY <1>1
    <2> HIDE DEF g
    <2> QED BY <1>3, <2>1, FiniteImage
  <1> QED BY <1>3, <1>5, <1>6, <1>7

IsObservation(o) ==
    o = [match_id |-> o.match_id, participant_id |-> o.participant_id,
         player_key |-> o.player_key, public_patch |-> o.public_patch,
         team_id |-> o.team_id, champion_id |-> o.champion_id, win |-> o.win,
         analysis_position |-> o.analysis_position, allied |-> o.allied, enemy |-> o.enemy,
         lane_opponent |-> o.lane_opponent, resolution |-> o.resolution,
         role_eligible |-> o.role_eligible, matchup_eligible |-> o.matchup_eligible,
         synergy_eligible |-> o.synergy_eligible,
         team_structure_valid |-> o.team_structure_valid]

\* An observation has these fields and the outcome of its feature row.
LEMMA ObservationIsRecord ==
  ASSUME NEW rows, NEW f
  PROVE  IsObservation(Observation(rows, f)) /\ Observation(rows, f).win = f.win
  BY DEF Observation, IsObservation

\* The observations of Stage 3.3A can be turned round.
LEMMA SourceDrafts ==
  ASSUME SInv, Published(drafts)
  PROVE  /\ Coherent(drafts)
         /\ \A e : /\ Turnable(drafts.participants, e)
                   /\ Reversed(e).participants = Flipped(drafts.participants, e)
                   /\ Reversed(e).contexts = drafts.contexts
  <1> DEFINE featuresOf(id) == {f \in features.participants : f.match_id = id}
             seen(f) == Observation(featuresOf(f.match_id), f)
  <1>1. PICK teams, contexts :
           /\ drafts = [participants |-> {seen(f) : f \in features.participants},
                        teams |-> teams, contexts |-> contexts]
           /\ \A c \in contexts : \E d \in features.contexts :
                 c.match_id = d.match_id /\ c.public_patch = d.public_patch
    <2> DEFINE participants == {seen(f) : f \in features.participants}
               observationsOf(id) == {o \in participants : o.match_id = id}
               contextOf(id) == CHOOSE c \in features.contexts : c.match_id = id
               opponentOf(t) == CHOOSE u \in features.teams :
                                   u.match_id = t.match_id /\ u.team_id # t.team_id
               teams == {TeamObservation(contextOf(t.match_id), observationsOf(t.match_id),
                                         t, opponentOf(t)) : t \in features.teams}
               context(c) == DraftContext(c, observationsOf(c.match_id))
               contexts == {context(c) : c \in features.contexts}
    <2>1. drafts = [participants |-> participants, teams |-> teams, contexts |-> contexts]
      <3>1. \A n : DraftDataset(canonical, features, n).rows =
                     [participants |-> participants, teams |-> teams, contexts |-> contexts]
        BY DEF DraftDataset
      <3> HIDE DEF participants, teams, contexts
      <3> QED BY <3>1 DEF SInv, StagesAre
    <2>2. \A c : context(c).match_id = c.match_id /\ context(c).public_patch = c.public_patch
      BY DEF DraftContext
    <2> HIDE DEF context
    <2>3. \A c \in contexts : \E d \in features.contexts :
             c.match_id = d.match_id /\ c.public_patch = d.public_patch
      BY <2>2
    <2> HIDE DEF teams, contexts
    <2> QED BY <2>1, <2>3
  <1>2. /\ drafts.participants = {seen(f) : f \in features.participants}
        /\ drafts.contexts = contexts
    BY <1>1
  <1>3. /\ IsFiniteSet(features.participants)
        /\ \A f \in features.participants : f.win \in BOOLEAN
        /\ Coherent(features)
    BY SourceFeatures DEF SInv, StagesAre
  <1>4. ASSUME NEW f PROVE seen(f).match_id = f.match_id /\ seen(f).public_patch = f.public_patch
    BY DEF Observation
  <1>5. Coherent(drafts)
    <2> HIDE DEF seen
    <2> QED BY <1>1, <1>2, <1>3, <1>4 DEF Coherent
  <1>6. ASSUME NEW e, NEW f \in features.participants
        PROVE  /\ SameButOutcome(Flip(seen(f), e), seen(f))
               /\ seen(f) = [Flip(seen(f), e) EXCEPT !.win = seen(f).win]
               /\ seen(f).win \in BOOLEAN
               /\ Flip(seen(f), e).win = IF seen(f).public_patch < e THEN seen(f).win
                                         ELSE ~seen(f).win
    <2>1. /\ IsObservation(seen(f))
          /\ seen(f).win = f.win
      BY ObservationIsRecord
    <2> DEFINE o == seen(f)
    <2>2. o.win \in BOOLEAN
      BY <1>3, <2>1
    <2>3. CASE o.public_patch < e
      <3>1. Flip(o, e) = o
        BY <2>3 DEF Flip
      <3>2. o = [o EXCEPT !.win = o.win]
        BY <2>1 DEF IsObservation
      <3> HIDE DEF seen
      <3> QED BY <2>2, <2>3, <3>1, <3>2 DEF SameButOutcome
    <2>4. CASE ~(o.public_patch < e)
      <3>1. Flip(o, e) = [o EXCEPT !.win = ~o.win]
        BY <2>4 DEF Flip
      <3>2. SameButOutcome([o EXCEPT !.win = ~o.win], o)
        BY <2>1 DEF SameButOutcome, IsObservation
      <3>3. o = [[o EXCEPT !.win = ~o.win] EXCEPT !.win = o.win]
        BY <2>1 DEF IsObservation
      <3>4. [o EXCEPT !.win = ~o.win].win = ~o.win
        BY <2>1 DEF IsObservation
      <3> HIDE DEF seen
      <3> QED BY <2>2, <2>4, <3>1, <3>2, <3>3, <3>4
    <2> QED BY <2>3, <2>4
  <1>7. ASSUME NEW e PROVE Turnable(drafts.participants, e)
    <2>1. IsFiniteSet(drafts.participants)
      <3> DEFINE g == [f \in features.participants |-> seen(f)]
      <3> HIDE DEF seen
      <3>1. drafts.participants = {g[f] : f \in features.participants}
        BY <1>2
      <3> HIDE DEF g
      <3> QED BY <1>3, <3>1, FiniteImage
    <2> HIDE DEF seen
    <2>2. ASSUME NEW o \in drafts.participants, NEW p \in drafts.participants,
                 Flip(o, e) = Flip(p, e)
          PROVE  o = p
      <3>1. /\ SameButOutcome(Flip(o, e), o)
            /\ o = [Flip(o, e) EXCEPT !.win = o.win] /\ o.win \in BOOLEAN
            /\ Flip(o, e).win = IF o.public_patch < e THEN o.win ELSE ~o.win
        BY <1>2, <1>6
      <3>2. /\ SameButOutcome(Flip(p, e), p)
            /\ p = [Flip(p, e) EXCEPT !.win = p.win] /\ p.win \in BOOLEAN
            /\ Flip(p, e).win = IF p.public_patch < e THEN p.win ELSE ~p.win
        BY <1>2, <1>6
      <3>3. o.public_patch = p.public_patch
        BY <2>2, <3>1, <3>2 DEF SameButOutcome
      <3>4. o.win = p.win
        BY <2>2, <3>1, <3>2, <3>3
      <3> QED BY <2>2, <3>1, <3>2, <3>4
    <2> QED BY <1>2, <1>6, <2>1, <2>2 DEF Turnable
  <1>8. ASSUME NEW e PROVE /\ Reversed(e).participants = Flipped(drafts.participants, e)
                           /\ Reversed(e).contexts = drafts.contexts
    <2> HIDE DEF seen
    <2> QED BY <1>1 DEF Reversed, Flipped, Flip
  <1> QED BY <1>5, <1>7, <1>8

-----------------------------------------------------------------------------
(* The studies.                                                            *)

\* Stage 3.3C, from the split that trains on earlier patches only.
LEMMA BacktestBlind == SInv => BlindBacktest
  <1> SUFFICES ASSUME SInv, Studied("predicted"), NEW e \in DOMAIN studies.predicted
               PROVE  UNION {Predictions(Reversed(e).participants, s) : s \in FoldSplits(drafts, e)}
                        = studies.predicted[e]
    BY DEF BlindBacktest
  <1>1. Published(drafts) /\ studies.predicted = BacktestOf(drafts, ExpectedCounts)
    BY DEF SInv, StudiesAre, Studied, DraftStudies
  <1>2. studies.predicted[e] =
          UNION {Predictions(drafts.participants, s) : s \in FoldSplits(drafts, e)}
    BY <1>1 DEF BacktestOf
  <1>3. /\ Coherent(drafts) /\ Turnable(drafts.participants, e)
        /\ Reversed(e).participants = Flipped(drafts.participants, e)
    BY <1>1, SourceDrafts
  <1>4. ASSUME NEW s \in FoldSplits(drafts, e)
        PROVE  Predictions(Reversed(e).participants, s) = Predictions(drafts.participants, s)
    <2>1. \A o \in drafts.participants : o.match_id \in s.training_ids => Flip(o, e) = o
      BY <1>3, TrainsBefore
    <2>2. \A o \in drafts.participants : SameButOutcome(Flip(o, e), o)
      BY <1>3 DEF Turnable
    <2>3. Predictions(Flipped(drafts.participants, e), s) = Predictions(drafts.participants, s)
      BY <2>1, <2>2, FlippedPredictions
    <2> QED BY <1>3, <2>3
  <1>5. {Predictions(Reversed(e).participants, s) : s \in FoldSplits(drafts, e)}
          = {Predictions(drafts.participants, s) : s \in FoldSplits(drafts, e)}
    BY <1>4
  <1> QED BY <1>2, <1>5

\* Stage 3.4A, from the training patch being the earlier one.
LEMMA CompositionBlind == SInv => BlindComposition
  <1> SUFFICES ASSUME SInv, Studied("composition")
               PROVE  Composition(Reversed(EvaluationPatch), Platform).answers
                        = studies.composition
    BY DEF BlindComposition
  <1>1. Published(drafts) /\ studies.composition = Answers(Composition(drafts, Platform))
    BY DEF SInv, StudiesAre, Studied, DraftStudies
  <1>2. studies.composition = Composition(drafts, Platform).answers
    BY <1>1 DEF Studied, Answers
  <1>3. /\ Coherent(drafts) /\ Turnable(drafts.participants, EvaluationPatch)
        /\ Reversed(EvaluationPatch).participants = Flipped(drafts.participants, EvaluationPatch)
        /\ Reversed(EvaluationPatch).contexts = drafts.contexts
    BY <1>1, SourceDrafts
  <1>4. Composition(Reversed(EvaluationPatch), Platform).answers
          = Composition(drafts, Platform).answers
    BY <1>3, CompositionIsBlind
  <1> QED BY <1>2, <1>4

\* The pooled development, from the partition into planned folds.
LEMMA PooledHeldOut == SInv => HeldOut
  <1> SUFFICES ASSUME SInv, Studied("pooled") PROVE HeldOut
    BY DEF HeldOut
  <1>1. Published(drafts) /\ studies.pooled = Answers(Pooled(Corpora))
    BY DEF SInv, StudiesAre, Studied, DraftStudies
  <1>2. ~Pooled(Corpora).raises /\ studies.pooled = Pooled(Corpora).answers
    BY <1>1 DEF Studied, Answers
  <1>3. ~PooledFails(Corpora)
    BY <1>2 DEF Pooled
  <1>4. \A s \in Sealed \cup {Source} : Coherent(s.drafts)
    BY <1>1, SourceDrafts, SealedAssumption DEF Source
  <1>5. \A d, e \in PooledDrafts(Corpora) : d.match_id = e.match_id => d = e
    BY <1>3, <1>4, PooledIsKeyed DEF Corpora
  <1>6. /\ \A a \in Pooled(Corpora).answers : a[1] \notin Seen(a[3][1])
        /\ \A d \in PooledDrafts(Corpora), v \in Variants :
              Cardinality({a \in Pooled(Corpora).answers : a[1] = d.match_id /\ a[2] = v}) = 1
    BY <1>2, <1>5, PooledIsHeldOut
  <1> QED BY <1>2, <1>6 DEF HeldOut

\* The same development with the outcomes of a fold turned round, by the plan as dealt.
LEMMA PooledBlind == SInv => BlindFolds
  <1> DEFINE rows == PooledDrafts(Corpora)
             plan == FoldPlan(rows)
  <1> SUFFICES ASSUME SInv, Studied("pooled"), NEW k \in 0..SelectionFolds - 1
               PROVE  AnswersOf(PooledAnswers(TurnedFold(rows, plan, k), plan), plan, k)
                        = AnswersOf(studies.pooled, plan, k)
    BY DEF BlindFolds
  <1>1. studies.pooled = Answers(Pooled(Corpora))
    BY DEF SInv, StudiesAre, Studied
  <1>2. studies.pooled = PooledAnswers(rows, plan)
    BY <1>1 DEF Studied, Answers, Pooled
  <1>3. \A d \in rows : {"match_id", "allied", "opposing"} \subseteq DOMAIN d
    <2> TAKE d \in rows
    <2>1. PICK s \in Sealed \cup {Source} : d \in Corpus(s.drafts, s.platform).rows
      BY DEF PooledDrafts, Corpora
    <2>2. PICK id : d = MatchDraft(RowsOf(s.drafts, id), s.platform)
      BY <2>1, CorpusRows
    <2> QED BY <2>2 DEF MatchDraft
  <1> HIDE DEF rows, plan
  <1> QED BY <1>2, <1>3, PooledIsBlind

\* Stage 3.4B, from the folds that end where the block starts.
LEMMA RollingBlind == SInv => BlindRolling
  <1> SUFFICES ASSUME SInv, Studied("rolling"), NEW b \in OuterBlocks
               PROVE  RollingAnswers(Turned(TimedSource, b[1]), b) = studies.rolling[b]
    BY DEF BlindRolling
  <1>1. studies.rolling = RollingOf(Corpora, TimedSource)
    BY DEF SInv, StudiesAre, Studied
  <1>2. studies.rolling = Rolling(TimedSource).answers
    BY <1>1 DEF Studied, RollingOf, Answers
  <1>3. studies.rolling[b] = RollingAnswers(TimedSource, b)
    BY <1>2 DEF Rolling
  <1>4. RollingAnswers(Turned(TimedSource, b[1]), b) = RollingAnswers(TimedSource, b)
    BY RollingIsBlind DEF TimedSource
  <1> QED BY <1>3, <1>4

\* Stage 3.5B, from the same folds on focal rows.
LEMMA FocalBlind == SInv => BlindFocal
  <1> SUFFICES ASSUME SInv, Studied("focal"), NEW b \in OuterBlocks
               PROVE  FocalAnswers(TurnedFocal(FocalRows, b[1]), b) = studies.focal[b]
    BY DEF BlindFocal
  <1>1. studies.focal = Answers(FocalRolling(FocalRows))
    BY DEF SInv, StudiesAre, Studied
  <1>2. studies.focal = FocalRolling(FocalRows).answers
    BY <1>1 DEF Studied, Answers
  <1>3. studies.focal[b] = FocalAnswers(FocalRows, b)
    BY <1>2 DEF FocalRolling
  <1>4. FocalAnswers(TurnedFocal(FocalRows, b[1]), b) = FocalAnswers(FocalRows, b)
    BY FocalIsBlind
  <1> QED BY <1>3, <1>4

\* No published answer of a backtest or of an evaluation depends on an outcome of the
\* evaluation patch or on what happened from the start of its block on; by the plan of
\* the pooled development as it was dealt, none depends on an outcome in its own fold, and
\* no model or candidate for it has been fitted or scored on a draft of that fold.
THEOREM PredictionsSafe == Spec => []PredictionsAreBlind
  <1>1. Init => SInv
    BY InitStages
  <1>2. SInv /\ [Next]_vars => SInv'
    BY StageSteps
  <1>3. SInv => PredictionsAreBlind
    BY BacktestBlind, CompositionBlind, PooledHeldOut, PooledBlind, RollingBlind, FocalBlind
    DEF PredictionsAreBlind
  <1> QED BY <1>1, <1>2, <1>3, PTL DEF Spec
-----------------------------------------------------------------------------
(* The payloads behind the rows.                                           *)

\* The values of a one-to-one function on a finite set are as many as its arguments,
\* and a function with as many values is one-to-one.
LEMMA ImageSize ==
  ASSUME NEW S, IsFiniteSet(S), NEW f, NEW T, T = {f[x] : x \in S}
  PROVE  Cardinality(T) = Cardinality(S) <=> \A x, y \in S : f[x] = f[y] => x = y
  <1> DEFINE g == [x \in S |-> f[x]]
  <1>1. /\ g \in [S -> T] /\ \A t \in T : \E x \in S : g[x] = t
        /\ \A x \in S : g[x] = f[x]
    OBVIOUS
  <1> HIDE DEF g
  <1>2. g \in Surjection(S, T)
    BY <1>1 DEF Surjection
  <1>3. Cardinality(T) = Cardinality(S) <=> g \in Injection(S, T)
    BY <1>2, FS_Surjection
  <1>4. g \in Injection(S, T) <=> \A x, y \in S : f[x] = f[y] => x = y
    BY <1>1 DEF Injection, IsInjective
  <1> QED BY <1>3, <1>4

\* A payload that passed the rules of Stage 3.1.
Regular(a) ==
    /\ IsFiniteSet(a.participants) /\ IsFiniteSet(a.teams)
    /\ a.gameDuration \in Int /\ a.gameDuration > 0
    /\ Cardinality(a.participants) = 2 * TeamSize /\ Cardinality(a.teams) = 2
    /\ \A r \in a.participants : r.win \in BOOLEAN
    /\ \A r \in a.participants : \E t \in a.teams : t.teamId = r.teamId
    /\ \A r, s \in a.participants : r.participantId = s.participantId => r = s
    /\ \A t, u \in a.teams : t.teamId = u.teamId => t = u
    /\ \A t \in a.teams : t.win <=> t.teamId = Winner(a)
    /\ ResolvePatch(a.gameVersion) = a.public_patch

\* The rules make the seats and the teams of a payload countable by their numbers, with
\* one team the winner.
LEMMA RegularPayloads ==
  ASSUME SInv, Published(canonical)
  PROVE  /\ \A a \in Payloads : Transforms(a, Platform) /\ Regular(a)
         /\ \A a, b \in Payloads : a.match_id = b.match_id => a = b
  <1>1. \A a \in Payloads : Transforms(a, Platform)
    BY DEF SInv, StagesAre, Canonical, CanonicalReady
  <1>2. \A a, b \in Payloads : a.match_id = b.match_id => a = b
    BY DEF SInv, Accepted, Payloads
  <1>3. ASSUME NEW a \in Payloads PROVE Regular(a)
    <2>1. Transforms(a, Platform)
      BY <1>1
    <2>2. /\ IsFiniteSet(a.participants) /\ IsFiniteSet(a.teams) /\ a.gameDuration \in Int
          /\ \A r \in a.participants : r.win \in BOOLEAN \cup {Missing}
      BY CandidatesAssumption DEF SInv, Accepted, Payloads
    <2>3. \A r \in a.participants : r.win \in BOOLEAN
      <3>1. \A r \in a.participants : r["win"] # Missing
        BY <2>1 DEF Transforms, CriticalFields
      <3> QED BY <2>2, <3>1
    <2>4. /\ a.gameDuration > 0
          /\ Cardinality(a.participants) = 2 * TeamSize /\ Cardinality(a.teams) = 2
          /\ Cardinality({r.participantId : r \in a.participants}) = 2 * TeamSize
          /\ Cardinality({t.teamId : t \in a.teams}) = 2
          /\ Cardinality({t \in a.teams : t.win}) = 1
      BY <2>1 DEF Transforms
    <2>5. \A r \in a.participants : \E t \in a.teams : t.teamId = r.teamId
      BY <2>1 DEF Transforms
    <2>6. \A r, s \in a.participants : r.participantId = s.participantId => r = s
      <3> DEFINE f == [r \in a.participants |-> r.participantId]
                 T == {r.participantId : r \in a.participants}
      <3>1. T = {f[r] : r \in a.participants} /\ \A r \in a.participants : f[r] = r.participantId
        OBVIOUS
      <3>2. Cardinality(T) = Cardinality(a.participants)
        BY <2>4
      <3> HIDE DEF f, T
      <3>3. \A r, s \in a.participants : f[r] = f[s] => r = s
        BY <2>2, <3>1, <3>2, ImageSize
      <3> QED BY <3>1, <3>3
    <2>7. \A t, u \in a.teams : t.teamId = u.teamId => t = u
      <3> DEFINE f == [t \in a.teams |-> t.teamId]
                 T == {t.teamId : t \in a.teams}
      <3>1. T = {f[t] : t \in a.teams} /\ \A t \in a.teams : f[t] = t.teamId
        OBVIOUS
      <3>2. Cardinality(T) = Cardinality(a.teams)
        BY <2>4
      <3> HIDE DEF f, T
      <3>3. \A t, u \in a.teams : f[t] = f[u] => t = u
        BY <2>2, <3>1, <3>2, ImageSize
      <3> QED BY <3>1, <3>3
    <2>8. \A t \in a.teams : t.win <=> t.teamId = Winner(a)
      <3> DEFINE won == {t \in a.teams : t.win}
      <3>1. won \in SUBSET a.teams
        OBVIOUS
      <3>2. IsFiniteSet(won)
        BY <2>2, <3>1, FS_Subset
      <3>3. PICK w : won = {w}
        BY <2>4, <3>2, FS_Singleton
      <3>4. w \in a.teams /\ w.win /\ \A t \in a.teams : t.win => t = w
        BY <3>3
      <3>5. (CHOOSE t \in a.teams : t.win) = w
        BY <3>4
      <3>6. Winner(a) = w.teamId
        BY <3>5 DEF Winner
      <3> QED BY <2>7, <3>4, <3>6
    <2>9. ResolvePatch(a.gameVersion) = a.public_patch
      BY <2>1 DEF Transforms
    <2> QED BY <2>2, <2>3, <2>4, <2>5, <2>6, <2>7, <2>8, <2>9 DEF Regular
  <1> QED BY <1>1, <1>2, <1>3

SeatRows(a) == {ParticipantRow(a, r) : r \in a.participants}
TeamRows(a) == {TeamRow(a, t) : t \in a.teams}

\* The canonical rows are those of the payloads, and those of a match are of its payload.
LEMMA CanonicalIs ==
  ASSUME SInv, Published(canonical)
  PROVE  /\ canonical.matches = {MatchRow(a) : a \in Payloads}
         /\ canonical.participants = UNION {SeatRows(a) : a \in Payloads}
         /\ canonical.teams = UNION {TeamRows(a) : a \in Payloads}
         /\ \A a \in Payloads :
               /\ {r \in canonical.participants : r.match_id = a.match_id} = SeatRows(a)
               /\ {t \in canonical.teams : t.match_id = a.match_id} = TeamRows(a)
  <1>1. {a \in Payloads : Transforms(a, Platform)} = Payloads
    BY RegularPayloads
  <1>2. /\ canonical.matches = {MatchRow(a) : a \in Payloads}
        /\ canonical.participants = UNION {SeatRows(a) : a \in Payloads}
        /\ canonical.teams = UNION {TeamRows(a) : a \in Payloads}
    BY <1>1 DEF SInv, StagesAre, Canonical, SeatRows, TeamRows
  <1>3. \A a, b \in Payloads : a.match_id = b.match_id => a = b
    BY RegularPayloads
  <1>4. /\ \A a : \A r \in SeatRows(a) : r.match_id = a.match_id
        /\ \A a : \A t \in TeamRows(a) : t.match_id = a.match_id
    BY DEF SeatRows, TeamRows, ParticipantRow, TeamRow
  <1> QED BY <1>2, <1>3, <1>4

ContextOf(a) == MatchContext(MatchRow(a), SeatRows(a), TeamRows(a))

\* The feature row of a seat.
FeatureOf(a, r) ==
    CHOOSE f \in features.participants :
        f.match_id = a.match_id /\ f.participant_id = r.participantId
FeatureRows(a) == {FeatureOf(a, r) : r \in a.participants}

\* Stage 3.2 has one context of a payload.
LEMMA ContextsAre ==
  ASSUME SInv, Published(features)
  PROVE  /\ features.contexts = {ContextOf(a) : a \in Payloads}
         /\ \A a \in Payloads :
               (CHOOSE c \in features.contexts : c.match_id = a.match_id) = ContextOf(a)
         /\ \A a : ContextOf(a).match_id = a.match_id
  <1> DEFINE participantsOf(id) == {r \in canonical.participants : r.match_id = id}
             teamsOf(id) == {t \in canonical.teams : t.match_id = id}
             context(m) == MatchContext(m, participantsOf(m.match_id), teamsOf(m.match_id))
  <1>1. Published(canonical)
    BY DEF SInv, StagesAre
  <1>2. features.contexts = {context(m) : m \in canonical.matches}
    <2>1. \A n : Analytical(canonical, n).rows.contexts = {context(m) : m \in canonical.matches}
      BY DEF Analytical
    <2> HIDE DEF context
    <2> QED BY <2>1 DEF SInv, StagesAre
  <1>3. \A a \in Payloads : context(MatchRow(a)) = ContextOf(a)
    <2> TAKE a \in Payloads
    <2>1. MatchRow(a).match_id = a.match_id
      BY DEF MatchRow
    <2>2. participantsOf(a.match_id) = SeatRows(a) /\ teamsOf(a.match_id) = TeamRows(a)
      BY <1>1, CanonicalIs
    <2> QED BY <2>1, <2>2 DEF ContextOf
  <1> HIDE DEF context
  <1>4. features.contexts = {ContextOf(a) : a \in Payloads}
    BY <1>1, <1>2, <1>3, CanonicalIs
  <1>5. \A a : ContextOf(a).match_id = a.match_id
    BY DEF ContextOf, MatchContext, MatchRow
  <1>6. ASSUME NEW a \in Payloads
        PROVE  (CHOOSE c \in features.contexts : c.match_id = a.match_id) = ContextOf(a)
    <2>1. \A b \in Payloads : b.match_id = a.match_id => b = a
      BY <1>1, RegularPayloads
    <2>2. \A c \in features.contexts : c.match_id = a.match_id => c = ContextOf(a)
      BY <1>4, <1>5, <2>1
    <2>3. ContextOf(a) \in features.contexts /\ ContextOf(a).match_id = a.match_id
      BY <1>4, <1>5
    <2> QED BY <2>2, <2>3
  <1> QED BY <1>4, <1>5, <1>6

\* And one feature row of a seat.
LEMMA FeaturesAre ==
  ASSUME SInv, Published(features)
  PROVE  /\ features.participants = UNION {FeatureRows(a) : a \in Payloads}
         /\ \A a \in Payloads :
               /\ {f \in features.participants : f.match_id = a.match_id} = FeatureRows(a)
               /\ \A r \in a.participants :
                     \E team : FeatureOf(a, r)
                                 = ParticipantFeature(ContextOf(a), ParticipantRow(a, r), team)
  <1> DEFINE contextOf(id) == CHOOSE c \in features.contexts : c.match_id = id
  <1>1. Published(canonical)
    BY DEF SInv, StagesAre
  <1>2. PICK teamOf : features.participants =
           {ParticipantFeature(contextOf(r.match_id), r, teamOf[r]) :
               r \in canonical.participants}
    <2> DEFINE participantsOf(id) == {r \in canonical.participants : r.match_id = id}
               teamsOf(id) == {t \in canonical.teams : t.match_id = id}
               contexts == {MatchContext(m, participantsOf(m.match_id), teamsOf(m.match_id)) :
                               m \in canonical.matches}
               of(id) == CHOOSE c \in contexts : c.match_id = id
               teams == {TeamFeature(of(t.match_id), t,
                            {r \in participantsOf(t.match_id) : r.team_id = t.team_id}) :
                           t \in canonical.teams}
               teamFor(r) == CHOOSE t \in teams : t.match_id = r.match_id /\ t.team_id = r.team_id
               found == [r \in canonical.participants |-> teamFor(r)]
    <2>1. \A n : /\ Analytical(canonical, n).rows.participants =
                      {ParticipantFeature(of(r.match_id), r, teamFor(r)) :
                          r \in canonical.participants}
                 /\ Analytical(canonical, n).rows.contexts = contexts
      BY DEF Analytical
    <2> HIDE DEF teamFor, contexts
    <2>2. /\ features.participants =
               {ParticipantFeature(of(r.match_id), r, teamFor(r)) : r \in canonical.participants}
          /\ features.contexts = contexts
      BY <2>1 DEF SInv, StagesAre
    <2>3. \A id : of(id) = contextOf(id)
      BY <2>2
    <2> HIDE DEF of, contextOf
    <2>4. features.participants =
            {ParticipantFeature(contextOf(r.match_id), r, found[r]) : r \in canonical.participants}
      BY <2>2, <2>3
    <2> QED BY <2>4 DEF contextOf
  <1> DEFINE feature(a, r) ==
               ParticipantFeature(ContextOf(a), ParticipantRow(a, r), teamOf[ParticipantRow(a, r)])
  <1>3. \A f : f \in features.participants <=>
                 \E a \in Payloads : \E r \in a.participants : f = feature(a, r)
    <2>1. \A a \in Payloads : contextOf(a.match_id) = ContextOf(a)
      BY ContextsAre
    <2>2. \A q : q \in canonical.participants <=>
                   \E a \in Payloads : \E r \in a.participants : q = ParticipantRow(a, r)
      BY <1>1, CanonicalIs DEF SeatRows
    <2>3. \A a, r : ParticipantRow(a, r).match_id = a.match_id
      BY DEF ParticipantRow
    <2> HIDE DEF contextOf
    <2> QED BY <1>2, <2>1, <2>2, <2>3
  <1>4. \A a, r : /\ feature(a, r).match_id = a.match_id
                  /\ feature(a, r).participant_id = r.participantId
    BY DEF ParticipantFeature, ParticipantRow
  <1>5. /\ \A a, b \in Payloads : a.match_id = b.match_id => a = b
        /\ \A a \in Payloads : \A r, s \in a.participants :
              r.participantId = s.participantId => r = s
    BY <1>1, RegularPayloads DEF Regular
  <1> HIDE DEF feature
  <1>6. ASSUME NEW a \in Payloads, NEW r \in a.participants
        PROVE  FeatureOf(a, r) = feature(a, r)
    <2>1. \A f \in features.participants :
             f.match_id = a.match_id /\ f.participant_id = r.participantId => f = feature(a, r)
      BY <1>3, <1>4, <1>5
    <2>2. feature(a, r) \in features.participants
      BY <1>3
    <2> QED BY <1>4, <2>1, <2>2 DEF FeatureOf
  <1>7. features.participants = UNION {FeatureRows(a) : a \in Payloads}
    BY <1>3, <1>6 DEF FeatureRows
  <1>8. ASSUME NEW a \in Payloads
        PROVE  {f \in features.participants : f.match_id = a.match_id} = FeatureRows(a)
    BY <1>3, <1>4, <1>5, <1>6 DEF FeatureRows
  <1>9. ASSUME NEW a \in Payloads, NEW r \in a.participants
        PROVE  \E team : FeatureOf(a, r)
                           = ParticipantFeature(ContextOf(a), ParticipantRow(a, r), team)
    BY <1>6 DEF feature
  <1> QED BY <1>7, <1>8, <1>9

\* The team rows of Stage 3.2 have the payload's winner, and a participant whose flag
\* is not its team's is reported.
LEMMA TeamsAre ==
  ASSUME SInv, Published(features)
  PROVE  /\ \A t \in features.teams : \E a \in Payloads : \E u \in a.teams :
               t.match_id = a.match_id /\ t.team_id = u.teamId /\ t.win = u.win
         /\ \A a \in Payloads : \A u \in a.teams : \E t \in features.teams :
               t.match_id = a.match_id /\ t.team_id = u.teamId /\ t.win = u.win
         /\ features.reported = {} =>
               \A t \in features.teams, f \in features.participants :
                  f.match_id = t.match_id /\ f.team_id = t.team_id => f.win = t.win
  <1> DEFINE participantsOf(id) == {r \in canonical.participants : r.match_id = id}
             teamsOf(id) == {t \in canonical.teams : t.match_id = id}
             contexts == {MatchContext(m, participantsOf(m.match_id), teamsOf(m.match_id)) :
                             m \in canonical.matches}
             of(id) == CHOOSE c \in contexts : c.match_id = id
             team(t) == TeamFeature(of(t.match_id), t,
                          {r \in participantsOf(t.match_id) : r.team_id = t.team_id})
             teams == {team(t) : t \in canonical.teams}
             teamFor(r) == CHOOSE t \in teams : t.match_id = r.match_id /\ t.team_id = r.team_id
             participants == {ParticipantFeature(of(r.match_id), r, teamFor(r)) :
                                 r \in canonical.participants}
  <1>1. \A n : LET rows == Analytical(canonical, n).rows IN
                 /\ rows.teams = teams /\ rows.participants = participants
                 /\ rows.reported = ReconciliationFailures(
                      [contexts |-> contexts, teams |-> teams, participants |-> participants])
    BY DEF Analytical
  <1>2. \A t : team(t).match_id = t.match_id /\ team(t).team_id = t.team_id /\ team(t).win = t.win
    BY DEF TeamFeature
  <1> HIDE DEF team, contexts, teams, participants
  <1>3. /\ features.teams = teams /\ features.participants = participants
        /\ features.reported = ReconciliationFailures(
             [contexts |-> contexts, teams |-> teams, participants |-> participants])
    BY <1>1 DEF SInv, StagesAre
  <1>4. \A q : q \in canonical.teams <=>
                 \E a \in Payloads : \E u \in a.teams : q = TeamRow(a, u)
    <2>1. Published(canonical)
      BY DEF SInv, StagesAre
    <2> QED BY <2>1, CanonicalIs DEF TeamRows
  <1>5. \A a, u : /\ TeamRow(a, u).match_id = a.match_id /\ TeamRow(a, u).team_id = u.teamId
                  /\ TeamRow(a, u).win = u.win
    BY DEF TeamRow
  <1>6. \A t \in features.teams : \E a \in Payloads : \E u \in a.teams :
           t.match_id = a.match_id /\ t.team_id = u.teamId /\ t.win = u.win
    BY <1>2, <1>3, <1>4, <1>5 DEF teams
  <1>7. \A a \in Payloads : \A u \in a.teams : \E t \in features.teams :
           t.match_id = a.match_id /\ t.team_id = u.teamId /\ t.win = u.win
    <2> TAKE a \in Payloads
    <2> TAKE u \in a.teams
    <2>1. team(TeamRow(a, u)) \in features.teams
      BY <1>3, <1>4 DEF teams
    <2> QED BY <1>2, <1>5, <2>1
  <1>8. ASSUME features.reported = {}, NEW t \in features.teams,
               NEW f \in features.participants, f.match_id = t.match_id, f.team_id = t.team_id
        PROVE  f.win = t.win
    <2> DEFINE rows == [contexts |-> contexts, teams |-> teams, participants |-> participants]
    <2>1. t \notin ReconciliationFailures(rows)
      BY <1>3, <1>8
    <2>2. t \in rows.teams /\ f \in {g \in rows.participants :
                                       g.match_id = t.match_id /\ g.team_id = t.team_id}
      BY <1>3, <1>8
    <2> HIDE DEF rows
    <2> QED BY <2>1, <2>2 DEF ReconciliationFailures
  <1> QED BY <1>6, <1>7, <1>8

\* A feature row that says what a reader of the payload would say of the seat.
Sees(f, a, r) ==
    /\ f.match_id = a.match_id /\ f.participant_id = r.participantId
    /\ f.public_patch = a.public_patch /\ f.team_id = r.teamId
    /\ f.champion_id = r.championId /\ f.win = r.win
    /\ Place(r) \in Positions => f.analysis_position = Place(r)
    /\ Place(r) \notin Positions => f.analysis_position = Missing
    /\ PairingEligible(f) <=> Placed(r)
    /\ f.exclusion_reasons = {} <=> a.gameDuration >= ShortGame
    /\ f.role_exclusion_reasons = {} <=> a.gameDuration >= ShortGame /\ Placed(r)

\* The position policy finds a position where the payload names one, and has nothing to
\* report where the position is beyond doubt.
LEMMA PolicyIs ==
  ASSUME NEW a, NEW r
  PROVE  LET policy == PositionPolicy(ParticipantRow(a, r)) IN
         /\ Place(r) \in Positions => policy.position = Place(r)
         /\ Place(r) \notin Positions => policy.position = Missing
         /\ policy.disagreement \in BOOLEAN
         /\ Placed(r) <=> /\ policy.position \in Positions /\ policy.source = "team_position"
                          /\ ~policy.disagreement
         /\ Placed(r) <=> RoleReasons({policy}) = {}
  <1> DEFINE policy == PositionPolicy(ParticipantRow(a, r))
  <1>1. /\ ParticipantRow(a, r).team_position = r.teamPosition
        /\ ParticipantRow(a, r).individual_position = r.individualPosition
    BY DEF ParticipantRow
  <1>2. /\ Place(r) \in Positions => policy.position = Place(r)
        /\ Place(r) \notin Positions => policy.position = Missing
        /\ policy.disagreement \in BOOLEAN
        /\ Placed(r) <=> /\ policy.position \in Positions /\ policy.source = "team_position"
                         /\ ~policy.disagreement
        /\ Placed(r) <=> /\ ~policy.disagreement
                         /\ policy.source # "individual_position_fallback"
                         /\ policy.position # Missing
    BY <1>1, PositionsAssumption DEF PositionPolicy, Place, Placed
  <1> HIDE DEF policy
  <1>3. RoleReasons({policy}) = {} <=> /\ ~policy.disagreement
                                       /\ policy.source # "individual_position_fallback"
                                       /\ policy.position # Missing
    BY DEF RoleReasons
  <1> QED BY <1>2, <1>3 DEF policy

\* A regular payload is excluded from a use only when it was too short.
LEMMA ContextReasons ==
  ASSUME NEW a, Regular(a)
  PROVE  ContextOf(a).exclusion_reasons = {} <=> a.gameDuration >= ShortGame
  <1>1. Cardinality(SeatRows(a)) = 2 * TeamSize
    <2> DEFINE f == [r \in a.participants |-> ParticipantRow(a, r)]
    <2>1. SeatRows(a) = {f[r] : r \in a.participants}
      BY DEF SeatRows
    <2>2. \A r, s \in a.participants : f[r] = f[s] => r = s
      BY DEF Regular, ParticipantRow
    <2>3. IsFiniteSet(a.participants) /\ Cardinality(a.participants) = 2 * TeamSize
      BY DEF Regular
    <2> HIDE DEF f
    <2> QED BY <2>1, <2>2, <2>3, ImageSize
  <1>2. Cardinality({q["participant_id"] : q \in SeatRows(a)}) = 2 * TeamSize
    <2> DEFINE f == [r \in a.participants |-> r.participantId]
               T == {q["participant_id"] : q \in SeatRows(a)}
    <2>1. T = {f[r] : r \in a.participants}
      <3>1. \A r : ParticipantRow(a, r)["participant_id"] = r.participantId
        BY DEF ParticipantRow
      <3>2. \A r \in a.participants : f[r] = r.participantId
        OBVIOUS
      <3> HIDE DEF f
      <3> QED BY <3>1, <3>2 DEF SeatRows
    <2>2. \A r, s \in a.participants : f[r] = f[s] => r = s
      BY DEF Regular
    <2>3. IsFiniteSet(a.participants) /\ Cardinality(a.participants) = 2 * TeamSize
      BY DEF Regular
    <2> HIDE DEF f, T
    <2>4. Cardinality(T) = 2 * TeamSize
      BY <2>1, <2>2, <2>3, ImageSize
    <2> QED BY <2>4 DEF T
  <1>3. Cardinality(TeamRows(a)) = 2
    <2> DEFINE f == [t \in a.teams |-> TeamRow(a, t)]
    <2>1. TeamRows(a) = {f[t] : t \in a.teams}
      BY DEF TeamRows
    <2>2. \A t, u \in a.teams : f[t] = f[u] => t = u
      BY DEF Regular, TeamRow
    <2> HIDE DEF f
    <2> QED BY <2>1, <2>2, ImageSize DEF Regular
  <1>4. Cardinality({q["team_id"] : q \in TeamRows(a)}) = 2
    <2> DEFINE f == [t \in a.teams |-> t.teamId]
               T == {q["team_id"] : q \in TeamRows(a)}
    <2>1. T = {f[t] : t \in a.teams}
      <3>1. \A t : TeamRow(a, t)["team_id"] = t.teamId
        BY DEF TeamRow
      <3>2. \A t \in a.teams : f[t] = t.teamId
        OBVIOUS
      <3> HIDE DEF f
      <3> QED BY <3>1, <3>2 DEF TeamRows
    <2>2. \A t, u \in a.teams : f[t] = f[u] => t = u
      BY DEF Regular
    <2> HIDE DEF f, T
    <2>3. Cardinality(T) = Cardinality(a.teams)
      BY <2>1, <2>2, ImageSize DEF Regular
    <2> QED BY <2>3 DEF T, Regular
  <1>5. MatchRow(a).duration = a.gameDuration
    BY DEF MatchRow
  <1> DEFINE distinct(rows, field, n) ==
               Cardinality(rows) = n /\ Cardinality({q[field] : q \in rows}) = n
             reasons ==
               {reason \in {"invalid_duration", "short_game", "incomplete_participants",
                            "incomplete_teams"} :
                   \/ reason = "invalid_duration" /\ MatchRow(a).duration <= 0
                   \/ /\ reason = "short_game"
                      /\ MatchRow(a).duration > 0 /\ MatchRow(a).duration < ShortGame
                   \/ /\ reason = "incomplete_participants"
                      /\ ~distinct(SeatRows(a), "participant_id", 2 * TeamSize)
                   \/ reason = "incomplete_teams" /\ ~distinct(TeamRows(a), "team_id", 2)}
  <1>6. ContextOf(a).exclusion_reasons = reasons
    BY DEF ContextOf, MatchContext
  <1>7. /\ distinct(SeatRows(a), "participant_id", 2 * TeamSize)
        /\ distinct(TeamRows(a), "team_id", 2)
    BY <1>1, <1>2, <1>3, <1>4
  <1> HIDE DEF distinct
  <1>8. reasons = {} <=> a.gameDuration >= ShortGame
    BY <1>5, <1>7, CanonicalAssumption DEF Regular
  <1> QED BY <1>6, <1>8

\* Each feature row says so.
LEMMA FeatureSees ==
  ASSUME SInv, Published(features), NEW a \in Payloads, NEW r \in a.participants
  PROVE  Sees(FeatureOf(a, r), a, r)
  <1> DEFINE policy == PositionPolicy(ParticipantRow(a, r))
             context == ContextOf(a)
             f == FeatureOf(a, r)
  <1>1. PICK team : f = ParticipantFeature(context, ParticipantRow(a, r), team)
    BY FeaturesAre
  <1>2. Regular(a)
    <2>1. Published(canonical)
      BY DEF SInv, StagesAre
    <2> QED BY <2>1, RegularPayloads
  <1>3. /\ ParticipantRow(a, r).match_id = a.match_id
        /\ ParticipantRow(a, r).participant_id = r.participantId
        /\ ParticipantRow(a, r).team_id = r.teamId
        /\ ParticipantRow(a, r).champion_id = r.championId
        /\ ParticipantRow(a, r).win = r.win
    BY DEF ParticipantRow
  <1>4. context.public_patch = a.public_patch
    BY <1>2 DEF ContextOf, MatchContext, MatchRow, Regular
  <1> HIDE DEF f, context
  <1>5. /\ f.match_id = a.match_id /\ f.participant_id = r.participantId
        /\ f.public_patch = a.public_patch /\ f.team_id = r.teamId
        /\ f.champion_id = r.championId /\ f.win = r.win
        /\ f.analysis_position = policy.position
        /\ f.analysis_position_source = policy.source
        /\ f.position_disagreement = policy.disagreement
        /\ f.exclusion_reasons = context.exclusion_reasons
        /\ f.role_exclusion_reasons = context.exclusion_reasons \cup RoleReasons({policy})
    BY <1>1, <1>3, <1>4 DEF ParticipantFeature
  <1> HIDE DEF policy
  <1>6. /\ Place(r) \in Positions => policy.position = Place(r)
        /\ Place(r) \notin Positions => policy.position = Missing
        /\ policy.disagreement \in BOOLEAN
        /\ Placed(r) <=> /\ policy.position \in Positions /\ policy.source = "team_position"
                         /\ ~policy.disagreement
        /\ Placed(r) <=> RoleReasons({policy}) = {}
    BY PolicyIs DEF policy
  <1>7. context.exclusion_reasons = {} <=> a.gameDuration >= ShortGame
    BY <1>2, ContextReasons DEF context
  <1>8. PairingEligible(f) <=> Placed(r)
    BY <1>5, <1>6 DEF PairingEligible
  <1>9. f.role_exclusion_reasons = {} <=> a.gameDuration >= ShortGame /\ Placed(r)
    BY <1>5, <1>6, <1>7
  <1> QED BY <1>5, <1>6, <1>7, <1>8, <1>9 DEF Sees, f
-----------------------------------------------------------------------------
(* The lane contests and the companions as the observations see them.      *)

Full(a) == \A t \in a.teams : Cardinality(Side(a, t.teamId)) = TeamSize
InLane(a, r) == {u \in a.participants : Placed(u) /\ u.teamPosition = r.teamPosition}

\* Two seats that a full match of full teams would have as each other's opponents.
Meets(a, r, s) == /\ Full(a) /\ Placed(r) /\ Placed(s) /\ r.teamId # s.teamId
                  /\ InLane(a, r) = {r, s}

\* The feature rows of a payload, as a function of its seats.
Mirrors(g, a) == \A r \in a.participants : Sees(g[r], a, r)

\* Feature rows are as many as the seats they are of.
LEMMA MirroredSize ==
  ASSUME NEW a, Regular(a), NEW g, Mirrors(g, a), NEW S \in SUBSET a.participants,
         NEW T, T = {g[r] : r \in S}
  PROVE  IsFiniteSet(T) /\ Cardinality(T) = Cardinality(S)
  <1>1. IsFiniteSet(S)
    BY FS_Subset DEF Regular
  <1>2. \A r, s \in S : g[r] = g[s] => r = s
    BY DEF Regular, Mirrors, Sees
  <1>3. IsFiniteSet(T)
    BY <1>1, FiniteImage
  <1> QED BY <1>1, <1>2, <1>3, ImageSize

\* The teams of the feature rows are those of the payload.
LEMMA MirroredTeams ==
  ASSUME NEW a, Regular(a), NEW g, Mirrors(g, a), NEW rows, rows = {g[r] : r \in a.participants}
  PROVE  /\ \A id : Cardinality(Team(rows, id)) = Cardinality(Side(a, id))
         /\ EvenTeams(rows) <=> Full(a)
  <1>1. ASSUME NEW id PROVE Cardinality(Team(rows, id)) = Cardinality(Side(a, id))
    <2>1. Team(rows, id) = {g[r] : r \in Side(a, id)}
      BY DEF Team, Side, Mirrors, Sees
    <2>2. Side(a, id) \in SUBSET a.participants
      BY DEF Side
    <2> QED BY <2>1, <2>2, MirroredSize
  <1> DEFINE ids == {t.teamId : t \in a.teams}
  <1>2. IsFiniteSet(ids) /\ Cardinality(ids) = 2
    <2> DEFINE f == [t \in a.teams |-> t.teamId]
    <2>1. ids = {f[t] : t \in a.teams}
      OBVIOUS
    <2>2. \A t, u \in a.teams : f[t] = f[u] => t = u
      BY DEF Regular
    <2> HIDE DEF f, ids
    <2>3. IsFiniteSet(ids)
      BY <2>1, FiniteImage DEF Regular
    <2>4. Cardinality(ids) = Cardinality(a.teams)
      BY <2>1, <2>2, ImageSize DEF Regular
    <2> QED BY <2>3, <2>4 DEF Regular
  <1>3. TeamIds(rows) \in SUBSET ids
    BY DEF TeamIds, Mirrors, Sees, Regular
  <1>4. Cardinality(rows) = 2 * TeamSize
    <2>1. a.participants \in SUBSET a.participants
      OBVIOUS
    <2> QED BY <2>1, MirroredSize DEF Regular
  <1>5. ASSUME EvenTeams(rows) PROVE Full(a)
    <2>1. TeamIds(rows) = ids
      BY <1>2, <1>3, <1>5, FS_Subset DEF EvenTeams
    <2> QED BY <1>1, <1>5, <2>1 DEF EvenTeams, Full
  <1>6. ASSUME Full(a) PROVE EvenTeams(rows)
    <2>1. \A id \in ids : Cardinality(Team(rows, id)) = TeamSize
      BY <1>1, <1>6 DEF Full
    <2>2. \A id \in ids : Team(rows, id) # {}
      BY <2>1, FS_EmptySet, CanonicalAssumption
    <2>3. TeamIds(rows) = ids
      <3>1. \A id \in ids : id \in TeamIds(rows)
        BY <2>2 DEF Team, TeamIds
      <3> QED BY <1>3, <3>1
    <2> HIDE DEF ids
    <2> QED BY <1>2, <1>4, <2>1, <2>3 DEF EvenTeams
  <1> QED BY <1>1, <1>5, <1>6

\* A lane is resolved to the one other seat that is placed in it, on the other side.
LEMMA LaneIs ==
  ASSUME NEW a, Regular(a), NEW g, Mirrors(g, a), NEW rows, rows = {g[r] : r \in a.participants},
         NEW r \in a.participants, NEW s \in a.participants
  PROVE  LET lane == LaneResolution(rows, g[r]) IN
         /\ lane.opponents \subseteq rows
         /\ (lane.status = "resolved_unique" /\ g[s] \in lane.opponents)
              <=> Meets(a, r, s)
  <1> DEFINE f == g[r]
             lane(S) == {h \in S : PairingEligible(h) /\ h.analysis_position = f.analysis_position}
             candidates == lane({h \in rows : h.team_id # f.team_id})
             own == lane(Team(rows, f.team_id))
             result == LaneResolution(rows, f)
             facing == {u \in InLane(a, r) : u.teamId # r.teamId}
             beside == {u \in InLane(a, r) : u.teamId = r.teamId}
  <1>1. /\ (result.status = "resolved_unique") <=>
              /\ EvenTeams(rows) /\ PairingEligible(f)
              /\ Cardinality(candidates) = 1 /\ Cardinality(own) = 1
        /\ result.status = "resolved_unique" => result.opponents = candidates
        /\ result.opponents \subseteq rows
    <2>1. CASE ~EvenTeams(rows)
      BY <2>1 DEF LaneResolution
    <2>2. CASE EvenTeams(rows) /\ ~PairingEligible(f)
      BY <2>2 DEF LaneResolution
    <2>3. CASE EvenTeams(rows) /\ PairingEligible(f)
      <3>1. IsFiniteSet(candidates)
        <4>1. IsFiniteSet(rows)
          <5>1. a.participants \in SUBSET a.participants
            OBVIOUS
          <5> QED BY <5>1, MirroredSize
        <4>2. candidates \in SUBSET rows
          OBVIOUS
        <4> QED BY <4>1, <4>2, FS_Subset
      <3>2. Cardinality(candidates) \in Nat /\ (Cardinality(candidates) = 0 <=> candidates = {})
        BY <3>1, FS_CardinalityType, FS_EmptySet
      <3>3. CASE candidates = {}
        <4>1. result = [status |-> "missing_unique_opponent", opponents |-> {}]
          BY <2>3, <3>2, <3>3 DEF LaneResolution
        <4> HIDE DEF result, candidates, own
        <4> QED BY <3>2, <3>3, <4>1
      <3>4. CASE Cardinality(candidates) > 1
        <4>1. result = [status |-> "ambiguous_opponent_position", opponents |-> {}]
          BY <2>3, <3>2, <3>4 DEF LaneResolution
        <4> HIDE DEF result, candidates, own
        <4> QED BY <3>2, <3>4, <4>1
      <3>5. CASE Cardinality(candidates) = 1
        <4>1. result = IF Cardinality(own) = 1
                       THEN [status |-> "resolved_unique", opponents |-> candidates]
                       ELSE [status |-> "nonreciprocal_position_group", opponents |-> {}]
          BY <2>3, <3>2, <3>5 DEF LaneResolution
        <4>2. candidates \subseteq rows
          OBVIOUS
        <4> HIDE DEF result, candidates, own
        <4> QED BY <2>3, <3>5, <4>1, <4>2
      <3> QED BY <3>2, <3>3, <3>4, <3>5
    <2> QED BY <2>1, <2>2, <2>3
  <1>2. result.status = "resolved_unique" => result.opponents = candidates
    BY <1>1
  <1>3. PairingEligible(f) <=> Placed(r)
    BY DEF Mirrors, Sees
  <1>4. EvenTeams(rows) <=> Full(a)
    BY MirroredTeams
  <1>5. ASSUME Placed(r), NEW u \in a.participants
        PROVE  PairingEligible(g[u]) /\ g[u].analysis_position = f.analysis_position
                 <=> u \in InLane(a, r)
    <2>1. Placed(u) => Place(u) = u.teamPosition /\ Place(u) \in Positions
      BY DEF Placed, Place
    <2>2. Placed(r) => Place(r) = r.teamPosition /\ Place(r) \in Positions
      BY DEF Placed, Place
    <2> QED BY <1>5, <2>1, <2>2 DEF Mirrors, Sees, InLane
  <1>6. ASSUME Placed(r)
        PROVE  /\ candidates = {g[u] : u \in facing} /\ own = {g[u] : u \in beside}
               /\ Cardinality(candidates) = Cardinality(facing)
               /\ Cardinality(own) = Cardinality(beside)
    <2>1. \A u \in a.participants : g[u].team_id = u.teamId
      BY DEF Mirrors, Sees
    <2>2. candidates = {g[u] : u \in facing} /\ own = {g[u] : u \in beside}
      <3>1. \A u \in InLane(a, r) : u \in a.participants
        BY DEF InLane
      <3> QED BY <1>5, <1>6, <2>1, <3>1 DEF Team
    <2>3. facing \in SUBSET a.participants /\ beside \in SUBSET a.participants
      BY DEF InLane
    <2> HIDE DEF candidates, own, facing, beside
    <2>4. Cardinality(candidates) = Cardinality(facing)
      BY <2>2, <2>3, MirroredSize
    <2>5. Cardinality(own) = Cardinality(beside)
      BY <2>2, <2>3, MirroredSize
    <2> QED BY <2>2, <2>4, <2>5
  <1>7. \A u, v \in a.participants : g[u] = g[v] => u = v
    BY DEF Mirrors, Sees, Regular
  <1>8. IsFiniteSet(facing) /\ IsFiniteSet(beside)
    <2>1. facing \in SUBSET a.participants /\ beside \in SUBSET a.participants
      BY DEF InLane
    <2> QED BY <2>1, FS_Subset DEF Regular
  <1>9. ASSUME Placed(r) PROVE r \in beside
    BY <1>9 DEF InLane
  <1>10. InLane(a, r) = facing \cup beside /\ \A u \in facing : u.teamId # r.teamId /\ Placed(u)
    BY DEF InLane
  <1>11. \A u \in beside : u.teamId = r.teamId
    OBVIOUS
  <1>12. facing \subseteq a.participants
    BY DEF InLane
  <1>13. /\ Cardinality(facing) = 1 <=> \E u : facing = {u}
         /\ Cardinality(beside) = 1 <=> \E u : beside = {u}
    BY <1>8, FS_Singleton
  <1> HIDE DEF candidates, own, result, facing, beside, f
  <1>14. ASSUME result.status = "resolved_unique", g[s] \in result.opponents
         PROVE  Meets(a, r, s)
    <2>1. Full(a) /\ Placed(r) /\ Cardinality(facing) = 1 /\ Cardinality(beside) = 1
      BY <1>1, <1>3, <1>4, <1>6, <1>14
    <2>2. PICK u \in facing : g[s] = g[u]
      BY <1>2, <1>6, <1>14, <2>1
    <2>3. s \in facing
      BY <1>7, <1>12, <2>2
    <2>4. facing = {s} /\ beside = {r}
      BY <1>9, <1>13, <2>1, <2>3
    <2> QED BY <1>10, <2>1, <2>4 DEF Meets
  <1>15. ASSUME Meets(a, r, s)
         PROVE  result.status = "resolved_unique" /\ g[s] \in result.opponents
    <2>1. facing = {s} /\ beside = {r}
      BY <1>15 DEF facing, beside, Meets
    <2>2. Cardinality(facing) = 1 /\ Cardinality(beside) = 1
      BY <1>13, <2>1
    <2>3. result.status = "resolved_unique"
      BY <1>1, <1>3, <1>4, <1>6, <1>15, <2>2 DEF Meets
    <2> QED BY <1>2, <1>6, <1>15, <2>1, <2>3 DEF Meets
  <1>16. result.opponents \subseteq rows
    BY <1>1
  <1> QED BY <1>14, <1>15, <1>16 DEF result, f

\* The observation of a seat.
ObservationOf(a, r) == Observation(FeatureRows(a), FeatureOf(a, r))

\* An observation that says what a reader of the payload would say of the seat.
Observes(o, a, r) ==
    /\ o.match_id = a.match_id /\ o.participant_id = r.participantId
    /\ o.public_patch = a.public_patch /\ o.team_id = r.teamId
    /\ o.champion_id = r.championId /\ o.win = r.win
    /\ Place(r) \in Positions => o.analysis_position = Place(r)
    /\ Place(r) \notin Positions => o.analysis_position = Missing
    /\ \A s \in a.participants :
          (o.matchup_eligible /\ s.participantId \in o.lane_opponent)
             <=> <<r, s>> \in LaneContests(a)
    /\ o.synergy_eligible <=>
          a.gameDuration >= ShortGame /\ Cardinality(Side(a, r.teamId)) = TeamSize

\* Two seats face each other.
LEMMA ContestIs ==
  ASSUME NEW a, NEW r \in a.participants, NEW s \in a.participants
  PROVE  <<r, s>> \in LaneContests(a) <=>
           a.gameDuration >= ShortGame /\ Meets(a, r, s)
  BY DEF LaneContests, Meets, Full, InLane

\* Stage 3.3A has one observation of a seat.
LEMMA ObservationsAre ==
  ASSUME SInv, Published(drafts)
  PROVE  /\ \A o : o \in drafts.participants <=>
                     \E a \in Payloads : \E r \in a.participants : o = ObservationOf(a, r)
         /\ \A a \in Payloads : \A r \in a.participants : Observes(ObservationOf(a, r), a, r)
  <1>1. Published(features) /\ Published(canonical)
    BY DEF SInv, StagesAre
  <1> DEFINE featuresOf(id) == {f \in features.participants : f.match_id = id}
             seen(f) == Observation(featuresOf(f.match_id), f)
  <1>2. drafts.participants = {seen(f) : f \in features.participants}
    <2>1. \A n : DraftDataset(canonical, features, n).rows.participants
                   = {seen(f) : f \in features.participants}
      BY DEF DraftDataset
    <2> HIDE DEF seen
    <2> QED BY <2>1 DEF SInv, StagesAre
  <1>3. ASSUME NEW a \in Payloads, NEW r \in a.participants
        PROVE  seen(FeatureOf(a, r)) = ObservationOf(a, r)
    <2>1. FeatureOf(a, r).match_id = a.match_id
      BY <1>1, FeatureSees DEF Sees
    <2>2. featuresOf(a.match_id) = FeatureRows(a)
      BY <1>1, FeaturesAre
    <2> QED BY <2>1, <2>2 DEF ObservationOf
  <1>4. \A f : f \in features.participants <=>
                 \E a \in Payloads : \E r \in a.participants : f = FeatureOf(a, r)
    BY <1>1, FeaturesAre DEF FeatureRows
  <1> HIDE DEF seen
  <1>5. \A o : o \in drafts.participants <=>
                 \E a \in Payloads : \E r \in a.participants : o = ObservationOf(a, r)
    BY <1>2, <1>3, <1>4
  <1>6. ASSUME NEW a \in Payloads, NEW r \in a.participants
        PROVE  Observes(ObservationOf(a, r), a, r)
    <2> DEFINE g == [s \in a.participants |-> FeatureOf(a, s)]
               rows == FeatureRows(a)
               f == FeatureOf(a, r)
               o == ObservationOf(a, r)
               lane == LaneResolution(rows, f)
    <2>1. Regular(a)
      BY <1>1, RegularPayloads
    <2>2. Mirrors(g, a) /\ rows = {g[s] : s \in a.participants}
      BY <1>1, FeatureSees DEF Mirrors, FeatureRows
    <2>3. g[r] = f
      OBVIOUS
    <2>4. Sees(f, a, r)
      BY <1>1, FeatureSees
    <2>5. /\ o.match_id = f.match_id /\ o.participant_id = f.participant_id
          /\ o.public_patch = f.public_patch /\ o.team_id = f.team_id
          /\ o.champion_id = f.champion_id /\ o.win = f.win
          /\ o.analysis_position = f.analysis_position
          /\ o.lane_opponent = {h.participant_id : h \in lane.opponents}
          /\ o.matchup_eligible <=> /\ f.exclusion_reasons = {}
                                    /\ f.role_exclusion_reasons = {}
                                    /\ lane.status = "resolved_unique"
          /\ o.synergy_eligible <=> /\ f.exclusion_reasons = {}
                                    /\ Cardinality(Team(rows, f.team_id)) = TeamSize
      BY DEF ObservationOf, Observation
    <2> HIDE DEF f, g, rows, o, lane
    <2>6. lane.opponents \subseteq rows
      BY <2>1, <2>2, <2>3, LaneIs DEF lane
    <2>7. Cardinality(Team(rows, f.team_id)) = Cardinality(Side(a, r.teamId))
      BY <2>1, <2>2, <2>3, <2>4, MirroredTeams DEF Sees
    <2>8. ASSUME NEW s \in a.participants
          PROVE  (o.matchup_eligible /\ s.participantId \in o.lane_opponent)
                    <=> <<r, s>> \in LaneContests(a)
      <3>1. s.participantId \in o.lane_opponent <=> g[s] \in lane.opponents
        <4>1. \A u \in a.participants : g[u].participant_id = u.participantId
          BY <2>2 DEF Mirrors, Sees
        <4>2. \A u \in a.participants : u.participantId = s.participantId => u = s
          BY <2>1 DEF Regular
        <4> QED BY <2>2, <2>5, <2>6, <4>1, <4>2
      <3>2. (lane.status = "resolved_unique" /\ g[s] \in lane.opponents)
              <=> Meets(a, r, s)
        <4>1. (LaneResolution(rows, g[r]).status = "resolved_unique"
                  /\ g[s] \in LaneResolution(rows, g[r]).opponents) <=> Meets(a, r, s)
          BY <2>1, <2>2, LaneIs
        <4> QED BY <2>3, <4>1 DEF lane
      <3>3. /\ f.exclusion_reasons = {} <=> a.gameDuration >= ShortGame
            /\ f.role_exclusion_reasons = {} <=> a.gameDuration >= ShortGame /\ Placed(r)
        BY <2>4 DEF Sees
      <3> QED BY <2>5, <3>1, <3>2, <3>3, ContestIs DEF Meets
    <2> QED BY <2>4, <2>5, <2>7, <2>8 DEF Sees, Observes, o
  <1> QED BY <1>5, <1>6

\* A participant that has won is of the team that has: otherwise the composition of its
\* team and the team's row would have closed the gate of Stage 3.3A.  Stage 3.2 reports
\* a member of that team that has not.
LEMMA WinnersWin ==
  ASSUME SInv, Published(drafts), NEW a \in Payloads, NEW r \in a.participants
  PROVE  /\ r.win \in BOOLEAN
         /\ r.win => r.teamId = Winner(a)
         /\ features.reported = {} => (r.win <=> r.teamId = Winner(a))
  <1>1. Published(features) /\ Published(canonical)
    BY DEF SInv, StagesAre
  <1>2. /\ Regular(a)
        /\ \A b \in Payloads : b.match_id = a.match_id => b = a
    BY <1>1, RegularPayloads
  <1>3. ASSUME r.win PROVE r.teamId = Winner(a)
    <2> DEFINE featuresOf(id) == {f \in features.participants : f.match_id = id}
               participants == {Observation(featuresOf(f.match_id), f) :
                                   f \in features.participants}
               observationsOf(id) == {o \in participants : o.match_id = id}
               contextOf(id) == CHOOSE c \in features.contexts : c.match_id = id
               opponentOf(t) == CHOOSE u \in features.teams :
                                   u.match_id = t.match_id /\ u.team_id # t.team_id
               team(t) == TeamObservation(contextOf(t.match_id), observationsOf(t.match_id),
                                          t, opponentOf(t))
               teams == {team(t) : t \in features.teams}
               contexts == {DraftContext(c, observationsOf(c.match_id)) : c \in features.contexts}
               made == [participants |-> participants, teams |-> teams, contexts |-> contexts]
    <2>1. /\ drafts = made /\ OutputsReconcile(canonical, made)
      <3>1. \A n : LET d == DraftDataset(canonical, features, n) IN
                   d.rows = made /\ (d.ready => OutputsReconcile(canonical, made))
        BY DEF DraftDataset
      <3> HIDE DEF made
      <3> QED BY <3>1 DEF SInv, StagesAre
    <2>2. /\ drafts.participants = participants /\ drafts.teams = teams
          /\ drafts.contexts = contexts /\ OutputsReconcile(canonical, drafts)
      BY <2>1
    <2>3. \A t : /\ team(t).match_id = t.match_id /\ team(t).team_id = t.team_id
                 /\ team(t).win = t.win
      BY DEF TeamObservation
    <2> HIDE DEF team
    <2>4. \A u \in drafts.teams : \E t \in features.teams :
             u.match_id = t.match_id /\ u.team_id = t.team_id /\ u.win = t.win
      BY <2>2, <2>3
    <2> DEFINE rows == {o \in drafts.participants : o.match_id = a.match_id}
               context == DraftContext(ContextOf(a), rows)
    <2>5. context \in drafts.contexts /\ context.match_id = a.match_id
      <3>1. ContextOf(a) \in features.contexts /\ ContextOf(a).match_id = a.match_id
        BY <1>1, ContextsAre
      <3>2. observationsOf(a.match_id) = rows
        BY <2>2
      <3>3. context \in contexts
        <4> HIDE DEF participants, rows
        <4> QED BY <3>1, <3>2
      <3>4. context.match_id = ContextOf(a).match_id
        BY DEF DraftContext
      <3> QED BY <2>2, <3>1, <3>3, <3>4
    <2> HIDE DEF participants, teams, contexts, made
    <2>6. \E o \in rows : o.team_id = r.teamId /\ o.win
      <3>1. ObservationOf(a, r) \in drafts.participants
        BY ObservationsAre
      <3> QED BY <1>3, <3>1, ObservationsAre DEF Observes
    <2> DEFINE x == [team_id |-> r.teamId,
                     champions |-> {<<o.participant_id, o.champion_id>> :
                                       o \in Team(rows, r.teamId)},
                     win |-> \E o \in Team(rows, r.teamId) : o.win]
    <2>7. x \in context.compositions
      <3>1. r.teamId \in TeamIds(rows)
        BY <2>6 DEF TeamIds
      <3> HIDE DEF rows
      <3> QED BY <3>1 DEF DraftContext
    <2>8. \A c \in drafts.contexts : c.compositions =
             {[team_id |-> t.team_id, champions |-> t.champions, win |-> t.win] :
                 t \in {u \in drafts.teams : u.match_id = c.match_id}}
      BY <2>2 DEF OutputsReconcile
    <2>9. PICK t \in drafts.teams :
             /\ t.match_id = a.match_id
             /\ x = [team_id |-> t.team_id, champions |-> t.champions, win |-> t.win]
      <3> HIDE DEF x, context
      <3> QED BY <2>5, <2>7, <2>8
    <2>10. t.team_id = r.teamId /\ t.win
      <3>1. \E o \in Team(rows, r.teamId) : o.win
        BY <2>6 DEF Team
      <3>2. x.team_id = r.teamId /\ x.win
        BY <3>1
      <3> HIDE DEF x
      <3> QED BY <2>9, <3>2
    <2>11. PICK b \in Payloads : \E u \in b.teams :
              t.match_id = b.match_id /\ t.team_id = u.teamId /\ t.win = u.win
      BY <1>1, <2>4, TeamsAre
    <2>12. b = a
      BY <1>2, <2>9, <2>11
    <2> QED BY <1>2, <2>10, <2>11, <2>12 DEF Regular
  <1>4. ASSUME features.reported = {} PROVE r.win <=> r.teamId = Winner(a)
    <2>1. PICK u \in a.teams : u.teamId = r.teamId
      BY <1>2 DEF Regular
    <2>2. PICK t \in features.teams :
             t.match_id = a.match_id /\ t.team_id = u.teamId /\ t.win = u.win
      BY <1>1, TeamsAre
    <2>3. FeatureOf(a, r) \in features.participants /\ Sees(FeatureOf(a, r), a, r)
      BY <1>1, FeaturesAre, FeatureSees DEF FeatureRows
    <2>4. FeatureOf(a, r).win = t.win
      BY <1>1, <1>4, <2>1, <2>2, <2>3, TeamsAre DEF Sees
    <2> QED BY <1>2, <2>1, <2>2, <2>3, <2>4 DEF Sees, Regular
  <1>5. r.win \in BOOLEAN
    BY <1>2 DEF Regular
  <1> QED BY <1>3, <1>4, <1>5
-----------------------------------------------------------------------------
(* The rows of an aggregate and the games a reader counts.                 *)

\* Two sets whose members are paired off, each with one of the other.
PairedOff(S, T, R) ==
    /\ \A x \in S : \E y \in T : <<x, y>> \in R
    /\ \A y \in T : \E x \in S : <<x, y>> \in R
    /\ \A x \in S : \A y, z \in T : <<x, y>> \in R /\ <<x, z>> \in R => y = z
    /\ \A x, u \in S : \A y \in T : <<x, y>> \in R /\ <<u, y>> \in R => x = u

\* Such sets are of one size.
LEMMA PairedSize ==
  ASSUME NEW S, NEW T, NEW R, IsFiniteSet(T), PairedOff(S, T, R)
  PROVE  Cardinality(S) = Cardinality(T)
  <1> DEFINE h == [x \in S |-> CHOOSE y \in T : <<x, y>> \in R]
  <1>1. \A x \in S : h[x] \in T /\ <<x, h[x]>> \in R
    BY DEF PairedOff
  <1>2. h \in [S -> T]
    BY <1>1
  <1> HIDE DEF h
  <1>3. \A x, y \in S : h[x] = h[y] => x = y
    BY <1>1 DEF PairedOff
  <1>4. \A y \in T : \E x \in S : h[x] = y
    BY <1>1 DEF PairedOff
  <1>5. h \in Injection(S, T) /\ h \in Surjection(S, T)
    BY <1>2, <1>3, <1>4 DEF Injection, Surjection, IsInjective
  <1> QED BY <1>5, FS_Injection

\* Rows are counted when they are paired off with games and have their outcomes.
LEMMA CountedPairs ==
  ASSUME NEW rows, NEW games, NEW R, IsFiniteSet(games), PairedOff(rows, games, R),
         \A x \in rows : \A y \in games :
            <<x, y>> \in R => (x.win <=> y[2].teamId = Winner(y[1])),
         NEW data, NEW target
  PROVE  Counted(Bundle(rows, data, target), games)
  <1> DEFINE won == {x \in rows : x.win}
             taken == {y \in games : y[2].teamId = Winner(y[1])}
  <1>1. Cardinality(rows) = Cardinality(games)
    BY PairedSize
  <1>2. Cardinality(won) = Cardinality(taken)
    <2>1. IsFiniteSet(taken)
      <3>1. taken \in SUBSET games
        OBVIOUS
      <3> QED BY <3>1, FS_Subset
    <2>2. PairedOff(won, taken, R)
      BY DEF PairedOff
    <2> HIDE DEF won, taken
    <2> QED BY <2>1, <2>2, PairedSize
  <1>3. /\ Bundle(rows, data, target).statistics.games = Cardinality(rows)
        /\ Bundle(rows, data, target).statistics.wins = Cardinality(won)
    BY DEF Bundle, Statistics
  <1> QED BY <1>1, <1>2, <1>3 DEF Counted

\* Rows and games that the same things are the sources of, one row of what is one game.
Images(f, T, rows) == \A x : x \in rows <=> \E t \in T : x = f[t]
Alike(f, g, T) == /\ \A t, u \in T : f[t] = f[u] <=> g[t] = g[u]
                  /\ \A t \in T : f[t].win <=> g[t][2].teamId = Winner(g[t][1])

\* Such rows are counted.
LEMMA CountedRows ==
  ASSUME NEW T, NEW f, NEW g, NEW rows, NEW games, IsFiniteSet(games),
         Images(f, T, rows), Images(g, T, games), Alike(f, g, T),
         NEW data, NEW target
  PROVE  Counted(Bundle(rows, data, target), games)
  <1> DEFINE R == {<<f[t], g[t]>> : t \in T}
  <1>1. \A x, y : <<x, y>> \in R <=> \E t \in T : x = f[t] /\ y = g[t]
    OBVIOUS
  <1> HIDE DEF R
  <1>2. /\ \A x \in rows : \E y \in games : <<x, y>> \in R
        /\ \A y \in games : \E x \in rows : <<x, y>> \in R
    <2>1. \A t \in T : f[t] \in rows /\ g[t] \in games /\ <<f[t], g[t]>> \in R
      BY <1>1 DEF Images
    <2> QED BY <2>1 DEF Images
  <1>3. \A x \in rows : \A y, z \in games : <<x, y>> \in R /\ <<x, z>> \in R => y = z
    BY <1>1 DEF Alike
  <1>4. \A x, w \in rows : \A y \in games : <<x, y>> \in R /\ <<w, y>> \in R => x = w
    BY <1>1 DEF Alike
  <1>5. \A x \in rows : \A y \in games :
           <<x, y>> \in R => (x.win <=> y[2].teamId = Winner(y[1]))
    BY <1>1 DEF Alike
  <1>6. PairedOff(rows, games, R)
    BY <1>2, <1>3, <1>4 DEF PairedOff
  <1> QED BY <1>5, <1>6, CountedPairs
-----------------------------------------------------------------------------
(* The contributions of Stage 3.3B, as those of the payloads.              *)

InWindow(a, target) == target - a.public_patch <= MaxPreviousPatches
KeyOf(r, s) == <<<<r.championId, Place(r)>>, <<s.championId, Place(s)>>>>

\* What a seat contributes against another, or beside another.
Contribution(a, r, s, source) ==
    [match_id |-> a.match_id, team_id |-> r.teamId, public_patch |-> a.public_patch,
     win |-> r.win, key |-> KeyOf(r, s), source |-> source]

\* The numbers of two seats.
SeatsOf(r, s) == <<r.participantId, s.participantId>>

\* What a lane contest contributes to its matchup, and two companions to their synergy.
Contends(c, a, r, s, target) == /\ InWindow(a, target) /\ <<r, s>> \in LaneContests(a)
                                /\ c = Contribution(a, r, s, r.participantId)
Accompanies(c, a, r, s, target) == /\ InWindow(a, target) /\ <<r, s>> \in Companions(a)
                                   /\ c = Contribution(a, r, s, SeatsOf(r, s))

\* The observations of the window are those of the payloads of the window.
LEMMA ScopeIs ==
  ASSUME SInv, Published(drafts), NEW a \in Payloads, NEW r \in a.participants, NEW target
  PROVE  ObservationOf(a, r) \in InScope(drafts, target) <=> InWindow(a, target)
  <1>1. ObservationOf(a, r) \in drafts.participants
    BY ObservationsAre
  <1>2. ObservationOf(a, r).public_patch = a.public_patch
    BY ObservationsAre DEF Observes
  <1> QED BY <1>1, <1>2 DEF InScope, Scope, InWindow

\* What an observation contributes against another, or beside another.
RowOf(o, p, source) ==
    [match_id |-> o.match_id, team_id |-> o.team_id, public_patch |-> o.public_patch,
     win |-> o.win, key |-> <<PickOf(o), PickOf(p)>>, source |-> source]
SourceOf(o, p) == <<o.participant_id, p.participant_id>>

\* One observation names another as its lane opponent, or is of the team of another.
Opposes(o, p) == /\ o.matchup_eligible /\ p.match_id = o.match_id
                 /\ p.participant_id \in o.lane_opponent
Joins(o, p) == /\ p.match_id = o.match_id /\ p.team_id = o.team_id
               /\ p.participant_id # o.participant_id /\ p.analysis_position # Missing
Accompanied(o, p) == o.synergy_eligible /\ o.analysis_position # Missing /\ Joins(o, p)

\* There is one matchup contribution of two opposed observations of the window.
LEMMA MatchupRowsAre ==
  ASSUME NEW target
  PROVE  \A c : c \in MatchupContributions(drafts, target) <=>
            \E o \in InScope(drafts, target) : \E p \in drafts.participants :
               Opposes(o, p) /\ c = RowOf(o, p, o.participant_id)
  <1> DEFINE all == MatchupContributions(drafts, target)
  <1>1. all = {RowOf(q[1], q[2], q[1].participant_id) :
                  q \in {x \in InScope(drafts, target) \X drafts.participants :
                            Opposes(x[1], x[2])}}
    <2> DEFINE meets(o, p) == /\ o.matchup_eligible /\ o.match_id = p.match_id
                              /\ p.participant_id \in o.lane_opponent
               made(o, p) ==
                  [match_id |-> o.match_id, team_id |-> o.team_id,
                   public_patch |-> o.public_patch, win |-> o.win,
                   key |-> <<PickOf(o), PickOf(p)>>, source |-> o.participant_id]
    <2>1. all = {made(q[1], q[2]) :
                 q \in {x \in InScope(drafts, target) \X drafts.participants : meets(x[1], x[2])}}
      BY DEF MatchupContributions
    <2>2. \A o, p : meets(o, p) <=> Opposes(o, p)
      BY DEF Opposes
    <2>3. \A o, p : made(o, p) = RowOf(o, p, o.participant_id)
      BY DEF RowOf
    <2> HIDE DEF made, meets, all
    <2> QED BY <2>1, <2>2, <2>3
  <1> HIDE DEF all
  <1>2. ASSUME NEW c \in all
        PROVE  \E o \in InScope(drafts, target) : \E p \in drafts.participants :
                  Opposes(o, p) /\ c = RowOf(o, p, o.participant_id)
    <2>1. PICK q \in {x \in InScope(drafts, target) \X drafts.participants :
                         Opposes(x[1], x[2])} : c = RowOf(q[1], q[2], q[1].participant_id)
      BY <1>1
    <2>2. q[1] \in InScope(drafts, target) /\ q[2] \in drafts.participants
      BY <2>1
    <2> QED BY <2>1, <2>2
  <1>3. ASSUME NEW o \in InScope(drafts, target), NEW p \in drafts.participants, Opposes(o, p)
        PROVE  RowOf(o, p, o.participant_id) \in all
    <2> DEFINE q == <<o, p>>
    <2>1. /\ q \in InScope(drafts, target) \X drafts.participants
          /\ q[1] = o /\ q[2] = p
      OBVIOUS
    <2> HIDE DEF q
    <2> QED BY <1>1, <1>3, <2>1
  <1> QED BY <1>2, <1>3 DEF all

\* And one synergy contribution of two accompanied ones.
LEMMA SynergyRowsAre ==
  ASSUME NEW target
  PROVE  \A c : c \in SynergyContributions(drafts, target) <=>
            \E o \in InScope(drafts, target) : \E p \in drafts.participants :
               /\ Accompanied(o, p)
               /\ c = RowOf(o, p, SourceOf(o, p))
  <1> DEFINE all == SynergyContributions(drafts, target)
  <1>1. all = {RowOf(q[1], q[2], SourceOf(q[1], q[2])) :
                  q \in {x \in InScope(drafts, target) \X drafts.participants :
                            Accompanied(x[1], x[2])}}
    <2> DEFINE meets(o, p) == /\ o.synergy_eligible
                              /\ o.match_id = p.match_id
                              /\ o.team_id = p.team_id
                              /\ o.participant_id # p.participant_id
                              /\ o.analysis_position # Missing
                              /\ p.analysis_position # Missing
               made(o, p) ==
                  [match_id |-> o.match_id, team_id |-> o.team_id,
                   public_patch |-> o.public_patch, win |-> o.win,
                   key |-> <<PickOf(o), PickOf(p)>>,
                   source |-> <<o.participant_id, p.participant_id>>]
    <2>1. all = {made(q[1], q[2]) :
                 q \in {x \in InScope(drafts, target) \X drafts.participants : meets(x[1], x[2])}}
      BY DEF SynergyContributions
    <2>2. \A o, p : meets(o, p) <=> Accompanied(o, p)
      BY DEF Accompanied, Joins
    <2>3. \A o, p : made(o, p) = RowOf(o, p, SourceOf(o, p))
      BY DEF RowOf, SourceOf
    <2> HIDE DEF made, meets, all
    <2> QED BY <2>1, <2>2, <2>3
  <1> HIDE DEF all
  <1>2. ASSUME NEW c \in all
        PROVE  \E o \in InScope(drafts, target) : \E p \in drafts.participants :
                  /\ Accompanied(o, p)
                  /\ c = RowOf(o, p, SourceOf(o, p))
    <2>1. PICK q \in {x \in InScope(drafts, target) \X drafts.participants :
                         Accompanied(x[1], x[2])} :
             c = RowOf(q[1], q[2], SourceOf(q[1], q[2]))
      BY <1>1
    <2>2. q[1] \in InScope(drafts, target) /\ q[2] \in drafts.participants
      BY <2>1
    <2> QED BY <2>1, <2>2
  <1>3. ASSUME NEW o \in InScope(drafts, target), NEW p \in drafts.participants,
               Accompanied(o, p)
        PROVE  RowOf(o, p, SourceOf(o, p)) \in all
    <2> DEFINE q == <<o, p>>
    <2>1. /\ q \in InScope(drafts, target) \X drafts.participants
          /\ q[1] = o /\ q[2] = p
      OBVIOUS
    <2> HIDE DEF q
    <2> QED BY <1>1, <1>3, <2>1
  <1> QED BY <1>2, <1>3 DEF all

\* There is one matchup contribution of a lane contest.
LEMMA MatchupsAre ==
  ASSUME SInv, Published(drafts), NEW target
  PROVE  \A c : c \in MatchupContributions(drafts, target) <=>
            \E a \in Payloads : \E r \in a.participants : \E s \in a.participants :
               Contends(c, a, r, s, target)
  <1> DEFINE made(o, p) == RowOf(o, p, o.participant_id)
  <1>0. Published(canonical)
    BY DEF SInv, StagesAre
  <1>1. \A c : c \in MatchupContributions(drafts, target) <=>
                 \E o \in InScope(drafts, target) : \E p \in drafts.participants :
                    Opposes(o, p) /\ c = made(o, p)
    BY MatchupRowsAre
  <1>2. ASSUME NEW a \in Payloads, NEW r \in a.participants, NEW s \in a.participants,
               <<r, s>> \in LaneContests(a)
        PROVE  made(ObservationOf(a, r), ObservationOf(a, s))
                 = Contribution(a, r, s, r.participantId)
    <2>1. Observes(ObservationOf(a, r), a, r) /\ Observes(ObservationOf(a, s), a, s)
      BY ObservationsAre
    <2>2. Place(r) \in Positions /\ Place(s) \in Positions
      BY <1>2, ContestIs DEF Meets, Placed, Place
    <2> QED BY <2>1, <2>2 DEF Observes, PickOf, KeyOf, Contribution, RowOf
  <1> HIDE DEF made
  <1>3. \A a, b \in Payloads : a.match_id = b.match_id => a = b
    BY <1>0, RegularPayloads
  <1> TAKE c
  <1>4. ASSUME c \in MatchupContributions(drafts, target)
        PROVE  \E a \in Payloads : \E r \in a.participants : \E s \in a.participants :
                  Contends(c, a, r, s, target)
    <2>1. PICK o \in InScope(drafts, target) : \E p \in drafts.participants :
             Opposes(o, p) /\ c = made(o, p)
      BY <1>1, <1>4
    <2>2. PICK p \in drafts.participants : Opposes(o, p) /\ c = made(o, p)
      BY <2>1
    <2>3. PICK a \in Payloads : \E r \in a.participants : o = ObservationOf(a, r)
      BY ObservationsAre DEF InScope
    <2>4. PICK r \in a.participants : o = ObservationOf(a, r)
      BY <2>3
    <2>5. PICK b \in Payloads : \E s \in b.participants : p = ObservationOf(b, s)
      BY ObservationsAre
    <2>6. PICK s \in b.participants : p = ObservationOf(b, s)
      BY <2>5
    <2>7. Observes(o, a, r) /\ Observes(p, b, s)
      BY <2>4, <2>6, ObservationsAre
    <2>8. b = a
      BY <1>3, <2>2, <2>7 DEF Observes, Opposes
    <2>9. <<r, s>> \in LaneContests(a)
      BY <2>2, <2>7, <2>8 DEF Observes, Opposes
    <2>10. c = Contribution(a, r, s, r.participantId)
      BY <1>2, <2>2, <2>4, <2>6, <2>8, <2>9
    <2>11. InWindow(a, target)
      BY <2>4, ScopeIs
    <2>12. Contends(c, a, r, s, target)
      BY <2>9, <2>10, <2>11 DEF Contends
    <2> QED BY <2>8, <2>12
  <1>5. ASSUME NEW a \in Payloads, NEW r \in a.participants, NEW s \in a.participants,
               Contends(c, a, r, s, target)
        PROVE  c \in MatchupContributions(drafts, target)
    <2> DEFINE o == ObservationOf(a, r)
               p == ObservationOf(a, s)
    <2>0. /\ InWindow(a, target) /\ <<r, s>> \in LaneContests(a)
          /\ c = Contribution(a, r, s, r.participantId)
      BY <1>5 DEF Contends
    <2>1. o \in InScope(drafts, target) /\ p \in drafts.participants
      BY <2>0, ScopeIs, ObservationsAre
    <2>2. Observes(o, a, r) /\ Observes(p, a, s)
      BY ObservationsAre
    <2>3. c = made(o, p)
      BY <1>2, <2>0
    <2> HIDE DEF o, p
    <2>4. Opposes(o, p)
      BY <2>0, <2>2 DEF Observes, Opposes
    <2> QED BY <1>1, <2>1, <2>3, <2>4
  <1> QED BY <1>4, <1>5

\* And one synergy contribution of a pair of companions.
LEMMA SynergiesAre ==
  ASSUME SInv, Published(drafts), NEW target
  PROVE  \A c : c \in SynergyContributions(drafts, target) <=>
            \E a \in Payloads : \E r \in a.participants : \E s \in a.participants :
               Accompanies(c, a, r, s, target)
  <1> DEFINE made(o, p) == RowOf(o, p, SourceOf(o, p))
  <1>0. Published(canonical)
    BY DEF SInv, StagesAre
  <1>1. \A c : c \in SynergyContributions(drafts, target) <=>
                 \E o \in InScope(drafts, target) : \E p \in drafts.participants :
                    Accompanied(o, p) /\ c = made(o, p)
    BY SynergyRowsAre
  <1>2. ASSUME NEW a \in Payloads, NEW r \in a.participants, NEW s \in a.participants
        PROVE  /\ Accompanied(ObservationOf(a, r), ObservationOf(a, s)) <=> <<r, s>> \in Companions(a)
               /\ <<r, s>> \in Companions(a) =>
                     made(ObservationOf(a, r), ObservationOf(a, s))
                       = Contribution(a, r, s, SeatsOf(r, s))
    <2> DEFINE o == ObservationOf(a, r)
               p == ObservationOf(a, s)
    <2>1. Observes(o, a, r) /\ Observes(p, a, s)
      BY ObservationsAre
    <2>2. \A u, v \in a.participants : u.participantId = v.participantId => u = v
      BY <1>0, RegularPayloads DEF Regular
    <2>3. <<r, s>> \in Companions(a) <=>
            /\ a.gameDuration >= ShortGame /\ r # s /\ r.teamId = s.teamId
            /\ Cardinality(Side(a, r.teamId)) = TeamSize
            /\ Place(r) \in Positions /\ Place(s) \in Positions
      BY DEF Companions
    <2> HIDE DEF o, p
    <2>4. /\ o.analysis_position # Missing <=> Place(r) \in Positions
          /\ p.analysis_position # Missing <=> Place(s) \in Positions
      BY <2>1, PositionsAssumption DEF Observes
    <2>5. Accompanied(o, p) <=> <<r, s>> \in Companions(a)
      BY <2>1, <2>2, <2>3, <2>4 DEF Observes, Accompanied, Joins
    <2>6. <<r, s>> \in Companions(a) =>
             made(o, p) = Contribution(a, r, s, SeatsOf(r, s))
      BY <2>1, <2>3 DEF Observes, PickOf, KeyOf, Contribution, SeatsOf, RowOf, SourceOf
    <2> QED BY <2>5, <2>6 DEF o, p
  <1>3. \A a, b \in Payloads : a.match_id = b.match_id => a = b
    BY <1>0, RegularPayloads
  <1>4. \A o, p : Accompanied(o, p) => o.match_id = p.match_id
    BY DEF Accompanied, Joins
  <1> HIDE DEF made
  <1> TAKE c
  <1>5. ASSUME c \in SynergyContributions(drafts, target)
        PROVE  \E a \in Payloads : \E r \in a.participants : \E s \in a.participants :
                  Accompanies(c, a, r, s, target)
    <2>1. PICK o \in InScope(drafts, target) : \E p \in drafts.participants :
             Accompanied(o, p) /\ c = made(o, p)
      BY <1>1, <1>5
    <2>2. PICK p \in drafts.participants : Accompanied(o, p) /\ c = made(o, p)
      BY <2>1
    <2>3. PICK a \in Payloads : \E r \in a.participants : o = ObservationOf(a, r)
      BY ObservationsAre DEF InScope
    <2>4. PICK r \in a.participants : o = ObservationOf(a, r)
      BY <2>3
    <2>5. PICK b \in Payloads : \E s \in b.participants : p = ObservationOf(b, s)
      BY ObservationsAre
    <2>6. PICK s \in b.participants : p = ObservationOf(b, s)
      BY <2>5
    <2>7. Observes(o, a, r) /\ Observes(p, b, s)
      BY <2>4, <2>6, ObservationsAre
    <2>8. b = a
      BY <1>3, <1>4, <2>2, <2>7 DEF Observes
    <2>9. /\ <<r, s>> \in Companions(a)
          /\ c = Contribution(a, r, s, SeatsOf(r, s))
      BY <1>2, <2>2, <2>4, <2>6, <2>8
    <2>10. InWindow(a, target)
      BY <2>4, ScopeIs
    <2>11. Accompanies(c, a, r, s, target)
      BY <2>9, <2>10 DEF Accompanies
    <2> QED BY <2>8, <2>11
  <1>6. ASSUME NEW a \in Payloads, NEW r \in a.participants, NEW s \in a.participants,
               Accompanies(c, a, r, s, target)
        PROVE  c \in SynergyContributions(drafts, target)
    <2> DEFINE o == ObservationOf(a, r)
               p == ObservationOf(a, s)
    <2>0. /\ InWindow(a, target) /\ <<r, s>> \in Companions(a)
          /\ c = Contribution(a, r, s, SeatsOf(r, s))
      BY <1>6 DEF Accompanies
    <2>1. o \in InScope(drafts, target) /\ p \in drafts.participants
      BY <2>0, ScopeIs, ObservationsAre
    <2>2. c = made(o, p) /\ Accompanied(o, p)
      BY <1>2, <2>0
    <2> HIDE DEF o, p
    <2> QED BY <1>1, <2>1, <2>2
  <1> QED BY <1>5, <1>6

\* The seats of a population are finitely many, as their observations are.
LEMMA FiniteSeats ==
  ASSUME SInv, Published(drafts), NEW games,
         \A x \in games : \E a \in Payloads : \E r \in a.participants : x = <<a, r>>
  PROVE  IsFiniteSet(games)
  <1> DEFINE f == [x \in games |-> ObservationOf(x[1], x[2])]
  <1>0. Published(canonical)
    BY DEF SInv, StagesAre
  <1>1. \A x \in games : f[x] \in drafts.participants
    BY ObservationsAre
  <1>2. ASSUME NEW x \in games, NEW y \in games, f[x] = f[y] PROVE x = y
    <2>1. PICK a \in Payloads : \E r \in a.participants : x = <<a, r>>
      OBVIOUS
    <2>2. PICK r \in a.participants : x = <<a, r>>
      BY <2>1
    <2>3. PICK b \in Payloads : \E s \in b.participants : y = <<b, s>>
      OBVIOUS
    <2>4. PICK s \in b.participants : y = <<b, s>>
      BY <2>3
    <2>5. ObservationOf(a, r) = ObservationOf(b, s)
      BY <1>2, <2>2, <2>4
    <2>6. a.match_id = b.match_id /\ r.participantId = s.participantId
      BY <2>5, ObservationsAre DEF Observes
    <2>7. a = b
      BY <1>0, <2>6, RegularPayloads
    <2>8. r = s
      BY <1>0, <2>6, <2>7, RegularPayloads DEF Regular
    <2> QED BY <2>2, <2>4, <2>7, <2>8
  <1>3. f \in [games -> drafts.participants]
    BY <1>1
  <1> HIDE DEF f
  <1>4. f \in Injection(games, drafts.participants)
    BY <1>2, <1>3 DEF Injection, IsInjective
  <1>5. IsFiniteSet(drafts.participants)
    BY SourceDrafts DEF Turnable
  <1> QED BY <1>4, <1>5, FS_Injection

\* The pairs of each payload: pairs of its seats, with the contributions they make in
\* the window, the games of a key, and outcomes that are those of the seat's team.
SeatPairs(pairs) ==
    \A a \in Payloads : \A q \in pairs[a] :
       q[1] \in a.participants /\ q[2] \in a.participants /\ q = <<q[1], q[2]>>
Contributed(all, pairs, source, target) ==
    \A c : c \in all <=>
       \E a \in Payloads : \E r \in a.participants : \E s \in a.participants :
          /\ InWindow(a, target) /\ <<r, s>> \in pairs[a]
          /\ c = Contribution(a, r, s, source[<<r, s>>])
GamesOf(games, pairs, key, target) ==
    \A x : x \in games <=>
       \E a \in Payloads : \E q \in pairs[a] :
          InWindow(a, target) /\ key = KeyOf(q[1], q[2]) /\ x = <<a, q[1]>>
OneSource(pairs, source, target) ==
    \A a \in Payloads : \A q \in pairs[a] : \A p \in pairs[a] :
       InWindow(a, target) /\ KeyOf(q[1], q[2]) = KeyOf(p[1], p[2]) =>
          (source[q] = source[p] <=> q[1] = p[1])
WonByTeam(pairs, target) ==
    \A a \in Payloads : \A q \in pairs[a] :
       InWindow(a, target) => (q[1].win <=> q[1].teamId = Winner(a))

\* The pairs are pairs of seats of the payload.
LEMMA SeatsOfPairs ==
  /\ \A a : \A q \in LaneContests(a) :
        q[1] \in a.participants /\ q[2] \in a.participants /\ q = <<q[1], q[2]>>
  /\ \A a : \A q \in Companions(a) :
        q[1] \in a.participants /\ q[2] \in a.participants /\ q = <<q[1], q[2]>>
  BY DEF LaneContests, Companions

\* Then what is contributed for a key is counted, when a seat and its key make up one
\* contribution.
LEMMA CountedContributions ==
  ASSUME SInv, Published(drafts), NEW key, NEW target, NEW pairs, NEW source, NEW all, NEW games,
         SeatPairs(pairs), Contributed(all, pairs, source, target),
         GamesOf(games, pairs, key, target), OneSource(pairs, source, target),
         WonByTeam(pairs, target)
  PROVE  Counted(Bundle({c \in all : c.key = key}, drafts, target), games)
  <1> DEFINE T == {t \in UNION {{<<a, q>> : q \in pairs[a]} : a \in Payloads} :
                     InWindow(t[1], target) /\ key = KeyOf(t[2][1], t[2][2])}
             made(a, q) == Contribution(a, q[1], q[2], source[q])
             f == [t \in T |-> made(t[1], t[2])]
             g == [t \in T |-> <<t[1], t[2][1]>>]
             rows == {c \in all : c.key = key}
  <1>0. \A a, b \in Payloads : a.match_id = b.match_id => a = b
    <2>1. Published(canonical)
      BY DEF SInv, StagesAre
    <2> QED BY <2>1, RegularPayloads
  <1>1. \A a, q : /\ made(a, q).match_id = a.match_id /\ made(a, q).key = KeyOf(q[1], q[2])
                  /\ made(a, q).source = source[q] /\ made(a, q).win = q[1].win
    BY DEF Contribution
  <1>2. \A a, q, p : /\ KeyOf(q[1], q[2]) = KeyOf(p[1], p[2])
                     /\ q[1] = p[1] /\ source[q] = source[p]
                     => made(a, q) = made(a, p)
    BY DEF Contribution
  <1>3. \A t : t \in T <=> /\ t[1] \in Payloads /\ t[2] \in pairs[t[1]] /\ t = <<t[1], t[2]>>
                           /\ InWindow(t[1], target) /\ key = KeyOf(t[2][1], t[2][2])
    <2>1. \A t : t \in UNION {{<<a, q>> : q \in pairs[a]} : a \in Payloads} <=>
                    t[1] \in Payloads /\ t[2] \in pairs[t[1]] /\ t = <<t[1], t[2]>>
      <3>1. \A t : t \in UNION {{<<a, q>> : q \in pairs[a]} : a \in Payloads} <=>
                      \E a \in Payloads : \E q \in pairs[a] : t = <<a, q>>
        OBVIOUS
      <3>2. ASSUME NEW a \in Payloads, NEW q \in pairs[a], NEW t, t = <<a, q>>
            PROVE  t[1] \in Payloads /\ t[2] \in pairs[t[1]] /\ t = <<t[1], t[2]>>
        BY <3>2
      <3> QED BY <3>1, <3>2
    <2> QED BY <2>1
  <1>4. \A t \in T : f[t] = made(t[1], t[2]) /\ g[t] = <<t[1], t[2][1]>>
    OBVIOUS
  <1>5. \A c : c \in all <=> \E a \in Payloads : \E q \in pairs[a] :
                                InWindow(a, target) /\ c = made(a, q)
    <2>1. ASSUME NEW c \in all
          PROVE  \E a \in Payloads : \E q \in pairs[a] : InWindow(a, target) /\ c = made(a, q)
      <3>1. PICK a \in Payloads : \E r \in a.participants : \E s \in a.participants :
               /\ InWindow(a, target) /\ <<r, s>> \in pairs[a]
               /\ c = Contribution(a, r, s, source[<<r, s>>])
        BY DEF Contributed
      <3>2. PICK r \in a.participants : \E s \in a.participants :
               /\ InWindow(a, target) /\ <<r, s>> \in pairs[a]
               /\ c = Contribution(a, r, s, source[<<r, s>>])
        BY <3>1
      <3>3. PICK s \in a.participants :
               /\ InWindow(a, target) /\ <<r, s>> \in pairs[a]
               /\ c = Contribution(a, r, s, source[<<r, s>>])
        BY <3>2
      <3> DEFINE q == <<r, s>>
      <3>4. q \in pairs[a] /\ q[1] = r /\ q[2] = s /\ q = <<r, s>>
        BY <3>3
      <3> HIDE DEF q
      <3>5. c = made(a, q)
        BY <3>3, <3>4
      <3> QED BY <3>3, <3>4, <3>5
    <2>2. ASSUME NEW a \in Payloads, NEW q \in pairs[a], InWindow(a, target)
          PROVE  made(a, q) \in all
      <3>1. q[1] \in a.participants /\ q[2] \in a.participants /\ <<q[1], q[2]>> \in pairs[a]
        BY DEF SeatPairs
      <3>2. made(a, q) = Contribution(a, q[1], q[2], source[<<q[1], q[2]>>])
        BY DEF SeatPairs
      <3> HIDE DEF made
      <3> QED BY <2>2, <3>1, <3>2 DEF Contributed
    <2> HIDE DEF made
    <2> QED BY <2>1, <2>2
  <1> HIDE DEF made
  <1>6. \A c : c \in rows <=> \E t \in T : c = f[t]
    <2>1. ASSUME NEW c \in rows PROVE \E t \in T : c = f[t]
      <3>1. PICK a \in Payloads : \E q \in pairs[a] : InWindow(a, target) /\ c = made(a, q)
        BY <1>5
      <3>2. PICK q \in pairs[a] : InWindow(a, target) /\ c = made(a, q)
        BY <3>1
      <3> DEFINE t == <<a, q>>
      <3>3. t[1] = a /\ t[2] = q /\ t = <<t[1], t[2]>>
        OBVIOUS
      <3>4. key = KeyOf(q[1], q[2])
        BY <1>1, <3>2
      <3> HIDE DEF t, T, f, g
      <3>5. t \in T
        BY <1>3, <3>2, <3>3, <3>4
      <3> QED BY <1>4, <3>2, <3>3, <3>5
    <2>2. ASSUME NEW t \in T PROVE f[t] \in rows
      <3> HIDE DEF T, f, g
      <3>1. f[t] = made(t[1], t[2]) /\ t[1] \in Payloads /\ t[2] \in pairs[t[1]]
            /\ InWindow(t[1], target) /\ key = KeyOf(t[2][1], t[2][2])
        BY <1>3, <1>4
      <3>2. made(t[1], t[2]) \in all /\ made(t[1], t[2]).key = key
        BY <1>1, <1>5, <3>1
      <3> QED BY <3>1, <3>2
    <2> HIDE DEF T, f, g, rows
    <2> QED BY <2>1, <2>2
  <1>7. \A x : x \in games <=> \E t \in T : x = g[t]
    <2>1. ASSUME NEW x \in games PROVE \E t \in T : x = g[t]
      <3>1. PICK a \in Payloads : \E q \in pairs[a] :
               InWindow(a, target) /\ key = KeyOf(q[1], q[2]) /\ x = <<a, q[1]>>
        BY DEF GamesOf
      <3>2. PICK q \in pairs[a] :
               InWindow(a, target) /\ key = KeyOf(q[1], q[2]) /\ x = <<a, q[1]>>
        BY <3>1
      <3> DEFINE t == <<a, q>>
      <3>3. t[1] = a /\ t[2] = q /\ t = <<t[1], t[2]>>
        OBVIOUS
      <3> HIDE DEF t, T, f, g
      <3>4. t \in T
        BY <1>3, <3>2, <3>3
      <3> QED BY <1>4, <3>2, <3>3, <3>4
    <2>2. ASSUME NEW t \in T PROVE g[t] \in games
      <3> HIDE DEF T, f, g
      <3>1. g[t] = <<t[1], t[2][1]>> /\ t[1] \in Payloads /\ t[2] \in pairs[t[1]]
            /\ InWindow(t[1], target) /\ key = KeyOf(t[2][1], t[2][2])
        BY <1>3, <1>4
      <3> QED BY <3>1 DEF GamesOf
    <2> HIDE DEF T, f, g
    <2> QED BY <2>1, <2>2
  <1>8. IsFiniteSet(games)
    <2>1. \A x \in games : \E a \in Payloads : \E r \in a.participants : x = <<a, r>>
      <3> TAKE x \in games
      <3>1. PICK a \in Payloads : \E q \in pairs[a] : x = <<a, q[1]>>
        BY DEF GamesOf
      <3>2. PICK q \in pairs[a] : x = <<a, q[1]>>
        BY <3>1
      <3>3. q[1] \in a.participants
        BY DEF SeatPairs
      <3> QED BY <3>2, <3>3
    <2> HIDE DEF T, f, g
    <2> QED BY <2>1, FiniteSeats
  <1> HIDE DEF T, f, g, rows
  <1>9. \A t, u \in T : f[t] = f[u] <=> g[t] = g[u]
    <2> SUFFICES ASSUME NEW t \in T, NEW u \in T PROVE f[t] = f[u] <=> g[t] = g[u]
      OBVIOUS
    <2> DEFINE a == t[1]
               q == t[2]
               b == u[1]
               p == u[2]
    <2>1. /\ a \in Payloads /\ q \in pairs[a] /\ b \in Payloads /\ p \in pairs[b]
          /\ InWindow(a, target) /\ KeyOf(q[1], q[2]) = KeyOf(p[1], p[2])
      BY <1>3
    <2>2. /\ f[t] = made(a, q) /\ f[u] = made(b, p)
          /\ g[t] = <<a, q[1]>> /\ g[u] = <<b, p[1]>>
      BY <1>4
    <2> HIDE DEF a, q, b, p
    <2>3. g[t] = g[u] <=> a = b /\ q[1] = p[1]
      BY <2>2
    <2>4. f[t] = f[u] => a.match_id = b.match_id
                         /\ source[q] = source[p]
      <3>1. /\ made(a, q).match_id = a.match_id /\ made(a, q).source = source[q]
            /\ made(b, p).match_id = b.match_id /\ made(b, p).source = source[p]
        BY <1>1
      <3> QED BY <2>2, <3>1
    <2>5. CASE a # b
      BY <1>0, <2>1, <2>3, <2>4, <2>5
    <2>6. CASE a = b
      <3>1. source[q] = source[p] <=> q[1] = p[1]
        BY <2>1, <2>6 DEF OneSource
      <3>2. f[t] = f[u] => q[1] = p[1]
        BY <2>4, <2>6, <3>1
      <3>3. q[1] = p[1] => f[t] = f[u]
        BY <1>2, <2>1, <2>2, <2>6, <3>1
      <3> QED BY <2>3, <2>6, <3>2, <3>3
    <2> QED BY <2>5, <2>6
  <1>10. \A t \in T : f[t].win <=> g[t][2].teamId = Winner(g[t][1])
    <2> TAKE t \in T
    <2>1. t[1] \in Payloads /\ t[2] \in pairs[t[1]] /\ InWindow(t[1], target)
      BY <1>3
    <2>2. f[t].win = t[2][1].win
      <3>1. made(t[1], t[2]).win = t[2][1].win
        BY <1>1
      <3> QED BY <1>4, <3>1
    <2>3. g[t][1] = t[1] /\ g[t][2] = t[2][1]
      BY <1>4
    <2>4. t[2][1].win <=> t[2][1].teamId = Winner(t[1])
      BY <2>1 DEF WonByTeam
    <2> QED BY <2>2, <2>3, <2>4
  <1>11. Counted(Bundle(rows, drafts, target), games)
    <2>1. Images(f, T, rows) /\ Images(g, T, games) /\ Alike(f, g, T)
      BY <1>6, <1>7, <1>9, <1>10 DEF Images, Alike
    <2> QED BY <1>8, <2>1, CountedRows
  <1> QED BY <1>11 DEF rows

\* A contribution to a matchup has its reverse, with the other outcome.
Reciprocal(all) ==
    \A c \in all : \E d \in all :
        d.match_id = c.match_id /\ d.key = <<c.key[2], c.key[1]>> /\ d.win # c.win

\* A winner's opponent has contributed the opposite, and a loser's too, so a loser's
\* opponent has won.
LEMMA ContestWon ==
  ASSUME SInv, Published(drafts), NEW target, NEW a \in Payloads,
         NEW r \in a.participants, NEW s \in a.participants,
         InWindow(a, target), <<r, s>> \in LaneContests(a),
         Reciprocal(MatchupContributions(drafts, target))
  PROVE  r.win <=> r.teamId = Winner(a)
  <1>0. Published(canonical)
    BY DEF SInv, StagesAre
  <1>1. r.win => r.teamId = Winner(a)
    BY WinnersWin
  <1>2. ASSUME r.teamId = Winner(a), ~r.win PROVE FALSE
    <2> DEFINE c == Contribution(a, r, s, r.participantId)
    <2>1. c \in MatchupContributions(drafts, target)
      BY MatchupsAre DEF Contends
    <2>2. c.match_id = a.match_id /\ c.key = KeyOf(r, s) /\ c.win = r.win
      BY DEF Contribution
    <2> HIDE DEF c
    <2>3. PICK d \in MatchupContributions(drafts, target) :
             d.match_id = c.match_id /\ d.key = <<c.key[2], c.key[1]>> /\ d.win # c.win
      BY <2>1 DEF Reciprocal
    <2>4. PICK b \in Payloads : \E u \in b.participants : \E v \in b.participants :
             Contends(d, b, u, v, target)
      BY MatchupsAre
    <2>5. PICK u \in b.participants : \E v \in b.participants : Contends(d, b, u, v, target)
      BY <2>4
    <2>6. PICK v \in b.participants : Contends(d, b, u, v, target)
      BY <2>5
    <2>7. d.match_id = b.match_id /\ d.key = KeyOf(u, v) /\ d.win = u.win
      BY <2>6 DEF Contends, Contribution
    <2>8. b = a
      <3>1. b.match_id = a.match_id
        BY <2>2, <2>3, <2>7
      <3>2. \A e, f \in Payloads : e.match_id = f.match_id => e = f
        BY <1>0, RegularPayloads
      <3> QED BY <3>1, <3>2
    <2>9. Place(u) = Place(s)
      BY <2>2, <2>3, <2>7 DEF KeyOf
    <2>10. /\ Meets(a, r, s) /\ Placed(u)
      BY <2>6, <2>8, ContestIs DEF Contends, Meets
    <2>11. u \in InLane(a, r)
      <3>1. \A w : Placed(w) => Place(w) = w.teamPosition
        BY DEF Placed, Place
      <3>2. Placed(s) /\ s.teamPosition = r.teamPosition
        BY <2>10 DEF Meets, InLane
      <3> QED BY <2>8, <2>9, <2>10, <3>1, <3>2 DEF InLane
    <2>12. u = r \/ u = s
      BY <2>10, <2>11 DEF Meets
    <2>13. u.win \in BOOLEAN /\ r.win \in BOOLEAN
      BY <2>8, WinnersWin
    <2>14. u = s /\ u.win
      BY <1>2, <2>2, <2>3, <2>7, <2>12, <2>13
    <2>15. s.teamId = Winner(a)
      BY <2>14, WinnersWin
    <2> QED BY <1>2, <2>10, <2>15 DEF Meets
  <1> QED BY <1>1, <1>2, WinnersWin

\* Each matchup counts the contests of its key, and those that were won.
LEMMA MatchupsCounted ==
  ASSUME SInv, Published(drafts), NEW target, NEW key,
         Reciprocal(MatchupContributions(drafts, target))
  PROVE  Counted(Bundle({c \in MatchupContributions(drafts, target) : c.key = key},
                        drafts, target),
                 Played(key, target, LaneContests))
  <1> DEFINE all == MatchupContributions(drafts, target)
             games == Played(key, target, LaneContests)
             pairs == [a \in Payloads |-> LaneContests(a)]
             source == [q \in UNION {LaneContests(a) : a \in Payloads} |-> q[1].participantId]
  <1>0. \A a \in Payloads : Regular(a)
    <2>1. Published(canonical)
      BY DEF SInv, StagesAre
    <2> QED BY <2>1, RegularPayloads
  <1>1. \A c : c \in all <=>
           \E a \in Payloads : \E r \in a.participants : \E s \in a.participants :
              Contends(c, a, r, s, target)
    BY MatchupsAre
  <1>2. \A x : x \in games <=>
           \E a \in Payloads : \E q \in LaneContests(a) :
              InWindow(a, target) /\ key = KeyOf(q[1], q[2]) /\ x = <<a, q[1]>>
    BY DEF Played, Payloads, InWindow, KeyOf
  <1>3. \A a \in Payloads : pairs[a] = LaneContests(a)
    OBVIOUS
  <1>4. \A a \in Payloads : \A q \in LaneContests(a) : source[q] = q[1].participantId
    OBVIOUS
  <1>5. Reciprocal(all)
    OBVIOUS
  <1> HIDE DEF all, games, pairs, source
  <1>6. SeatPairs(pairs)
    BY <1>3, SeatsOfPairs DEF SeatPairs
  <1>7. \A a \in Payloads : \A r, s : <<r, s>> \in LaneContests(a) =>
                                         source[<<r, s>>] = r.participantId
    BY <1>4
  <1>8. Contributed(all, pairs, source, target)
    <2> SUFFICES ASSUME NEW c
                 PROVE  c \in all <=>
                           \E a \in Payloads : \E r \in a.participants : \E s \in a.participants :
                              /\ InWindow(a, target) /\ <<r, s>> \in pairs[a]
                              /\ c = Contribution(a, r, s, source[<<r, s>>])
      BY DEF Contributed
    <2> DEFINE Named(a, r, s) == /\ InWindow(a, target) /\ <<r, s>> \in pairs[a]
                                 /\ c = Contribution(a, r, s, source[<<r, s>>])
    <2>1. c \in all <=> \E a \in Payloads : \E r \in a.participants : \E s \in a.participants :
                           Contends(c, a, r, s, target)
      BY <1>1
    <2>2. \A a \in Payloads : \A r, s : Contends(c, a, r, s, target) <=> Named(a, r, s)
      BY <1>3, <1>7 DEF Contends
    <2> HIDE DEF Named
    <2>3. c \in all <=> \E a \in Payloads : \E r \in a.participants : \E s \in a.participants :
                           Named(a, r, s)
      BY <2>1, <2>2
    <2> QED BY <2>3 DEF Named
  <1>9. GamesOf(games, pairs, key, target)
    BY <1>2, <1>3 DEF GamesOf
  <1>10. OneSource(pairs, source, target)
    <2> SUFFICES ASSUME NEW a \in Payloads, NEW q \in pairs[a], NEW p \in pairs[a]
                 PROVE  source[q] = source[p] <=> q[1] = p[1]
      BY DEF OneSource
    <2>1. /\ q[1] \in a.participants /\ p[1] \in a.participants
          /\ source[q] = q[1].participantId /\ source[p] = p[1].participantId
      BY <1>3, <1>4, <1>6 DEF SeatPairs
    <2> QED BY <1>0, <2>1 DEF Regular
  <1>11. WonByTeam(pairs, target)
    <2> SUFFICES ASSUME NEW a \in Payloads, NEW q \in pairs[a], InWindow(a, target)
                 PROVE  q[1].win <=> q[1].teamId = Winner(a)
      BY DEF WonByTeam
    <2>1. /\ q[1] \in a.participants /\ q[2] \in a.participants
          /\ <<q[1], q[2]>> \in LaneContests(a)
      BY <1>3, <1>6 DEF SeatPairs
    <2> QED BY <2>1, <1>5, ContestWon DEF all
  <1>12. Counted(Bundle({c \in all : c.key = key}, drafts, target), games)
    BY <1>6, <1>8, <1>9, <1>10, <1>11, CountedContributions
  <1> QED BY <1>12 DEF all, games

\* Each synergy counts the companions of its key, one contribution for each team, and those
\* that have won.
LEMMA SynergiesCounted ==
  ASSUME SInv, Published(drafts), NEW target, NEW key,
         features.reported = {}, ~TwiceInTeam(SynergyContributions(drafts, target))
  PROVE  Counted(Bundle({c \in SynergyContributions(drafts, target) : c.key = key},
                        drafts, target),
                 Played(key, target, Companions))
  <1> DEFINE all == SynergyContributions(drafts, target)
             games == Played(key, target, Companions)
             pairs == [a \in Payloads |-> Companions(a)]
             source == [q \in UNION {Companions(a) : a \in Payloads} |->
                          SeatsOf(q[1], q[2])]
  <1>0. \A a \in Payloads : Regular(a)
    <2>1. Published(canonical)
      BY DEF SInv, StagesAre
    <2> QED BY <2>1, RegularPayloads
  <1>1. \A c : c \in all <=>
           \E a \in Payloads : \E r \in a.participants : \E s \in a.participants :
              Accompanies(c, a, r, s, target)
    BY SynergiesAre
  <1>2. \A x : x \in games <=>
           \E a \in Payloads : \E q \in Companions(a) :
              InWindow(a, target) /\ key = KeyOf(q[1], q[2]) /\ x = <<a, q[1]>>
    BY DEF Played, Payloads, InWindow, KeyOf
  <1>3. \A a \in Payloads : pairs[a] = Companions(a)
    OBVIOUS
  <1>4. \A a \in Payloads : \A q \in Companions(a) : source[q] = SeatsOf(q[1], q[2])
    OBVIOUS
  <1>5. ~TwiceInTeam(all)
    OBVIOUS
  <1> HIDE DEF all, games, pairs, source
  <1>6. SeatPairs(pairs)
    BY <1>3, SeatsOfPairs DEF SeatPairs
  <1>7. \A a \in Payloads : \A r, s :
           <<r, s>> \in Companions(a) => source[<<r, s>>] = SeatsOf(r, s)
    BY <1>4
  <1>8. Contributed(all, pairs, source, target)
    <2> SUFFICES ASSUME NEW c
                 PROVE  c \in all <=>
                           \E a \in Payloads : \E r \in a.participants : \E s \in a.participants :
                              /\ InWindow(a, target) /\ <<r, s>> \in pairs[a]
                              /\ c = Contribution(a, r, s, source[<<r, s>>])
      BY DEF Contributed
    <2> DEFINE Named(a, r, s) == /\ InWindow(a, target) /\ <<r, s>> \in pairs[a]
                                 /\ c = Contribution(a, r, s, source[<<r, s>>])
    <2>1. c \in all <=> \E a \in Payloads : \E r \in a.participants : \E s \in a.participants :
                           Accompanies(c, a, r, s, target)
      BY <1>1
    <2>2. \A a \in Payloads : \A r, s : Accompanies(c, a, r, s, target) <=> Named(a, r, s)
      BY <1>3, <1>7 DEF Accompanies
    <2> HIDE DEF Named
    <2>3. c \in all <=> \E a \in Payloads : \E r \in a.participants : \E s \in a.participants :
                           Named(a, r, s)
      BY <2>1, <2>2
    <2> QED BY <2>3 DEF Named
  <1>9. GamesOf(games, pairs, key, target)
    BY <1>2, <1>3 DEF GamesOf
  <1>10. OneSource(pairs, source, target)
    <2> SUFFICES ASSUME NEW a \in Payloads, NEW q \in pairs[a], NEW p \in pairs[a],
                        InWindow(a, target), KeyOf(q[1], q[2]) = KeyOf(p[1], p[2])
                 PROVE  source[q] = source[p] <=> q[1] = p[1]
      BY DEF OneSource
    <2>1. /\ q[1] \in a.participants /\ q[2] \in a.participants
          /\ p[1] \in a.participants /\ p[2] \in a.participants
          /\ <<q[1], q[2]>> \in Companions(a) /\ <<p[1], p[2]>> \in Companions(a)
      BY <1>3, <1>6 DEF SeatPairs
    <2>2. /\ source[q] = SeatsOf(q[1], q[2])
          /\ source[p] = SeatsOf(p[1], p[2])
      BY <1>3, <1>4
    <2>3. source[q] = source[p] => q[1] = p[1]
      BY <1>0, <2>1, <2>2 DEF Regular, SeatsOf
    <2>4. ASSUME q[1] = p[1] PROVE source[q] = source[p]
      <3> DEFINE c == Contribution(a, q[1], q[2], SeatsOf(q[1], q[2]))
                 d == Contribution(a, p[1], p[2], SeatsOf(p[1], p[2]))
      <3>1. c \in all /\ d \in all
        BY <1>1, <2>1 DEF Accompanies
      <3>2. /\ c.match_id = d.match_id /\ c.key = d.key /\ c.team_id = d.team_id
            /\ c.source = source[q] /\ d.source = source[p]
        BY <2>2, <2>4 DEF Contribution
      <3> HIDE DEF c, d
      <3> QED BY <1>5, <3>1, <3>2 DEF TwiceInTeam
    <2> QED BY <2>3, <2>4
  <1>11. WonByTeam(pairs, target)
    <2> SUFFICES ASSUME NEW a \in Payloads, NEW q \in pairs[a], InWindow(a, target)
                 PROVE  q[1].win <=> q[1].teamId = Winner(a)
      BY DEF WonByTeam
    <2>1. /\ q[1] \in a.participants /\ q[2] \in a.participants
          /\ <<q[1], q[2]>> \in Companions(a)
      BY <1>3, <1>6 DEF SeatPairs
    <2> QED BY <2>1, WinnersWin
  <1>12. Counted(Bundle({c \in all : c.key = key}, drafts, target), games)
    BY <1>6, <1>8, <1>9, <1>10, <1>11, CountedContributions
  <1> QED BY <1>12 DEF all, games

\* What Stage 3.3B has published is what can be counted in the payloads.
LEMMA AggregatesCounted == ASSUME SInv PROVE AggregatesAreCounted
  <1> SUFFICES ASSUME Studied("aggregates") PROVE
                 /\ \A a \in studies.aggregates.built.matchups :
                       Counted(a.bundle, Played(a.key, studies.aggregates.target, LaneContests))
                 /\ features.reported = {} => \A a \in studies.aggregates.built.synergies :
                       Counted(a.bundle, Played(a.key, studies.aggregates.target, Companions))
    BY DEF AggregatesAreCounted
  <1>1. Published(drafts)
    BY DEF SInv, StudiesAre, Studied, DraftStudies
  <1>2. PICK target : studies.aggregates = AggregatesOf(drafts, target)
    BY DEF SInv, StudiesAre, Studied
  <1>3. studies.aggregates # Refused
    BY DEF Studied
  <1> DEFINE built == Aggregates(drafts, target)
             matchups == MatchupContributions(drafts, target)
             synergies == SynergyContributions(drafts, target)
             roles == RoleContributions(drafts, target)
  <1>4. /\ studies.aggregates = [target |-> target, built |-> built]
        /\ ReciprocalOutcomes(matchups, built) /\ ~AggregationRaises(drafts, target)
    BY <1>2, <1>3 DEF AggregatesOf
  <1>5. Reciprocal(matchups) /\ ~TwiceInTeam(synergies)
    BY <1>4 DEF ReciprocalOutcomes, Reciprocal, AggregationRaises
  <1>6. /\ studies.aggregates.target = target
        /\ studies.aggregates.built.matchups =
              {MatchupAggregate(k, matchups, roles, drafts, target) :
                  k \in {c.key : c \in matchups}}
        /\ studies.aggregates.built.synergies =
              {SynergyAggregate(k, synergies, roles, drafts, target) :
                  k \in {c.key : c \in synergies}}
    BY <1>4 DEF Aggregates
  <1>7. \A k : /\ MatchupAggregate(k, matchups, roles, drafts, target).key = k
               /\ MatchupAggregate(k, matchups, roles, drafts, target).bundle
                     = Bundle({c \in matchups : c.key = k}, drafts, target)
               /\ SynergyAggregate(k, synergies, roles, drafts, target).key = k
               /\ SynergyAggregate(k, synergies, roles, drafts, target).bundle
                     = Bundle({c \in synergies : c.key = k}, drafts, target)
    BY DEF MatchupAggregate, SynergyAggregate
  <1> HIDE DEF built, roles
  <1>8. ASSUME NEW a \in studies.aggregates.built.matchups
        PROVE  Counted(a.bundle, Played(a.key, studies.aggregates.target, LaneContests))
    <2>1. PICK k : a = MatchupAggregate(k, matchups, roles, drafts, target)
      BY <1>6
    <2>2. Counted(Bundle({c \in matchups : c.key = k}, drafts, target),
                  Played(k, target, LaneContests))
      BY <1>1, <1>5, MatchupsCounted
    <2>3. a.key = k /\ a.bundle = Bundle({c \in matchups : c.key = k}, drafts, target)
      BY <1>7, <2>1
    <2> QED BY <1>6, <2>2, <2>3
  <1>9. ASSUME features.reported = {}, NEW a \in studies.aggregates.built.synergies
        PROVE  Counted(a.bundle, Played(a.key, studies.aggregates.target, Companions))
    <2>1. PICK k : a = SynergyAggregate(k, synergies, roles, drafts, target)
      BY <1>6
    <2>2. Counted(Bundle({c \in synergies : c.key = k}, drafts, target),
                  Played(k, target, Companions))
      BY <1>1, <1>5, <1>9, SynergiesCounted
    <2>3. a.key = k /\ a.bundle = Bundle({c \in synergies : c.key = k}, drafts, target)
      BY <1>7, <2>1
    <2> QED BY <1>6, <2>2, <2>3
  <1> QED BY <1>8, <1>9

\* In every reachable state what Stage 3.3B has published is what can be counted in the
\* payloads the population has accepted.
THEOREM AggregatesSafe == Spec => []AggregatesAreCounted
  <1>1. Spec => []SInv
    BY InitStages, StageSteps, PTL DEF Spec
  <1> QED BY <1>1, AggregatesCounted, PTL
-----------------------------------------------------------------------------
(* Sums over finite sets, one member at a time.                            *)

\* Among subsets of a finite set there is one that holds no other.
LEMMA LeastSubset ==
  ASSUME NEW S, IsFiniteSet(S), NEW B, B \subseteq SUBSET S, B # {}
  PROVE  \E s \in B : \A t \in B : t \subseteq s => t = s
  <1>1. IsWellFoundedOn(StrictSubsetOrdering(S), SUBSET S)
    BY FS_StrictSubsetOrderingWellFounded, FS_FiniteSubsetsOfFinite
  <1>2. PICK s \in B : \A t \in B : ~(<<t, s>> \in StrictSubsetOrdering(S))
    BY <1>1, WFMin
  <1> QED BY <1>2 DEF StrictSubsetOrdering

\* The function that adds up the weights of the subsets of a set, one member at a time.
Chosen(s) == CHOOSE x \in s : TRUE
Step(w, f, s) == IF s = {} THEN 0 ELSE w[Chosen(s)] + f[s \ {Chosen(s)}]
Adds(w, S, f) == f = [s \in SUBSET S |-> Step(w, f, s)]
Total(w, S) == (CHOOSE f : Adds(w, S, f))[S]

\* Two such functions agree.
LEMMA AddsAgree ==
  ASSUME NEW S, NEW T, IsFiniteSet(T), T \subseteq S, NEW w, NEW f, NEW g,
         Adds(w, S, f), Adds(w, T, g)
  PROVE  \A s \in SUBSET T : f[s] = g[s]
  <1> DEFINE B == {s \in SUBSET T : f[s] # g[s]}
  <1>1. ASSUME B # {} PROVE FALSE
    <2>1. PICK s \in B : \A t \in B : t \subseteq s => t = s
      <3>1. B \subseteq SUBSET T
        OBVIOUS
      <3> HIDE DEF B
      <3> QED BY <1>1, <3>1, LeastSubset
    <2>2. s \subseteq T /\ f[s] = Step(w, f, s) /\ g[s] = Step(w, g, s) /\ f[s] # g[s]
      BY DEF Adds
    <2>3. s # {} /\ f[s \ {Chosen(s)}] # g[s \ {Chosen(s)}]
      BY <2>2 DEF Step
    <2>4. Chosen(s) \in s
      BY <2>3 DEF Chosen
    <2>5. s \ {Chosen(s)} \in B
      BY <2>2, <2>3
    <2> QED BY <2>1, <2>4, <2>5
  <1> QED BY <1>1

\* There is one for a finite set.
LEMMA AddsExists ==
  ASSUME NEW S, IsFiniteSet(S), NEW w
  PROVE  \E f : Adds(w, S, f)
  <1> DEFINE B == {s \in SUBSET S : \A f : ~Adds(w, s, f)}
  <1>1. ASSUME B # {} PROVE FALSE
    <2>1. PICK s \in B : \A t \in B : t \subseteq s => t = s
      <3>1. B \subseteq SUBSET S
        OBVIOUS
      <3> HIDE DEF B
      <3> QED BY <1>1, <3>1, LeastSubset
    <2> DEFINE F(t) == CHOOSE f : Adds(w, t, f)
    <2>2. \A t \in SUBSET s : t # s => Adds(w, t, F(t))
      <3> TAKE t \in SUBSET s
      <3> HAVE t # s
      <3>1. t \notin B /\ t \in SUBSET S
        BY <2>1
      <3>2. \E f : Adds(w, t, f)
        BY <3>1
      <3> QED BY <3>2
    <2> DEFINE h == [t \in SUBSET s |-> IF t = s THEN 0 ELSE F(t)[t]]
               g == [t \in SUBSET s |-> Step(w, h, t)]
    <2> HIDE DEF F
    <2>3. \A t \in SUBSET s : t # s => g[t] = F(t)[t]
      <3> TAKE t \in SUBSET s
      <3> HAVE t # s
      <3> DEFINE x == Chosen(t)
      <3>1. F(t)[t] = Step(w, F(t), t)
        BY <2>2 DEF Adds
      <3>2. CASE t = {}
        BY <3>1, <3>2 DEF Step
      <3>3. CASE t # {}
        <4>1. x \in t
          BY <3>3 DEF Chosen
        <4>2. IsFiniteSet(t \ {x})
          BY <2>1, FS_Subset
        <4>3. F(t)[t \ {x}] = F(t \ {x})[t \ {x}]
          <5>1. Adds(w, t, F(t)) /\ Adds(w, t \ {x}, F(t \ {x}))
            BY <2>2, <4>1
          <5> QED BY <4>2, <5>1, AddsAgree
        <4>4. h[t \ {x}] = F(t \ {x})[t \ {x}]
          BY <4>1
        <4> HIDE DEF h
        <4> QED BY <3>1, <3>3, <4>3, <4>4 DEF Step
      <3> QED BY <3>2, <3>3
    <2>4. \A t \in SUBSET s : Step(w, h, t) = Step(w, g, t)
      <3> TAKE t \in SUBSET s
      <3>1. CASE t = {}
        BY <3>1 DEF Step
      <3>2. CASE t # {}
        <4>1. Chosen(t) \in t
          BY <3>2 DEF Chosen
        <4>2. t \ {Chosen(t)} \in SUBSET s /\ t \ {Chosen(t)} # s
          BY <4>1
        <4>3. h[t \ {Chosen(t)}] = F(t \ {Chosen(t)})[t \ {Chosen(t)}]
          BY <4>2
        <4>4. g[t \ {Chosen(t)}] = F(t \ {Chosen(t)})[t \ {Chosen(t)}]
          BY <2>3, <4>2
        <4> HIDE DEF g, h
        <4> QED BY <4>3, <4>4 DEF Step
      <3> QED BY <3>1, <3>2
    <2>5. Adds(w, s, g)
      <3>1. g = [t \in SUBSET s |-> Step(w, h, t)]
        OBVIOUS
      <3> HIDE DEF g, h
      <3> QED BY <2>4, <3>1 DEF Adds
    <2> QED BY <2>1, <2>5
  <1> QED BY <1>1

\* What the chosen one adds up to.
LEMMA TotalIs ==
  ASSUME NEW S, IsFiniteSet(S), NEW w
  PROVE  /\ Total(w, {}) = 0
         /\ S # {} => Chosen(S) \in S /\ Total(w, S) = w[Chosen(S)] + Total(w, S \ {Chosen(S)})
  <1> DEFINE F(t) == CHOOSE f : Adds(w, t, f)
  <1>1. \A t : IsFiniteSet(t) => Adds(w, t, F(t))
    BY AddsExists
  <1>2. \A t : Total(w, t) = F(t)[t]
    BY DEF Total
  <1> HIDE DEF F
  <1>3. \A t : IsFiniteSet(t) => Total(w, t) = Step(w, F(t), t)
    BY <1>1, <1>2 DEF Adds
  <1>4. Total(w, {}) = 0
    BY <1>3, FS_EmptySet DEF Step
  <1>5. ASSUME S # {}
        PROVE  Chosen(S) \in S /\ Total(w, S) = w[Chosen(S)] + Total(w, S \ {Chosen(S)})
    <2> DEFINE T == S \ {Chosen(S)}
    <2>1. Chosen(S) \in S
      BY <1>5 DEF Chosen
    <2>2. IsFiniteSet(T) /\ T \subseteq S
      BY FS_Subset
    <2>3. F(S)[T] = F(T)[T]
      <3>1. Adds(w, S, F(S)) /\ Adds(w, T, F(T)) /\ T \in SUBSET T
        BY <1>1, <2>2
      <3> HIDE DEF T
      <3> QED BY <2>2, <3>1, AddsAgree
    <2>4. Total(w, S) = w[Chosen(S)] + F(S)[T]
      BY <1>3, <1>5 DEF Step
    <2> QED BY <1>2, <2>1, <2>3, <2>4
  <1> QED BY <1>4, <1>5

\* A sum of the library adds up the function of its weights.
LEMMA WeighedSum ==
  ASSUME NEW S, NEW target, NEW w, \A r \in S : w[r] = Weight(target - r.public_patch)
  PROVE  MapThenSumSet(LAMBDA r : Weight(target - r.public_patch), S) = Total(w, S)
  <1> DEFINE Sums(f) == f = [s \in SUBSET S |->
                               IF s = {} THEN 0
                               ELSE Weight(target - Chosen(s).public_patch)
                                      + f[s \ {Chosen(s)}]]
  <1>1. MapThenSumSet(LAMBDA r : Weight(target - r.public_patch), S)
          = (CHOOSE f : Sums(f))[S]
    BY DEF MapThenSumSet, MapThenFoldSet, Chosen
  <1>2. \A f : Sums(f) <=> Adds(w, S, f)
    <2> TAKE f
    <2>1. \A s \in SUBSET S : s # {} => w[Chosen(s)] = Weight(target - Chosen(s).public_patch)
      BY DEF Chosen
    <2>2. \A s \in SUBSET S : Step(w, f, s) =
             IF s = {} THEN 0
             ELSE Weight(target - Chosen(s).public_patch) + f[s \ {Chosen(s)}]
      BY <2>1 DEF Step
    <2> QED BY <2>2 DEF Adds
  <1> HIDE DEF Sums
  <1>3. (CHOOSE f : Sums(f)) = (CHOOSE f : Adds(w, S, f))
    BY <1>2
  <1> QED BY <1>1, <1>3 DEF Total

\* A sum of integers is one, and any member can be taken out of it.
LEMMA TotalOut ==
  ASSUME NEW S, IsFiniteSet(S), NEW w, \A x \in S : w[x] \in Int
  PROVE  \A T \in SUBSET S : /\ Total(w, T) \in Int
                             /\ \A x \in T : Total(w, T) = w[x] + Total(w, T \ {x})
  <1> DEFINE Good(T) == /\ Total(w, T) \in Int
                        /\ \A x \in T : Total(w, T) = w[x] + Total(w, T \ {x})
             B == {T \in SUBSET S : ~Good(T)}
  <1>1. ASSUME B # {} PROVE FALSE
    <2>1. PICK T \in B : \A U \in B : U \subseteq T => U = T
      <3>1. B \subseteq SUBSET S
        OBVIOUS
      <3> HIDE DEF B
      <3> QED BY <1>1, <3>1, LeastSubset
    <2>2. T \subseteq S /\ IsFiniteSet(T) /\ ~Good(T)
      BY <2>1, FS_Subset
    <2>3. \A U \in SUBSET T : U # T => Good(U)
      BY <2>1
    <2>4. T # {}
      BY <2>2, TotalIs
    <2> DEFINE y == Chosen(T)
    <2>5. y \in T /\ Total(w, T) = w[y] + Total(w, T \ {y})
      BY <2>2, <2>4, TotalIs
    <2>6. Good(T \ {y})
      BY <2>3, <2>5
    <2>7. Total(w, T \ {y}) \in Int /\ w[y] \in Int
      BY <2>2, <2>5, <2>6
    <2>8. ASSUME NEW x \in T PROVE Total(w, T) = w[x] + Total(w, T \ {x})
      <3>1. CASE x = y
        BY <2>5, <3>1
      <3>2. CASE x # y
        <4>1. Good(T \ {x}) /\ Good((T \ {x}) \ {y})
          BY <2>3, <2>5
        <4>2. (T \ {x}) \ {y} = (T \ {y}) \ {x}
          OBVIOUS
        <4>3. Total(w, T \ {y}) = w[x] + Total(w, (T \ {x}) \ {y})
          BY <2>5, <2>6, <3>2, <4>2
        <4>4. Total(w, T \ {x}) = w[y] + Total(w, (T \ {x}) \ {y})
          BY <2>5, <3>2, <4>1
        <4>5. Total(w, (T \ {x}) \ {y}) \in Int /\ w[x] \in Int
          BY <2>2, <4>1
        <4> HIDE DEF Good, y
        <4> QED BY <2>5, <2>7, <4>3, <4>4, <4>5
      <3> QED BY <3>1, <3>2
    <2>9. Total(w, T) \in Int
      BY <2>5, <2>7
    <2> QED BY <2>2, <2>8, <2>9
  <1> QED BY <1>1

\* The sums of two disjoint sets add up to that of their union.
LEMMA TotalSplit ==
  ASSUME NEW S, IsFiniteSet(S), NEW w, \A x \in S : w[x] \in Int,
         NEW T \in SUBSET S
  PROVE  Total(w, S) = Total(w, T) + Total(w, S \ T)
  <1> DEFINE Good(U) == Total(w, U \cup (S \ T)) = Total(w, U) + Total(w, S \ T)
             B == {U \in SUBSET T : ~Good(U)}
  <1>1. ASSUME B # {} PROVE FALSE
    <2>0. IsFiniteSet(T)
      BY FS_Subset
    <2>1. PICK U \in B : \A V \in B : V \subseteq U => V = U
      <3>1. B \subseteq SUBSET T
        OBVIOUS
      <3> HIDE DEF B
      <3> QED BY <1>1, <2>0, <3>1, LeastSubset
    <2>2. U \subseteq T /\ ~Good(U)
      BY <2>1
    <2>3. Total(w, S \ T) \in Int
      BY TotalOut
    <2>4. U # {}
      <3>1. Total(w, {}) = 0 /\ {} \cup (S \ T) = S \ T
        BY TotalIs
      <3>2. Good({})
        BY <2>3, <3>1
      <3> QED BY <2>2, <3>2
    <2>5. PICK x \in U : TRUE
      BY <2>4
    <2> DEFINE V == U \ {x}
    <2>6. Good(V)
      <3>1. V \in SUBSET T /\ V \subseteq U /\ V # U
        BY <2>2
      <3>2. V \notin B
        BY <2>1, <3>1
      <3> HIDE DEF V, Good
      <3> QED BY <3>1, <3>2
    <2>7. /\ U \in SUBSET S /\ V \in SUBSET S
          /\ U \cup (S \ T) \in SUBSET S /\ x \in U \cup (S \ T)
          /\ (U \cup (S \ T)) \ {x} = V \cup (S \ T)
      BY <2>2
    <2>8. Total(w, U) = w[x] + Total(w, V)
      BY <2>7, TotalOut
    <2>9. Total(w, U \cup (S \ T)) = w[x] + Total(w, V \cup (S \ T))
      BY <2>7, TotalOut
    <2>10. w[x] \in Int /\ Total(w, V) \in Int
      BY <2>7, TotalOut
    <2> HIDE DEF V
    <2> QED BY <2>2, <2>3, <2>6, <2>8, <2>9, <2>10
  <1>2. Good(T)
    BY <1>1
  <1>3. T \cup (S \ T) = S
    OBVIOUS
  <1> QED BY <1>2, <1>3

\* Sets whose members are paired off, each with one of its weight, have one sum.
LEMMA TotalPaired ==
  ASSUME NEW S, NEW T, IsFiniteSet(S), NEW w, NEW v, NEW R,
         \A x \in S : w[x] \in Int, \A y \in T : v[y] \in Int, IsFiniteSet(T),
         PairedOff(S, T, R),
         \A x \in S : \A y \in T : <<x, y>> \in R => w[x] = v[y]
  PROVE  Total(w, S) = Total(v, T)
  <1> DEFINE Pairs(U) == {y \in T : \E x \in U : <<x, y>> \in R}
             B == {U \in SUBSET S : Total(w, U) # Total(v, Pairs(U))}
  <1>1. ASSUME B # {} PROVE FALSE
    <2>1. PICK U \in B : \A V \in B : V \subseteq U => V = U
      <3>1. B \subseteq SUBSET S
        OBVIOUS
      <3> HIDE DEF B
      <3> QED BY <1>1, <3>1, LeastSubset
    <2>2. U \subseteq S /\ Total(w, U) # Total(v, Pairs(U))
      BY <2>1
    <2>3. U # {}
      <3>1. Pairs({}) = {}
        OBVIOUS
      <3>2. Total(w, {}) = 0 /\ Total(v, {}) = 0
        BY TotalIs
      <3> HIDE DEF Pairs
      <3> QED BY <2>2, <3>1, <3>2
    <2>4. PICK x \in U : TRUE
      BY <2>3
    <2>5. PICK y \in T : <<x, y>> \in R
      BY <2>2 DEF PairedOff
    <2> DEFINE V == U \ {x}
    <2>6. Total(w, V) = Total(v, Pairs(V))
      <3>1. V \in SUBSET S /\ V \subseteq U /\ V # U
        BY <2>2
      <3>2. V \notin B
        BY <2>1, <3>1
      <3> HIDE DEF V, Pairs
      <3> QED BY <3>1, <3>2
    <2>7. y \in Pairs(U) /\ Pairs(U) \ {y} = Pairs(V) /\ Pairs(U) \in SUBSET T
      BY <2>2, <2>5 DEF PairedOff
    <2> HIDE DEF V, Pairs
    <2>8. Total(w, U) = w[x] + Total(w, V)
      BY <2>2, TotalOut DEF V
    <2>9. Total(v, Pairs(U)) = v[y] + Total(v, Pairs(V))
      BY <2>7, TotalOut
    <2>10. w[x] = v[y]
      BY <2>2, <2>5
    <2> QED BY <2>2, <2>6, <2>8, <2>9, <2>10
  <1>2. Total(w, S) = Total(v, Pairs(S))
    BY <1>1
  <1>3. Pairs(S) = T
    BY DEF PairedOff
  <1> QED BY <1>2, <1>3
-----------------------------------------------------------------------------
(* The statistics of matched rows, and of the parts of a whole.            *)

\* Rows of the window: of a patch that is a number, and not too old.
Aged(rows, target) ==
    \A r \in rows : /\ r.public_patch \in Int
                    /\ target - r.public_patch \in 0..MaxPreviousPatches

\* The weights of rows, as a function of the row.
Weights(rows, target) == [r \in rows |-> Weight(target - r.public_patch)]

\* Those are numbers, and the sums of them are what the statistics hold.
LEMMA StatisticsAre ==
  ASSUME NEW rows, NEW target, target \in Int, Aged(rows, target)
  PROVE  /\ \A r \in rows : Weights(rows, target)[r] \in Int
         /\ \A S \in SUBSET rows : Statistics(S, target) =
               [games |-> Cardinality(S), wins |-> Cardinality({r \in S : r.win}),
                losses |-> Cardinality(S) - Cardinality({r \in S : r.win}),
                sum_weights |-> Total(Weights(rows, target), S),
                weighted_wins |-> Total(Weights(rows, target), {r \in S : r.win})]
  <1> DEFINE w == Weights(rows, target)
  <1>1. \A r \in rows : w[r] = Weight(target - r.public_patch)
    BY DEF Weights
  <1>2. ASSUME NEW r \in rows PROVE w[r] \in Int
    <2> DEFINE age == target - r.public_patch
    <2>1. age \in Nat /\ MaxPreviousPatches - age \in Nat
      BY AggregationAssumption DEF Aged
    <2>2. \A n \in Nat : 4^n \in Int /\ 5^n \in Int
      OBVIOUS
    <2> HIDE DEF age
    <2>3. 4^age * 5^(MaxPreviousPatches - age) \in Int
      <3> DEFINE x == 4^age
                 y == 5^(MaxPreviousPatches - age)
      <3>1. x \in Int /\ y \in Int
        BY <2>1, <2>2
      <3> HIDE DEF x, y
      <3>2. x * y \in Int
        BY <3>1
      <3> QED BY <3>2 DEF x, y
    <2> QED BY <1>1, <2>3 DEF Weight, age
  <1> HIDE DEF w
  <1>3. ASSUME NEW S \in SUBSET rows
        PROVE  Statistics(S, target) =
               [games |-> Cardinality(S), wins |-> Cardinality({r \in S : r.win}),
                losses |-> Cardinality(S) - Cardinality({r \in S : r.win}),
                sum_weights |-> Total(w, S),
                weighted_wins |-> Total(w, {r \in S : r.win})]
    <2> DEFINE won == {r \in S : r.win}
    <2>1. MapThenSumSet(LAMBDA r : Weight(target - r.public_patch), S) = Total(w, S)
      BY <1>1, WeighedSum
    <2>2. \A r \in won : w[r] = Weight(target - r.public_patch)
      BY <1>1
    <2> HIDE DEF won
    <2>3. MapThenSumSet(LAMBDA r : Weight(target - r.public_patch), won) = Total(w, won)
      BY <2>2, WeighedSum
    <2> QED BY <2>1, <2>3 DEF Statistics, won
  <1> QED BY <1>2, <1>3 DEF w

\* Statistics are added up field by field.
LEMMA SumOfStatistics ==
  ASSUME NEW a, NEW b, NEW c, NEW d, NEW e, NEW f, NEW g, NEW h, NEW i, NEW j
  PROVE  Sum([games |-> a, wins |-> b, losses |-> c, sum_weights |-> d, weighted_wins |-> e],
             [games |-> f, wins |-> g, losses |-> h, sum_weights |-> i, weighted_wins |-> j])
           = [games |-> a + f, wins |-> b + g, losses |-> c + h,
              sum_weights |-> d + i, weighted_wins |-> e + j]
  <1> DEFINE s == [games |-> a, wins |-> b, losses |-> c, sum_weights |-> d,
                   weighted_wins |-> e]
             t == [games |-> f, wins |-> g, losses |-> h, sum_weights |-> i,
                   weighted_wins |-> j]
             fields == {"games", "wins", "losses", "sum_weights", "weighted_wins"}
  <1>1. DOMAIN s = fields
    OBVIOUS
  <1>2. [field \in fields |-> s[field] + t[field]]
           = [games |-> a + f, wins |-> b + g, losses |-> c + h,
              sum_weights |-> d + i, weighted_wins |-> e + j]
    OBVIOUS
  <1> QED BY <1>1, <1>2 DEF Sum

\* A part of a whole and the rest of it have statistics that add up to those of the whole.
LEMMA StatisticsSplit ==
  ASSUME NEW S, IsFiniteSet(S), NEW target, target \in Int, Aged(S, target), NEW T \in SUBSET S
  PROVE  Sum(Statistics(T, target), Statistics(S \ T, target)) = Statistics(S, target)
  <1> DEFINE w == Weights(S, target)
             Won(U) == {r \in U : r.win}
  <1>1. \A r \in S : w[r] \in Int
    BY StatisticsAre
  <1>2. \A U \in SUBSET S :
           Statistics(U, target) =
               [games |-> Cardinality(U), wins |-> Cardinality(Won(U)),
                losses |-> Cardinality(U) - Cardinality(Won(U)),
                sum_weights |-> Total(w, U), weighted_wins |-> Total(w, Won(U))]
    BY StatisticsAre
  <1> HIDE DEF w
  <1>3. ASSUME NEW U \in SUBSET S, NEW V \in SUBSET U
        PROVE  /\ Cardinality(V) \in Nat /\ Cardinality(U \ V) \in Nat
               /\ Cardinality(V) + Cardinality(U \ V) = Cardinality(U)
               /\ Total(w, V) + Total(w, U \ V) = Total(w, U)
    <2>1. IsFiniteSet(U) /\ IsFiniteSet(V)
      BY FS_Subset
    <2>2. IsFiniteSet(U \ V) /\ Cardinality(U \ V) = Cardinality(U) - Cardinality(U \cap V)
      BY <2>1, FS_Difference
    <2>3. U \cap V = V
      OBVIOUS
    <2>4. /\ Cardinality(U) \in Nat /\ Cardinality(V) \in Nat /\ Cardinality(U \ V) \in Nat
      BY <2>1, <2>2, FS_CardinalityType
    <2>5. \A x \in U : w[x] \in Int
      BY <1>1
    <2>6. Total(w, V) + Total(w, U \ V) = Total(w, U)
      BY <2>1, <2>5, TotalSplit
    <2>7. Cardinality(U \ V) = Cardinality(U) - Cardinality(V)
      BY <2>2, <2>3
    <2>8. Cardinality(V) + Cardinality(U \ V) = Cardinality(U)
      <3> DEFINE u == Cardinality(U)
                 v == Cardinality(V)
      <3>1. u \in Nat /\ v \in Nat /\ Cardinality(U \ V) = u - v
        BY <2>4, <2>7
      <3> HIDE DEF u, v
      <3>2. v + Cardinality(U \ V) = u
        BY <3>1
      <3> QED BY <3>2 DEF u, v
    <2> QED BY <2>4, <2>6, <2>8
  <1>4. /\ Won(T) \in SUBSET Won(S) /\ Won(S) \in SUBSET S
        /\ Won(S) \ Won(T) = Won(S \ T)
    OBVIOUS
  <1>5. S \in SUBSET S /\ S \ T \in SUBSET S
    OBVIOUS
  <1> HIDE DEF Won
  <1>6. /\ Cardinality(T) \in Nat /\ Cardinality(S \ T) \in Nat
        /\ Cardinality(T) + Cardinality(S \ T) = Cardinality(S)
        /\ Total(w, T) + Total(w, S \ T) = Total(w, S)
    BY <1>3, <1>5
  <1>7. /\ Cardinality(Won(T)) \in Nat /\ Cardinality(Won(S \ T)) \in Nat
        /\ Cardinality(Won(T)) + Cardinality(Won(S \ T)) = Cardinality(Won(S))
        /\ Total(w, Won(T)) + Total(w, Won(S \ T)) = Total(w, Won(S))
    BY <1>3, <1>4
  <1>8. (Cardinality(T) - Cardinality(Won(T))) + (Cardinality(S \ T) - Cardinality(Won(S \ T)))
          = Cardinality(S) - Cardinality(Won(S))
    BY <1>6, <1>7
  <1>9. /\ Statistics(S, target) =
               [games |-> Cardinality(S), wins |-> Cardinality(Won(S)),
                losses |-> Cardinality(S) - Cardinality(Won(S)),
                sum_weights |-> Total(w, S), weighted_wins |-> Total(w, Won(S))]
        /\ Statistics(T, target) =
               [games |-> Cardinality(T), wins |-> Cardinality(Won(T)),
                losses |-> Cardinality(T) - Cardinality(Won(T)),
                sum_weights |-> Total(w, T), weighted_wins |-> Total(w, Won(T))]
        /\ Statistics(S \ T, target) =
               [games |-> Cardinality(S \ T), wins |-> Cardinality(Won(S \ T)),
                losses |-> Cardinality(S \ T) - Cardinality(Won(S \ T)),
                sum_weights |-> Total(w, S \ T), weighted_wins |-> Total(w, Won(S \ T))]
    BY <1>2, <1>5
  <1>10. Sum(Statistics(T, target), Statistics(S \ T, target)) =
               [games |-> Cardinality(T) + Cardinality(S \ T),
                wins |-> Cardinality(Won(T)) + Cardinality(Won(S \ T)),
                losses |-> (Cardinality(T) - Cardinality(Won(T)))
                              + (Cardinality(S \ T) - Cardinality(Won(S \ T))),
                sum_weights |-> Total(w, T) + Total(w, S \ T),
                weighted_wins |-> Total(w, Won(T)) + Total(w, Won(S \ T))]
    BY <1>9, SumOfStatistics
  <1> QED BY <1>6, <1>7, <1>8, <1>9, <1>10

\* Rows that are paired off by their outcomes and patches.
Matched(S, T, R) == /\ PairedOff(S, T, R)
                    /\ \A x \in S : \A y \in T : <<x, y>> \in R =>
                          x.win = y.win /\ x.public_patch = y.public_patch

\* They have one statistics.
LEMMA StatisticsMatched ==
  ASSUME NEW S, IsFiniteSet(S), NEW T, IsFiniteSet(T), NEW R, Matched(S, T, R),
         NEW target, target \in Int, Aged(S, target), Aged(T, target)
  PROVE  Statistics(S, target) = Statistics(T, target)
  <1> DEFINE w == Weights(S, target)
             v == Weights(T, target)
             wonS == {r \in S : r.win}
             wonT == {r \in T : r.win}
  <1>1. /\ \A r \in S : w[r] \in Int
        /\ \A r \in T : v[r] \in Int
    BY StatisticsAre
  <1>2. /\ Statistics(S, target) =
               [games |-> Cardinality(S), wins |-> Cardinality(wonS),
                losses |-> Cardinality(S) - Cardinality(wonS),
                sum_weights |-> Total(w, S), weighted_wins |-> Total(w, wonS)]
        /\ Statistics(T, target) =
               [games |-> Cardinality(T), wins |-> Cardinality(wonT),
                losses |-> Cardinality(T) - Cardinality(wonT),
                sum_weights |-> Total(v, T), weighted_wins |-> Total(v, wonT)]
    BY StatisticsAre
  <1>3. \A x \in S : \A y \in T : <<x, y>> \in R => w[x] = v[y]
    BY DEF Matched, Weights
  <1>4. wonS \in SUBSET S /\ wonT \in SUBSET T
    OBVIOUS
  <1>5. PairedOff(S, T, R) /\ PairedOff(wonS, wonT, R)
    BY DEF Matched, PairedOff
  <1> HIDE DEF w, v, wonS, wonT
  <1>6. IsFiniteSet(wonS) /\ IsFiniteSet(wonT)
    BY <1>4, FS_Subset
  <1>7. Cardinality(S) = Cardinality(T) /\ Cardinality(wonS) = Cardinality(wonT)
    BY <1>5, <1>6, PairedSize
  <1>8. Total(w, S) = Total(v, T)
    BY <1>1, <1>3, <1>5, TotalPaired
  <1>9. Total(w, wonS) = Total(v, wonT)
    <2>1. /\ \A x \in wonS : w[x] \in Int
          /\ \A y \in wonT : v[y] \in Int
          /\ \A x \in wonS : \A y \in wonT : <<x, y>> \in R => w[x] = v[y]
      BY <1>1, <1>3, <1>4
    <2> QED BY <1>5, <1>6, <2>1, TotalPaired
  <1> QED BY <1>2, <1>7, <1>8, <1>9

\* The windows of a part and of the rest add up to those of the whole.
Splits(pair, rest, whole) ==
    \A n \in DOMAIN whole.windows :
        Sum(pair.windows[n].statistics, rest.windows[n].statistics)
            = whole.windows[n].statistics

\* So they do when the rows of the pair are matched with a part of the whole.
LEMMA BundlesSplit ==
  ASSUME NEW S, IsFiniteSet(S), NEW T \in SUBSET S, NEW P, IsFiniteSet(P), NEW R, Matched(P, T, R),
         NEW target, target \in Int, Aged(S, target), Aged(P, target), NEW data
  PROVE  Splits(Bundle(P, data, target), Bundle(S \ T, data, target), Bundle(S, data, target))
  <1> DEFINE Young(rows, n) == {r \in rows : target - r.public_patch <= n}
  <1>1. \A rows : /\ DOMAIN Bundle(rows, data, target).windows = 0..MaxWindowAge(data, target)
                  /\ \A n \in 0..MaxWindowAge(data, target) :
                        Bundle(rows, data, target).windows[n].statistics
                          = Statistics(Young(rows, n), target)
    BY DEF Bundle, Windows
  <1>2. ASSUME NEW n
        PROVE  Sum(Statistics(Young(P, n), target), Statistics(Young(S \ T, n), target))
                 = Statistics(Young(S, n), target)
    <2>1. /\ Young(S, n) \in SUBSET S /\ Young(T, n) \in SUBSET S /\ Young(P, n) \in SUBSET P
          /\ Young(T, n) \in SUBSET Young(S, n)
          /\ Young(S \ T, n) = Young(S, n) \ Young(T, n)
      OBVIOUS
    <2>2. Matched(Young(P, n), Young(T, n), R)
      BY DEF Matched, PairedOff
    <2> HIDE DEF Young
    <2>3. /\ Aged(Young(S, n), target) /\ Aged(Young(T, n), target) /\ Aged(Young(P, n), target)
      BY <2>1 DEF Aged
    <2>4. IsFiniteSet(Young(S, n)) /\ IsFiniteSet(Young(T, n)) /\ IsFiniteSet(Young(P, n))
      BY <2>1, FS_Subset
    <2>5. Statistics(Young(P, n), target) = Statistics(Young(T, n), target)
      BY <2>2, <2>3, <2>4, StatisticsMatched
    <2>6. Sum(Statistics(Young(T, n), target), Statistics(Young(S, n) \ Young(T, n), target))
            = Statistics(Young(S, n), target)
      BY <2>1, <2>3, <2>4, StatisticsSplit
    <2> QED BY <2>1, <2>5, <2>6
  <1> HIDE DEF Young
  <1> QED BY <1>1, <1>2 DEF Splits
-----------------------------------------------------------------------------
(* The rows of a pick, as those of its observations.                       *)

\* The observations are keyed by match and seat; one eligible for matchups has a
\* position and one lane opponent, one eligible for synergies is of a full team.
LEMMA ObservationsSay ==
  ASSUME SInv, Published(drafts)
  PROVE  /\ IsFiniteSet(drafts.participants)
         /\ \A o, p \in drafts.participants :
               o.match_id = p.match_id /\ o.participant_id = p.participant_id => o = p
         /\ \A o \in drafts.participants :
               /\ o.public_patch \in Int
               /\ o.synergy_eligible => o.team_structure_valid
               /\ o.matchup_eligible =>
                     /\ o.analysis_position # Missing
                     /\ \E p \in drafts.participants : Opposes(o, p)
               /\ \A p, q \in drafts.participants : Opposes(o, p) /\ Opposes(o, q) => p = q
  <1>1. Published(features) /\ Published(canonical)
    BY DEF SInv, StagesAre
  <1>2. IsFiniteSet(drafts.participants)
    BY SourceDrafts DEF Turnable
  <1>3. /\ \A a \in Payloads : Transforms(a, Platform) /\ Regular(a)
        /\ \A a, b \in Payloads : a.match_id = b.match_id => a = b
    BY <1>1, RegularPayloads
  <1>4. \A o \in drafts.participants : \E a \in Payloads : \E r \in a.participants :
           o = ObservationOf(a, r) /\ Observes(o, a, r)
    BY ObservationsAre
  <1>5. ASSUME NEW o \in drafts.participants, NEW p \in drafts.participants,
               o.match_id = p.match_id
        PROVE  \E a \in Payloads : \E r \in a.participants : \E s \in a.participants :
                  /\ o = ObservationOf(a, r) /\ Observes(o, a, r)
                  /\ p = ObservationOf(a, s) /\ Observes(p, a, s)
    <2>1. PICK a \in Payloads : \E r \in a.participants :
             o = ObservationOf(a, r) /\ Observes(o, a, r)
      BY <1>4
    <2>2. PICK b \in Payloads : \E s \in b.participants :
             p = ObservationOf(b, s) /\ Observes(p, b, s)
      BY <1>4
    <2>3. b = a
      BY <1>3, <1>5, <2>1, <2>2 DEF Observes
    <2> QED BY <2>1, <2>2, <2>3
  <1>6. ASSUME NEW o \in drafts.participants, NEW p \in drafts.participants,
               o.match_id = p.match_id, o.participant_id = p.participant_id
        PROVE  o = p
    <2>1. PICK a \in Payloads : \E r \in a.participants : \E s \in a.participants :
             /\ o = ObservationOf(a, r) /\ Observes(o, a, r)
             /\ p = ObservationOf(a, s) /\ Observes(p, a, s)
      BY <1>5, <1>6
    <2> QED BY <1>3, <1>6, <2>1 DEF Observes, Regular
  <1>7. ASSUME NEW o \in drafts.participants
        PROVE  /\ o.public_patch \in Int
               /\ o.synergy_eligible => o.team_structure_valid
               /\ o.matchup_eligible => o.resolution = "resolved_unique"
    <2>1. PICK a \in Payloads : \E r \in a.participants :
             o = ObservationOf(a, r) /\ Observes(o, a, r)
      BY <1>4
    <2>2. o.public_patch \in Int
      <3>1. ResolvePatch(a.gameVersion) # Missing /\ ResolvePatch(a.gameVersion) = a.public_patch
        BY <1>3 DEF Transforms, Regular
      <3>2. a.public_patch \in 1..99
        BY <3>1 DEF ResolvePatch, MappingRule
      <3> QED BY <2>1, <3>2 DEF Observes
    <2>3. /\ o.synergy_eligible => o.team_structure_valid
          /\ o.matchup_eligible => o.resolution = "resolved_unique"
      <3>1. ASSUME NEW rows, NEW f
            PROVE  LET x == Observation(rows, f) IN
                   /\ x.synergy_eligible => x.team_structure_valid
                   /\ x.matchup_eligible => x.resolution = "resolved_unique"
        BY DEF Observation
      <3> QED BY <2>1, <3>1 DEF ObservationOf
    <2> QED BY <2>2, <2>3
  <1>8. ASSUME NEW o \in drafts.participants, o.matchup_eligible
        PROVE  \E p \in drafts.participants : Opposes(o, p)
    <2>1. Reciprocity(drafts)
      <3>1. \A n : LET made == DraftDataset(canonical, features, n) IN
                     made.ready => Reciprocity(made.rows)
        BY DEF DraftDataset
      <3> QED BY <3>1 DEF SInv, StagesAre
    <2> QED BY <1>7, <1>8, <2>1 DEF Reciprocity, Opposes
  <1>9. ASSUME NEW o \in drafts.participants, NEW p \in drafts.participants,
               Opposes(o, p)
        PROVE  /\ o.analysis_position # Missing
               /\ \A q \in drafts.participants : Opposes(o, q) => p = q
    <2>1. PICK a \in Payloads : \E r \in a.participants : \E s \in a.participants :
             /\ o = ObservationOf(a, r) /\ Observes(o, a, r)
             /\ p = ObservationOf(a, s) /\ Observes(p, a, s)
      BY <1>5, <1>9 DEF Opposes
    <2>2. PICK r \in a.participants, s \in a.participants :
             /\ o = ObservationOf(a, r) /\ Observes(o, a, r)
             /\ p = ObservationOf(a, s) /\ Observes(p, a, s)
      BY <2>1
    <2>3. Meets(a, r, s)
      BY <1>9, <2>2, ContestIs DEF Observes, Opposes
    <2>4. o.analysis_position # Missing
      BY <2>2, <2>3, PositionsAssumption DEF Observes, Meets, Placed, Place
    <2>5. ASSUME NEW q \in drafts.participants, Opposes(o, q)
          PROVE  p = q
      <3>1. PICK b \in Payloads : \E u \in b.participants :
               q = ObservationOf(b, u) /\ Observes(q, b, u)
        BY <1>4
      <3>2. PICK u \in b.participants : q = ObservationOf(b, u) /\ Observes(q, b, u)
        BY <3>1
      <3>3. b = a
        BY <1>3, <2>2, <2>5, <3>2 DEF Observes, Opposes
      <3>4. Meets(a, r, u)
        BY <1>9, <2>2, <2>5, <3>2, <3>3, ContestIs DEF Observes, Opposes
      <3>5. u = s
        BY <2>3, <3>4 DEF Meets
      <3> QED BY <2>2, <3>2, <3>3, <3>5
    <2> QED BY <2>4, <2>5
  <1>10. ASSUME NEW o \in drafts.participants
         PROVE  /\ o.matchup_eligible =>
                      /\ o.analysis_position # Missing
                      /\ \E p \in drafts.participants : Opposes(o, p)
                /\ \A p, q \in drafts.participants : Opposes(o, p) /\ Opposes(o, q) => p = q
    BY <1>8, <1>9
  <1> QED BY <1>2, <1>6, <1>7, <1>10

\* The row an observation adds to its pick.
RoleRow(o) ==
    [match_id |-> o.match_id, source |-> o.participant_id,
     public_patch |-> o.public_patch, win |-> o.win, pick |-> PickOf(o),
     role_eligible |-> o.role_eligible, matchup_eligible |-> o.matchup_eligible,
     synergy_eligible |-> o.synergy_eligible /\ o.team_structure_valid,
     opponent |-> {PickOf(p) : p \in {q \in drafts.participants : Opposes(o, q)}},
     allies |-> {PickOf(p) : p \in {q \in drafts.participants : Joins(o, q)}}]
\* They are the rows of the observations of the window that have a position.
LEMMA RolesAre ==
  ASSUME NEW target
  PROVE  \A r : r \in RoleContributions(drafts, target) <=>
            \E o \in InScope(drafts, target) : o.analysis_position # Missing /\ r = RoleRow(o)
  <1> DEFINE beside(o) == {p \in drafts.participants :
                         /\ p.match_id = o.match_id /\ p.team_id = o.team_id
                         /\ p.participant_id # o.participant_id
                         /\ p.analysis_position # Missing}
             against(o) == {p \in drafts.participants :
                          /\ o.matchup_eligible
                          /\ p.match_id = o.match_id
                          /\ p.participant_id \in o.lane_opponent}
             row(o) == [match_id |-> o.match_id, source |-> o.participant_id,
                        public_patch |-> o.public_patch, win |-> o.win, pick |-> PickOf(o),
                        role_eligible |-> o.role_eligible,
                        matchup_eligible |-> o.matchup_eligible,
                        synergy_eligible |-> o.synergy_eligible /\ o.team_structure_valid,
                        opponent |-> {PickOf(p) : p \in against(o)},
                        allies |-> {PickOf(p) : p \in beside(o)}]
  <1>1. RoleContributions(drafts, target) =
          {row(o) : o \in {q \in InScope(drafts, target) : q.analysis_position # Missing}}
    BY DEF RoleContributions
  <1>2. \A o : /\ beside(o) = {q \in drafts.participants : Joins(o, q)}
               /\ against(o) = {q \in drafts.participants : Opposes(o, q)}
    BY DEF Joins, Opposes
  <1> HIDE DEF beside, against
  <1>3. \A o : row(o) = RoleRow(o)
    BY <1>2 DEF RoleRow
  <1> HIDE DEF row
  <1> QED BY <1>1, <1>3

\* Rows that are made of observations of the window, one row of an observation.
Originate(rows, f, target) ==
    /\ \A x \in rows : /\ f[x] \in InScope(drafts, target)
                       /\ x.win = f[x].win /\ x.public_patch = f[x].public_patch
    /\ \A x, y \in rows : f[x] = f[y] => x = y

\* There are finitely many of them, and their ages are those of a window.
LEMMA RowsOfWindow ==
  ASSUME SInv, Published(drafts), NEW target, target \in Int,
         \A o \in drafts.participants : ~(target < o.public_patch),
         NEW rows, NEW f, Originate(rows, f, target)
  PROVE  IsFiniteSet(rows) /\ Aged(rows, target)
  <1>1. InScope(drafts, target) \subseteq drafts.participants
    BY DEF InScope
  <1>2. \A o \in InScope(drafts, target) :
           o.public_patch \in Int /\ target - o.public_patch \in 0..MaxPreviousPatches
    <2> TAKE o \in InScope(drafts, target)
    <2>1. o \in drafts.participants /\ target - o.public_patch <= MaxPreviousPatches
      BY DEF InScope, Scope
    <2>2. o.public_patch \in Int /\ ~(target < o.public_patch)
      BY <2>1, ObservationsSay
    <2> QED BY <2>1, <2>2, AggregationAssumption
  <1>3. IsFiniteSet(rows)
    <2> DEFINE h == [x \in rows |-> f[x]]
    <2>1. h \in Injection(rows, drafts.participants)
      BY <1>1 DEF Originate, Injection, IsInjective
    <2> QED BY <2>1, ObservationsSay, FS_Injection
  <1> QED BY <1>2, <1>3 DEF Aged, Originate

\* Two sets of rows of the same observations match.
LEMMA RowsOfOneOrigin ==
  ASSUME NEW S, NEW T, NEW f, NEW g, NEW target,
         Originate(S, f, target), Originate(T, g, target),
         \A x \in S : \E y \in T : f[x] = g[y],
         \A y \in T : \E x \in S : f[x] = g[y]
  PROVE  \E R : Matched(S, T, R)
  <1> DEFINE R == {q \in S \X T : f[q[1]] = g[q[2]]}
  <1>1. \A x \in S : \A y \in T : <<x, y>> \in R <=> f[x] = g[y]
    OBVIOUS
  <1> HIDE DEF R
  <1>2. PairedOff(S, T, R)
    BY <1>1 DEF PairedOff, Originate
  <1>3. Matched(S, T, R)
    BY <1>1, <1>2 DEF Matched, Originate
  <1> QED BY <1>3

\* The rows of picks are such rows.
LEMMA RolesOriginate ==
  ASSUME SInv, Published(drafts), NEW target
  PROVE  \E g : /\ Originate(RoleContributions(drafts, target), g, target)
                /\ \A r \in RoleContributions(drafts, target) :
                      r = RoleRow(g[r]) /\ g[r].analysis_position # Missing
                /\ \A o \in InScope(drafts, target) :
                      o.analysis_position # Missing => g[RoleRow(o)] = o
  <1> DEFINE roles == RoleContributions(drafts, target)
             g == [r \in roles |-> CHOOSE o \in InScope(drafts, target) :
                                      o.analysis_position # Missing /\ r = RoleRow(o)]
  <1>1. ASSUME NEW r \in roles
        PROVE  /\ g[r] \in InScope(drafts, target) /\ r = RoleRow(g[r])
               /\ g[r].analysis_position # Missing
    <2>1. \E o \in InScope(drafts, target) :
             o.analysis_position # Missing /\ r = RoleRow(o)
      BY RolesAre
    <2> QED BY <2>1
  <1>2. \A o \in InScope(drafts, target) : o.analysis_position # Missing => RoleRow(o) \in roles
    BY RolesAre
  <1> HIDE DEF g, roles
  <1>3. \A o : /\ RoleRow(o).match_id = o.match_id /\ RoleRow(o).source = o.participant_id
               /\ RoleRow(o).win = o.win /\ RoleRow(o).public_patch = o.public_patch
    BY DEF RoleRow
  <1>4. Originate(roles, g, target)
    BY <1>1, <1>3 DEF Originate
  <1>5. ASSUME NEW o \in InScope(drafts, target), o.analysis_position # Missing
        PROVE  g[RoleRow(o)] = o
    <2>1. /\ g[RoleRow(o)] \in InScope(drafts, target)
          /\ RoleRow(o) = RoleRow(g[RoleRow(o)])
      BY <1>1, <1>2, <1>5
    <2>2. o \in drafts.participants /\ g[RoleRow(o)] \in drafts.participants
      BY <2>1 DEF InScope
    <2> QED BY <1>3, <2>1, <2>2, ObservationsSay
  <1> QED BY <1>1, <1>4, <1>5 DEF roles

\* The contributions to a key.
OfKey(all, key) == {c \in all : c.key = key}

\* A pick's rows with and without one opponent.
Facing(roles, pick) == {r \in roles : r.pick = pick /\ r.matchup_eligible}
Against(roles, pick, other) == {r \in Facing(roles, pick) : other \in r.opponent}

\* The contributions to a matchup match the pick's rows against that opponent, and its
\* baseline is the rest of the pick's rows.
LEMMA MatchupsMatch ==
  ASSUME SInv, Published(drafts), NEW target, target \in Int,
         \A o \in drafts.participants : ~(target < o.public_patch), NEW pick, NEW other
  PROVE  LET roles == RoleContributions(drafts, target)
             rows == OfKey(MatchupContributions(drafts, target), <<pick, other>>)
         IN  /\ IsFiniteSet(roles) /\ Aged(roles, target)
             /\ IsFiniteSet(rows) /\ Aged(rows, target)
             /\ \E R : Matched(rows, Against(roles, pick, other), R)
             /\ AgainstOthers(roles, pick, other)
                  = Facing(roles, pick) \ Against(roles, pick, other)
  <1> DEFINE roles == RoleContributions(drafts, target)
             rows == OfKey(MatchupContributions(drafts, target), <<pick, other>>)
             f == [c \in rows |-> CHOOSE o \in InScope(drafts, target) :
                                     \E p \in drafts.participants :
                                        Opposes(o, p) /\ c = RowOf(o, p, o.participant_id)]
  <1>1. PICK g : /\ Originate(roles, g, target)
                 /\ \A r \in roles : r = RoleRow(g[r]) /\ g[r].analysis_position # Missing
                 /\ \A o \in InScope(drafts, target) :
                       o.analysis_position # Missing => g[RoleRow(o)] = o
    BY RolesOriginate
  <1>2. \A c : c \in rows <=> /\ c.key = <<pick, other>>
                              /\ \E o \in InScope(drafts, target) : \E p \in drafts.participants :
                                    Opposes(o, p) /\ c = RowOf(o, p, o.participant_id)
    BY MatchupRowsAre DEF OfKey
  <1>3. \A c \in rows : /\ f[c] \in InScope(drafts, target)
                        /\ \E p \in drafts.participants :
                              Opposes(f[c], p) /\ c = RowOf(f[c], p, f[c].participant_id)
    BY <1>2
  <1>4. \A o \in InScope(drafts, target) : o.analysis_position # Missing => RoleRow(o) \in roles
    BY RolesAre
  <1> HIDE DEF roles, rows, f
  <1>5. \A o, p, s : /\ RowOf(o, p, s).win = o.win
                     /\ RowOf(o, p, s).public_patch = o.public_patch
                     /\ RowOf(o, p, s).key = <<PickOf(o), PickOf(p)>>
    BY DEF RowOf
  <1>6. InScope(drafts, target) \subseteq drafts.participants
    BY DEF InScope
  <1>7. Originate(rows, f, target)
    <2>1. ASSUME NEW x \in rows, NEW y \in rows, f[x] = f[y] PROVE x = y
      <3>1. PICK p \in drafts.participants :
               Opposes(f[x], p) /\ x = RowOf(f[x], p, f[x].participant_id)
        BY <1>3
      <3>2. PICK q \in drafts.participants :
               Opposes(f[y], q) /\ y = RowOf(f[y], q, f[y].participant_id)
        BY <1>3
      <3>3. f[x] \in drafts.participants
        BY <1>3, <1>6
      <3>4. p = q
        BY <2>1, <3>1, <3>2, <3>3, ObservationsSay
      <3> QED BY <2>1, <3>1, <3>2, <3>4
    <2>2. \A x \in rows : /\ f[x] \in InScope(drafts, target)
                          /\ x.win = f[x].win /\ x.public_patch = f[x].public_patch
      BY <1>3, <1>5
    <2> QED BY <2>1, <2>2 DEF Originate
  <1>8. \A o : /\ RoleRow(o).pick = PickOf(o)
               /\ RoleRow(o).matchup_eligible = o.matchup_eligible
               /\ \A x : x \in RoleRow(o).opponent <=>
                            \E p \in drafts.participants : Opposes(o, p) /\ x = PickOf(p)
    BY DEF RoleRow
  <1>9. \A r : r \in Against(roles, pick, other) <=>
                  /\ r \in roles /\ r.pick = pick /\ r.matchup_eligible
                  /\ other \in r.opponent
    BY DEF Against, Facing
  <1>10. ASSUME NEW x \in rows
         PROVE  \E y \in Against(roles, pick, other) : f[x] = g[y]
    <2> DEFINE o == f[x]
    <2>1. o \in InScope(drafts, target) /\ o \in drafts.participants
      BY <1>3, <1>6
    <2>2. PICK p \in drafts.participants : Opposes(o, p) /\ x = RowOf(o, p, o.participant_id)
      BY <1>3
    <2>3. PickOf(o) = pick /\ PickOf(p) = other
      BY <1>2, <1>5, <2>2
    <2> HIDE DEF o
    <2>4. o.matchup_eligible
      BY <2>2 DEF Opposes
    <2>5. o.analysis_position # Missing
      BY <2>1, <2>4, ObservationsSay
    <2>6. RoleRow(o) \in roles /\ g[RoleRow(o)] = o
      BY <1>1, <1>4, <2>1, <2>5
    <2>7. RoleRow(o) \in Against(roles, pick, other)
      BY <1>8, <1>9, <2>2, <2>3, <2>4, <2>6
    <2> QED BY <2>6, <2>7 DEF o
  <1>11. ASSUME NEW y \in Against(roles, pick, other)
         PROVE  \E x \in rows : f[x] = g[y]
    <2> DEFINE o == g[y]
    <2>1. /\ y \in roles /\ o \in InScope(drafts, target) /\ y = RoleRow(o)
          /\ y.pick = pick /\ y.matchup_eligible /\ other \in y.opponent
      BY <1>1, <1>9 DEF Originate
    <2> HIDE DEF o
    <2>2. PICK p \in drafts.participants : Opposes(o, p) /\ other = PickOf(p)
      BY <1>8, <2>1
    <2> DEFINE x == RowOf(o, p, o.participant_id)
    <2>3. x \in rows
      BY <1>2, <1>5, <1>8, <2>1, <2>2
    <2>4. f[x] = o
      <3>1. PICK q \in drafts.participants :
               Opposes(f[x], q) /\ x = RowOf(f[x], q, f[x].participant_id)
        BY <1>3, <2>3
      <3>2. /\ x.match_id = o.match_id /\ x.source = o.participant_id
            /\ RowOf(f[x], q, f[x].participant_id).match_id = f[x].match_id
            /\ RowOf(f[x], q, f[x].participant_id).source = f[x].participant_id
        BY DEF RowOf
      <3>3. f[x] \in drafts.participants /\ o \in drafts.participants
        BY <1>3, <1>6, <2>1, <2>3
      <3> HIDE DEF x
      <3> QED BY <3>1, <3>2, <3>3, ObservationsSay
    <2> QED BY <2>3, <2>4 DEF o
  <1>12. Originate(Against(roles, pick, other), g, target)
    BY <1>1, <1>9 DEF Originate
  <1>13. \E R : Matched(rows, Against(roles, pick, other), R)
    BY <1>7, <1>10, <1>11, <1>12, RowsOfOneOrigin
  <1>14. AgainstOthers(roles, pick, other)
           = Facing(roles, pick) \ Against(roles, pick, other)
    <2>1. ASSUME NEW r \in Facing(roles, pick)
          PROVE  r.opponent # {} /\ (r.opponent # {other} <=> other \notin r.opponent)
      <3> DEFINE o == g[r]
      <3>1. /\ r \in roles /\ o \in drafts.participants /\ r = RoleRow(o)
            /\ r.matchup_eligible
        BY <1>1, <1>6 DEF Originate, Facing
      <3> HIDE DEF o
      <3>2. o.matchup_eligible
        BY <1>8, <3>1
      <3>3. PICK p \in drafts.participants : Opposes(o, p)
        BY <3>1, <3>2, ObservationsSay
      <3>4. \A q \in drafts.participants : Opposes(o, q) => q = p
        BY <3>1, <3>3, ObservationsSay
      <3>5. r.opponent = {PickOf(p)}
        BY <1>8, <3>1, <3>3, <3>4
      <3> QED BY <3>5
    <2>2. \A r : r \in AgainstOthers(roles, pick, other) <=>
                   /\ r \in Facing(roles, pick)
                   /\ r.opponent # {} /\ r.opponent # {other}
      BY DEF AgainstOthers, Facing
    <2>3. \A r : r \in Against(roles, pick, other) <=>
                   r \in Facing(roles, pick) /\ other \in r.opponent
      BY DEF Against
    <2> QED BY <2>1, <2>2, <2>3
  <1>15. /\ IsFiniteSet(roles) /\ Aged(roles, target)
         /\ IsFiniteSet(rows) /\ Aged(rows, target)
    BY <1>1, <1>7, RowsOfWindow
  <1> QED BY <1>13, <1>14, <1>15 DEF roles, rows

\* A pick's rows with and without one ally.
Playing(roles, pick) == {r \in roles : r.pick = pick /\ r.synergy_eligible}
Alongside(roles, pick, other) == {r \in Playing(roles, pick) : other \in r.allies}

\* The contributions to a synergy match the pick's rows with that ally, as a team does not
\* count twice, and its baseline is the rest of the pick's rows.
LEMMA SynergiesMatch ==
  ASSUME SInv, Published(drafts), NEW target, target \in Int,
         \A o \in drafts.participants : ~(target < o.public_patch), NEW pick, NEW other,
         ~TwiceInTeam(SynergyContributions(drafts, target))
  PROVE  LET roles == RoleContributions(drafts, target)
             rows == OfKey(SynergyContributions(drafts, target), <<pick, other>>)
         IN  /\ IsFiniteSet(roles) /\ Aged(roles, target)
             /\ IsFiniteSet(rows) /\ Aged(rows, target)
             /\ \E R : Matched(rows, Alongside(roles, pick, other), R)
             /\ WithoutAlly(roles, pick, other)
                  = Playing(roles, pick) \ Alongside(roles, pick, other)
  <1> DEFINE roles == RoleContributions(drafts, target)
             rows == OfKey(SynergyContributions(drafts, target), <<pick, other>>)
             f == [c \in rows |-> CHOOSE o \in InScope(drafts, target) :
                                     \E p \in drafts.participants :
                                        Accompanied(o, p) /\ c = RowOf(o, p, SourceOf(o, p))]
  <1>1. PICK g : /\ Originate(roles, g, target)
                 /\ \A r \in roles : r = RoleRow(g[r]) /\ g[r].analysis_position # Missing
                 /\ \A o \in InScope(drafts, target) :
                       o.analysis_position # Missing => g[RoleRow(o)] = o
    BY RolesOriginate
  <1>2. \A c : c \in rows <=> /\ c.key = <<pick, other>>
                              /\ \E o \in InScope(drafts, target) : \E p \in drafts.participants :
                                    Accompanied(o, p) /\ c = RowOf(o, p, SourceOf(o, p))
    BY SynergyRowsAre DEF OfKey
  <1>3. \A c \in rows : /\ f[c] \in InScope(drafts, target)
                        /\ \E p \in drafts.participants :
                              Accompanied(f[c], p) /\ c = RowOf(f[c], p, SourceOf(f[c], p))
    BY <1>2
  <1>4. \A o \in InScope(drafts, target) : o.analysis_position # Missing => RoleRow(o) \in roles
    BY RolesAre
  <1>5. \A x, y \in rows : x.match_id = y.match_id /\ x.team_id = y.team_id => x.source = y.source
    BY DEF TwiceInTeam, OfKey
  <1> HIDE DEF roles, rows, f
  <1>6. \A o, p, s : /\ RowOf(o, p, s).win = o.win
                     /\ RowOf(o, p, s).public_patch = o.public_patch
                     /\ RowOf(o, p, s).key = <<PickOf(o), PickOf(p)>>
                     /\ RowOf(o, p, s).match_id = o.match_id
                     /\ RowOf(o, p, s).team_id = o.team_id
                     /\ RowOf(o, p, s).source = s
    BY DEF RowOf
  <1>7. InScope(drafts, target) \subseteq drafts.participants
    BY DEF InScope
  <1>8. Originate(rows, f, target)
    <2>1. ASSUME NEW x \in rows, NEW y \in rows, f[x] = f[y] PROVE x = y
      <3> DEFINE o == f[x]
      <3>1. PICK p \in drafts.participants :
               Accompanied(o, p) /\ x = RowOf(o, p, SourceOf(o, p))
        BY <1>3
      <3>2. PICK q \in drafts.participants :
               Accompanied(o, q) /\ y = RowOf(o, q, SourceOf(o, q))
        BY <1>3, <2>1
      <3> HIDE DEF o
      <3>3. x.source = y.source
        BY <1>5, <1>6, <3>1, <3>2
      <3>4. SourceOf(o, p) = SourceOf(o, q)
        BY <1>6, <3>1, <3>2, <3>3
      <3>5. p.match_id = q.match_id /\ p.participant_id = q.participant_id
        BY <3>1, <3>2, <3>4 DEF SourceOf, Accompanied, Joins
      <3>6. p = q
        BY <3>5, ObservationsSay
      <3> QED BY <3>1, <3>2, <3>6
    <2>2. \A x \in rows : /\ f[x] \in InScope(drafts, target)
                          /\ x.win = f[x].win /\ x.public_patch = f[x].public_patch
      BY <1>3, <1>6
    <2> QED BY <2>1, <2>2 DEF Originate
  <1>9. \A o \in drafts.participants :
               /\ RoleRow(o).pick = PickOf(o)
               /\ RoleRow(o).synergy_eligible <=> o.synergy_eligible
               /\ \A x : x \in RoleRow(o).allies <=>
                            \E p \in drafts.participants : Joins(o, p) /\ x = PickOf(p)
    <2>1. \A o : /\ RoleRow(o).pick = PickOf(o)
                 /\ RoleRow(o).synergy_eligible
                       <=> o.synergy_eligible /\ o.team_structure_valid
                 /\ \A x : x \in RoleRow(o).allies <=>
                              \E p \in drafts.participants : Joins(o, p) /\ x = PickOf(p)
      BY DEF RoleRow
    <2> QED BY <2>1, ObservationsSay
  <1>10. \A r : r \in Alongside(roles, pick, other) <=>
                  /\ r \in roles /\ r.pick = pick /\ r.synergy_eligible
                  /\ other \in r.allies
    BY DEF Alongside, Playing
  <1>11. ASSUME NEW x \in rows
         PROVE  \E y \in Alongside(roles, pick, other) : f[x] = g[y]
    <2> DEFINE o == f[x]
    <2>1. o \in InScope(drafts, target) /\ o \in drafts.participants
      BY <1>3, <1>7
    <2>2. PICK p \in drafts.participants : Accompanied(o, p) /\ x = RowOf(o, p, SourceOf(o, p))
      BY <1>3
    <2>3. PickOf(o) = pick /\ PickOf(p) = other
      BY <1>2, <1>6, <2>2
    <2> HIDE DEF o
    <2>4. o.synergy_eligible /\ o.analysis_position # Missing /\ Joins(o, p)
      BY <2>2 DEF Accompanied
    <2>5. RoleRow(o) \in roles /\ g[RoleRow(o)] = o
      BY <1>1, <1>4, <2>1, <2>4
    <2>6. RoleRow(o) \in Alongside(roles, pick, other)
      BY <1>9, <1>10, <2>1, <2>3, <2>4, <2>5
    <2> QED BY <2>5, <2>6 DEF o
  <1>12. ASSUME NEW y \in Alongside(roles, pick, other)
         PROVE  \E x \in rows : f[x] = g[y]
    <2> DEFINE o == g[y]
    <2>1. /\ y \in roles /\ o \in InScope(drafts, target) /\ y = RoleRow(o)
          /\ o.analysis_position # Missing
          /\ y.pick = pick /\ y.synergy_eligible /\ other \in y.allies
      BY <1>1, <1>10 DEF Originate
    <2> HIDE DEF o
    <2>2. o \in drafts.participants
      BY <1>7, <2>1
    <2>3. PICK p \in drafts.participants : Joins(o, p) /\ other = PickOf(p)
      BY <1>9, <2>1, <2>2
    <2>4. Accompanied(o, p)
      BY <1>9, <2>1, <2>2, <2>3 DEF Accompanied
    <2> DEFINE x == RowOf(o, p, SourceOf(o, p))
    <2>5. x \in rows
      <3>1. x.key = <<pick, other>>
        BY <1>6, <1>9, <2>1, <2>2, <2>3
      <3> QED BY <1>2, <2>1, <2>4, <3>1
    <2>6. f[x] = o
      <3>1. PICK q \in drafts.participants :
               Accompanied(f[x], q) /\ x = RowOf(f[x], q, SourceOf(f[x], q))
        BY <1>3, <2>5
      <3>2. f[x] \in drafts.participants
        BY <1>3, <1>7, <2>5
      <3>3. /\ x.match_id = o.match_id /\ x.source = SourceOf(o, p)
            /\ x.match_id = f[x].match_id /\ x.source = SourceOf(f[x], q)
        <4> HIDE DEF x
        <4>1. x.match_id = f[x].match_id /\ x.source = SourceOf(f[x], q)
          BY <1>6, <3>1
        <4> QED BY <1>6, <4>1 DEF x
      <3> HIDE DEF x
      <3>4. f[x].participant_id = o.participant_id
        BY <3>3 DEF SourceOf
      <3> QED BY <2>2, <3>2, <3>3, <3>4, ObservationsSay
    <2> QED BY <2>5, <2>6 DEF o
  <1>13. Originate(Alongside(roles, pick, other), g, target)
    BY <1>1, <1>10 DEF Originate
  <1>14. \E R : Matched(rows, Alongside(roles, pick, other), R)
    BY <1>8, <1>11, <1>12, <1>13, RowsOfOneOrigin
  <1>15. WithoutAlly(roles, pick, other)
           = Playing(roles, pick) \ Alongside(roles, pick, other)
    BY DEF WithoutAlly, Playing, Alongside
  <1>16. /\ IsFiniteSet(roles) /\ Aged(roles, target)
         /\ IsFiniteSet(rows) /\ Aged(rows, target)
    BY <1>1, <1>8, RowsOfWindow
  <1> QED BY <1>14, <1>15, <1>16 DEF roles, rows

\* The synergy of two picks has its reverse.
LEMMA SynergiesReverse ==
  ASSUME SInv, Published(drafts), NEW target, NEW c \in SynergyContributions(drafts, target)
  PROVE  \E d \in SynergyContributions(drafts, target) : d.key = <<c.key[2], c.key[1]>>
  <1>1. PICK a \in Payloads : \E r \in a.participants : \E s \in a.participants :
           Accompanies(c, a, r, s, target)
    BY SynergiesAre
  <1>2. PICK r \in a.participants, s \in a.participants : Accompanies(c, a, r, s, target)
    BY <1>1
  <1> DEFINE d == Contribution(a, s, r, SeatsOf(s, r))
  <1>3. <<s, r>> \in Companions(a)
    BY <1>2 DEF Accompanies, Companions
  <1>4. Accompanies(d, a, s, r, target)
    BY <1>2, <1>3 DEF Accompanies
  <1>5. d.key = KeyOf(s, r) /\ c.key = KeyOf(r, s)
    BY <1>2 DEF Accompanies, Contribution
  <1> HIDE DEF d
  <1>6. d \in SynergyContributions(drafts, target)
    BY <1>4, SynergiesAre
  <1> QED BY <1>5, <1>6 DEF KeyOf

\* A matchup and the rest of its pick's rows.
LEMMA MatchupSplits ==
  ASSUME SInv, Published(drafts), NEW target, target \in Int,
         \A o \in drafts.participants : ~(target < o.public_patch),
         NEW key, key \in {c.key : c \in MatchupContributions(drafts, target)}
  PROVE  LET roles == RoleContributions(drafts, target)
             rows == {c \in MatchupContributions(drafts, target) : c.key = key}
         IN  /\ Splits(Bundle(rows, drafts, target),
                       Bundle(AgainstOthers(roles, key[1], key[2]), drafts, target),
                       Bundle(Facing(roles, key[1]), drafts, target))
             /\ \E r \in Facing(roles, key[1]) : key[2] \in r.opponent
  <1> DEFINE roles == RoleContributions(drafts, target)
             all == MatchupContributions(drafts, target)
             rows == {c \in all : c.key = key}
             whole == Facing(roles, key[1])
             part == Against(roles, key[1], key[2])
  <1>1. key = <<key[1], key[2]>> /\ \E c \in rows : TRUE
    BY MatchupRowsAre DEF RowOf
  <1>2. /\ IsFiniteSet(roles) /\ Aged(roles, target)
        /\ IsFiniteSet(rows) /\ Aged(rows, target)
        /\ \E R : Matched(rows, part, R)
        /\ AgainstOthers(roles, key[1], key[2]) = whole \ part
    <2> DEFINE pick == key[1]
               other == key[2]
    <2>1. key = <<pick, other>>
      BY <1>1
    <2> HIDE DEF pick, other
    <2>2. /\ IsFiniteSet(roles) /\ Aged(roles, target)
          /\ IsFiniteSet(OfKey(all, <<pick, other>>)) /\ Aged(OfKey(all, <<pick, other>>), target)
          /\ \E R : Matched(OfKey(all, <<pick, other>>), Against(roles, pick, other), R)
          /\ AgainstOthers(roles, pick, other) = Facing(roles, pick) \ Against(roles, pick, other)
      BY MatchupsMatch
    <2> QED BY <2>1, <2>2 DEF OfKey, pick, other
  <1>3. /\ whole \in SUBSET roles /\ part \in SUBSET whole
        /\ \A r \in part : r \in whole /\ key[2] \in r.opponent
    BY DEF Facing, Against
  <1> HIDE DEF roles, all, rows, whole, part
  <1>4. IsFiniteSet(whole) /\ Aged(whole, target)
    BY <1>2, <1>3, FS_Subset DEF Aged
  <1>5. PICK R : Matched(rows, part, R)
    BY <1>2
  <1>6. Splits(Bundle(rows, drafts, target), Bundle(whole \ part, drafts, target),
               Bundle(whole, drafts, target))
    BY <1>2, <1>3, <1>4, <1>5, BundlesSplit
  <1>7. \E r \in whole : key[2] \in r.opponent
    BY <1>1, <1>3, <1>5 DEF Matched, PairedOff
  <1> QED BY <1>2, <1>6, <1>7 DEF rows, roles, all, whole

\* A synergy and the rest of its pick's rows.
LEMMA SynergySplits ==
  ASSUME SInv, Published(drafts), NEW target, target \in Int,
         \A o \in drafts.participants : ~(target < o.public_patch),
         ~TwiceInTeam(SynergyContributions(drafts, target)),
         NEW key, key \in {c.key : c \in SynergyContributions(drafts, target)}
  PROVE  LET roles == RoleContributions(drafts, target)
             rows == {c \in SynergyContributions(drafts, target) : c.key = key}
         IN  /\ Splits(Bundle(rows, drafts, target),
                       Bundle(WithoutAlly(roles, key[1], key[2]), drafts, target),
                       Bundle(Playing(roles, key[1]), drafts, target))
             /\ \E r \in Playing(roles, key[1]) : key[2] \in r.allies
  <1> DEFINE roles == RoleContributions(drafts, target)
             all == SynergyContributions(drafts, target)
             rows == {c \in all : c.key = key}
             whole == Playing(roles, key[1])
             part == Alongside(roles, key[1], key[2])
  <1>1. key = <<key[1], key[2]>> /\ \E c \in rows : TRUE
    BY SynergyRowsAre DEF RowOf
  <1>2. /\ IsFiniteSet(roles) /\ Aged(roles, target)
        /\ IsFiniteSet(rows) /\ Aged(rows, target)
        /\ \E R : Matched(rows, part, R)
        /\ WithoutAlly(roles, key[1], key[2]) = whole \ part
    <2> DEFINE pick == key[1]
               other == key[2]
    <2>1. key = <<pick, other>>
      BY <1>1
    <2> HIDE DEF pick, other
    <2>2. /\ IsFiniteSet(roles) /\ Aged(roles, target)
          /\ IsFiniteSet(OfKey(all, <<pick, other>>)) /\ Aged(OfKey(all, <<pick, other>>), target)
          /\ \E R : Matched(OfKey(all, <<pick, other>>), Alongside(roles, pick, other), R)
          /\ WithoutAlly(roles, pick, other) = Playing(roles, pick) \ Alongside(roles, pick, other)
      BY SynergiesMatch
    <2> QED BY <2>1, <2>2 DEF OfKey, pick, other
  <1>3. /\ whole \in SUBSET roles /\ part \in SUBSET whole
        /\ \A r \in part : r \in whole /\ key[2] \in r.allies
    BY DEF Playing, Alongside
  <1> HIDE DEF roles, all, rows, whole, part
  <1>4. IsFiniteSet(whole) /\ Aged(whole, target)
    BY <1>2, <1>3, FS_Subset DEF Aged
  <1>5. PICK R : Matched(rows, part, R)
    BY <1>2
  <1>6. Splits(Bundle(rows, drafts, target), Bundle(whole \ part, drafts, target),
               Bundle(whole, drafts, target))
    BY <1>2, <1>3, <1>4, <1>5, BundlesSplit
  <1>7. \E r \in whole : key[2] \in r.allies
    BY <1>1, <1>3, <1>5 DEF Matched, PairedOff
  <1> QED BY <1>2, <1>6, <1>7 DEF rows, roles, all, whole

\* The statistics of a pick are those of all its rows, with each exclusion.
LEMMA RoleStatisticsAre ==
  ASSUME NEW pick, NEW roles, NEW target
  PROVE  LET role == RoleStatistics(pick, roles, drafts, target) IN
         /\ role.pick = pick
         /\ role.matchup = Bundle(Facing(roles, pick), drafts, target)
         /\ role.synergy = Bundle(Playing(roles, pick), drafts, target)
         /\ \A other : (\E r \in Facing(roles, pick) : other \in r.opponent) =>
               role.opponent_exclusions[other]
                  = Bundle(AgainstOthers(roles, pick, other), drafts, target)
         /\ \A other : (\E r \in Playing(roles, pick) : other \in r.allies) =>
               role.ally_exclusions[other]
                  = Bundle(WithoutAlly(roles, pick, other), drafts, target)
  <1> DEFINE rows == {r \in roles : r.pick = pick}
             facing == {r \in rows : r.matchup_eligible}
             playing == {r \in rows : r.synergy_eligible}
             role == RoleStatistics(pick, roles, drafts, target)
  <1>1. facing = Facing(roles, pick) /\ playing = Playing(roles, pick)
    BY DEF Facing, Playing
  <1>2. /\ role.pick = pick
        /\ role.matchup = Bundle(facing, drafts, target)
        /\ role.synergy = Bundle(playing, drafts, target)
        /\ role.opponent_exclusions =
              [p \in UNION {r.opponent : r \in facing} |->
                  Bundle(AgainstOthers(roles, pick, p), drafts, target)]
        /\ role.ally_exclusions =
              [p \in UNION {r.allies : r \in playing} |->
                  Bundle(WithoutAlly(roles, pick, p), drafts, target)]
    BY DEF RoleStatistics
  <1> HIDE DEF role, facing, playing
  <1>3. ASSUME NEW other, \E r \in facing : other \in r.opponent
        PROVE  role.opponent_exclusions[other]
                  = Bundle(AgainstOthers(roles, pick, other), drafts, target)
    BY <1>2, <1>3
  <1>4. ASSUME NEW other, \E r \in playing : other \in r.allies
        PROVE  role.ally_exclusions[other]
                  = Bundle(WithoutAlly(roles, pick, other), drafts, target)
    BY <1>2, <1>4
  <1> QED BY <1>1, <1>2, <1>3, <1>4 DEF role

\* The baselines Stage 3.3B has published are the rest of their pick's rows.
LEMMA LeaveOutCounted == ASSUME SInv PROVE LeaveOutIsTheRest
  <1> DEFINE built == studies.aggregates.built
             ofPick(p) == CHOOSE r \in built.roles : r.pick = p
  <1> SUFFICES ASSUME Studied("aggregates") PROVE
        /\ \A a \in built.matchups :
              /\ Splits(a.bundle, a.focal_leave_opponent_out, ofPick(a.key[1]).matchup)
              /\ ofPick(a.key[1]).opponent_exclusions[a.key[2]] = a.focal_leave_opponent_out
              /\ \E b \in built.matchups :
                    /\ b.key = <<a.key[2], a.key[1]>>
                    /\ Splits(b.bundle, a.opponent_leave_focal_out,
                              ofPick(b.key[1]).matchup)
        /\ \A a \in built.synergies :
              /\ Splits(a.bundle, a.focal_without_ally, ofPick(a.key[1]).synergy)
              /\ \E b \in built.synergies :
                    /\ b.key = <<a.key[2], a.key[1]>>
                    /\ b.focal_without_ally = a.ally_without_focal
              /\ ofPick(a.key[1]).ally_exclusions[a.key[2]] = a.focal_without_ally
    BY DEF LeaveOutIsTheRest, Splits
  <1>1. Published(drafts)
    BY DEF SInv, StudiesAre, Studied, DraftStudies
  <1>2. PICK target \in DOMAIN ExpectedCounts : studies.aggregates = AggregatesOf(drafts, target)
    BY DEF SInv, StudiesAre, Studied
  <1> DEFINE matchups == MatchupContributions(drafts, target)
             synergies == SynergyContributions(drafts, target)
             roles == RoleContributions(drafts, target)
             matchup(k) == MatchupAggregate(k, matchups, roles, drafts, target)
             synergy(k) == SynergyAggregate(k, synergies, roles, drafts, target)
  <1>3. /\ built = Aggregates(drafts, target)
        /\ ReciprocalOutcomes(matchups, built) /\ ~AggregationRaises(drafts, target)
    <2>1. studies.aggregates # Refused
      BY DEF Studied
    <2> QED BY <1>2, <2>1 DEF AggregatesOf
  <1>4. target \in Int
    <2>1. PICK a \in Payloads : target = a.public_patch
      BY DEF ExpectedCounts, PatchCounts, Payloads
    <2>2. Transforms(a, Platform) /\ Regular(a)
      <3>1. Published(canonical)
        BY <1>1 DEF SInv, StagesAre
      <3> QED BY <3>1, RegularPayloads
    <2>3. ResolvePatch(a.gameVersion) # Missing /\ ResolvePatch(a.gameVersion) = a.public_patch
      BY <2>2 DEF Transforms, Regular
    <2> QED BY <2>1, <2>3 DEF ResolvePatch, MappingRule
  <1>5. /\ \A o \in drafts.participants : ~(target < o.public_patch)
        /\ ~TwiceInTeam(synergies)
    BY <1>3 DEF AggregationRaises
  <1>6. /\ built.matchups = {matchup(k) : k \in {c.key : c \in matchups}}
        /\ built.synergies = {synergy(k) : k \in {c.key : c \in synergies}}
        /\ built.roles = {RoleStatistics(p, roles, drafts, target) : p \in {r.pick : r \in roles}}
    BY <1>3 DEF Aggregates
  <1>7. \A k : /\ matchup(k).key = k
               /\ matchup(k).bundle = Bundle({c \in matchups : c.key = k}, drafts, target)
               /\ matchup(k).focal_leave_opponent_out
                     = Bundle(AgainstOthers(roles, k[1], k[2]), drafts, target)
               /\ matchup(k).opponent_leave_focal_out
                     = Bundle(AgainstOthers(roles, k[2], k[1]), drafts, target)
    BY DEF MatchupAggregate
  <1>8. \A k : /\ synergy(k).key = k
               /\ synergy(k).bundle = Bundle({c \in synergies : c.key = k}, drafts, target)
               /\ synergy(k).focal_without_ally
                     = Bundle(WithoutAlly(roles, k[1], k[2]), drafts, target)
               /\ synergy(k).ally_without_focal
                     = Bundle(WithoutAlly(roles, k[2], k[1]), drafts, target)
    BY DEF SynergyAggregate
  <1>9. \A a \in built.matchups : \E b \in built.matchups : b.key = <<a.key[2], a.key[1]>>
    BY <1>3 DEF ReciprocalOutcomes
  <1> HIDE DEF built, matchup, synergy
  <1>10. ASSUME NEW pick, \E r \in roles : r.pick = pick
         PROVE  ofPick(pick) = RoleStatistics(pick, roles, drafts, target)
    <2>1. \A p : RoleStatistics(p, roles, drafts, target).pick = p
      BY RoleStatisticsAre
    <2>2. RoleStatistics(pick, roles, drafts, target) \in built.roles
      BY <1>6, <1>10
    <2>3. \A r \in built.roles :
             r.pick = pick => r = RoleStatistics(pick, roles, drafts, target)
      BY <1>6, <2>1
    <2> QED BY <2>1, <2>2, <2>3
  <1> HIDE DEF ofPick, roles, matchups, synergies
  <1>11. ASSUME NEW k \in {c.key : c \in matchups}
         PROVE  /\ Splits(matchup(k).bundle, matchup(k).focal_leave_opponent_out,
                          ofPick(k[1]).matchup)
                /\ ofPick(k[1]).opponent_exclusions[k[2]] = matchup(k).focal_leave_opponent_out
    <2>1. /\ Splits(Bundle({c \in matchups : c.key = k}, drafts, target),
                    Bundle(AgainstOthers(roles, k[1], k[2]), drafts, target),
                    Bundle(Facing(roles, k[1]), drafts, target))
          /\ \E r \in Facing(roles, k[1]) : k[2] \in r.opponent
      BY <1>1, <1>4, <1>5, MatchupSplits DEF roles, matchups
    <2>2. \E r \in roles : r.pick = k[1]
      BY <2>1 DEF Facing
    <2>3. ofPick(k[1]) = RoleStatistics(k[1], roles, drafts, target)
      BY <1>10, <2>2
    <2>4. /\ ofPick(k[1]).matchup = Bundle(Facing(roles, k[1]), drafts, target)
          /\ ofPick(k[1]).opponent_exclusions[k[2]]
                = Bundle(AgainstOthers(roles, k[1], k[2]), drafts, target)
      BY <2>1, <2>3, RoleStatisticsAre
    <2> QED BY <1>7, <2>1, <2>4
  <1>12. ASSUME NEW k \in {c.key : c \in synergies}
         PROVE  /\ Splits(synergy(k).bundle, synergy(k).focal_without_ally,
                          ofPick(k[1]).synergy)
                /\ ofPick(k[1]).ally_exclusions[k[2]] = synergy(k).focal_without_ally
    <2>1. /\ Splits(Bundle({c \in synergies : c.key = k}, drafts, target),
                    Bundle(WithoutAlly(roles, k[1], k[2]), drafts, target),
                    Bundle(Playing(roles, k[1]), drafts, target))
          /\ \E r \in Playing(roles, k[1]) : k[2] \in r.allies
      BY <1>1, <1>4, <1>5, SynergySplits DEF roles, synergies
    <2>2. \E r \in roles : r.pick = k[1]
      BY <2>1 DEF Playing
    <2>3. ofPick(k[1]) = RoleStatistics(k[1], roles, drafts, target)
      BY <1>10, <2>2
    <2>4. /\ ofPick(k[1]).synergy = Bundle(Playing(roles, k[1]), drafts, target)
          /\ ofPick(k[1]).ally_exclusions[k[2]]
                = Bundle(WithoutAlly(roles, k[1], k[2]), drafts, target)
      BY <2>1, <2>3, RoleStatisticsAre
    <2> QED BY <1>8, <2>1, <2>4
  <1>13. ASSUME NEW a \in built.matchups
         PROVE  /\ Splits(a.bundle, a.focal_leave_opponent_out, ofPick(a.key[1]).matchup)
                /\ ofPick(a.key[1]).opponent_exclusions[a.key[2]] = a.focal_leave_opponent_out
                /\ \E b \in built.matchups :
                      /\ b.key = <<a.key[2], a.key[1]>>
                      /\ Splits(b.bundle, a.opponent_leave_focal_out,
                                ofPick(b.key[1]).matchup)
    <2>1. PICK k \in {c.key : c \in matchups} : a = matchup(k)
      BY <1>6
    <2>2. PICK b \in built.matchups : b.key = <<a.key[2], a.key[1]>>
      BY <1>9
    <2>3. PICK l \in {c.key : c \in matchups} : b = matchup(l)
      BY <1>6
    <2>4. a.key = k /\ b.key = l /\ l[1] = k[2] /\ l[2] = k[1]
      <3>1. a.key = k /\ b.key = l
        BY <1>7, <2>1, <2>3
      <3> QED BY <2>2, <3>1
    <2>5. b.focal_leave_opponent_out = a.opponent_leave_focal_out
      BY <1>7, <2>1, <2>3, <2>4
    <2>6. Splits(b.bundle, b.focal_leave_opponent_out, ofPick(b.key[1]).matchup)
      BY <1>11, <2>3, <2>4
    <2>7. /\ Splits(a.bundle, a.focal_leave_opponent_out, ofPick(a.key[1]).matchup)
          /\ ofPick(a.key[1]).opponent_exclusions[a.key[2]] = a.focal_leave_opponent_out
      BY <1>11, <2>1, <2>4
    <2> QED BY <2>2, <2>5, <2>6, <2>7
  <1>14. ASSUME NEW a \in built.synergies
         PROVE  /\ Splits(a.bundle, a.focal_without_ally, ofPick(a.key[1]).synergy)
                /\ \E b \in built.synergies :
                      /\ b.key = <<a.key[2], a.key[1]>>
                      /\ b.focal_without_ally = a.ally_without_focal
                /\ ofPick(a.key[1]).ally_exclusions[a.key[2]] = a.focal_without_ally
    <2>1. PICK k \in {c.key : c \in synergies} : a = synergy(k)
      BY <1>6
    <2> DEFINE l == <<k[2], k[1]>>
    <2>2. l \in {c.key : c \in synergies}
      <3>1. PICK c \in synergies : k = c.key
        OBVIOUS
      <3>2. \E d \in synergies : d.key = <<c.key[2], c.key[1]>>
        BY <1>1, SynergiesReverse DEF synergies
      <3> QED BY <3>1, <3>2
    <2>3. l[1] = k[2] /\ l[2] = k[1]
      OBVIOUS
    <2> HIDE DEF l
    <2>4. synergy(l) \in built.synergies
      BY <1>6, <2>2
    <2>5. a.key = k /\ synergy(l).key = l
      BY <1>8, <2>1
    <2>6. synergy(l).focal_without_ally = a.ally_without_focal
      BY <1>8, <2>1, <2>3
    <2>7. /\ Splits(a.bundle, a.focal_without_ally, ofPick(a.key[1]).synergy)
          /\ ofPick(a.key[1]).ally_exclusions[a.key[2]] = a.focal_without_ally
      BY <1>12, <2>1, <2>5
    <2> QED BY <2>4, <2>5, <2>6, <2>7 DEF l
  <1> QED BY <1>13, <1>14 DEF built, ofPick

\* In every reachable state the baselines Stage 3.3B has published and the rows of the
\* pairs they are compared with are the whole of the pick's rows.
THEOREM LeaveOutSafe == Spec => []LeaveOutIsTheRest
  <1>1. Spec => []SInv
    BY InitStages, StageSteps, PTL DEF Spec
  <1> QED BY <1>1, LeaveOutCounted, PTL
-----------------------------------------------------------------------------
(* Sequences in order, and folds over them.                                *)

\* A strict order of a set, as a relation.
Orders(R, S) ==
    /\ \A x \in S : <<x, x>> \notin R
    /\ \A x, y \in S : x # y => <<x, y>> \in R \/ <<y, x>> \in R
    /\ \A x, y, z \in S : <<x, y>> \in R /\ <<y, z>> \in R => <<x, z>> \in R

Below(R, S, x) == {y \in S : <<y, x>> \in R}
Rank(R, S, x) == Cardinality(Below(R, S, x))

\* A sequence of the elements of a set, each once and in order.
Lists(q, R, S) ==
    /\ DOMAIN q = 1..Cardinality(S)
    /\ \A n \in 1..Cardinality(S) : q[n] \in S
    /\ \A x \in S : \E n \in 1..Cardinality(S) : q[n] = x
    /\ \A m, n \in 1..Cardinality(S) : <<q[m], q[n]>> \in R <=> m < n

\* Whoever comes before has fewer before it.
LEMMA RankGrows ==
  ASSUME NEW S, IsFiniteSet(S), NEW R, Orders(R, S), NEW x \in S, NEW y \in S,
         <<x, y>> \in R
  PROVE  Rank(R, S, x) < Rank(R, S, y)
  <1> DEFINE a == Below(R, S, x)
             b == Below(R, S, y)
  <1>1. a \subseteq b /\ x \in b /\ x \notin a
    BY DEF Orders, Below
  <1>2. IsFiniteSet(b) /\ b \subseteq S
    BY FS_Subset DEF Below
  <1>3. IsFiniteSet(a) /\ Cardinality(a) <= Cardinality(b) /\ Cardinality(a) # Cardinality(b)
    <2> HIDE DEF a, b
    <2> QED BY <1>1, <1>2, FS_Subset
  <1>4. Cardinality(a) \in Nat /\ Cardinality(b) \in Nat
    <2> HIDE DEF a, b
    <2> QED BY <1>2, <1>3, FS_CardinalityType
  <1> QED BY <1>3, <1>4 DEF Rank

\* A rank is at most the number of the others.
LEMMA RankType ==
  ASSUME NEW S, IsFiniteSet(S), NEW R, Orders(R, S), NEW x \in S
  PROVE  Rank(R, S, x) \in 0..(Cardinality(S) - 1)
  <1>1. Below(R, S, x) \subseteq S \ {x}
    BY DEF Orders, Below
  <1>2. IsFiniteSet(S \ {x}) /\ Cardinality(S \ {x}) = Cardinality(S) - 1
    BY FS_RemoveElement
  <1>3. Cardinality(Below(R, S, x)) <= Cardinality(S \ {x}) /\ IsFiniteSet(Below(R, S, x))
    BY <1>1, <1>2, FS_Subset
  <1>4. Cardinality(S) \in Nat /\ Cardinality(Below(R, S, x)) \in Nat
    BY <1>3, FS_CardinalityType
  <1> QED BY <1>2, <1>3, <1>4 DEF Rank

\* A place for everyone, and everyone in place.
LEMMA RankTaken ==
  ASSUME NEW S, IsFiniteSet(S), NEW R, Orders(R, S), NEW n \in 0..(Cardinality(S) - 1)
  PROVE  \E x \in S : Rank(R, S, x) = n
  <1> DEFINE rank == [x \in S |-> Rank(R, S, x)]
             T == 0..(Cardinality(S) - 1)
             I == {rank[x] : x \in S}
  <1>1. Cardinality(S) \in Nat
    BY FS_CardinalityType
  <1>2. I \subseteq T
    BY RankType
  <1>3. rank \in Surjection(S, I)
    BY DEF Surjection
  <1>4. \A x, y \in S : rank[x] = rank[y] => x = y
    <2> TAKE x, y \in S
    <2> SUFFICES ASSUME rank[x] = rank[y], x # y PROVE FALSE
      OBVIOUS
    <2>1. CASE <<x, y>> \in R
      <3>1. Rank(R, S, x) < Rank(R, S, y)
        BY <2>1, RankGrows
      <3>2. Rank(R, S, x) \in Int
        BY RankType
      <3> QED BY <3>1, <3>2
    <2>2. CASE <<y, x>> \in R
      <3>1. Rank(R, S, y) < Rank(R, S, x)
        BY <2>2, RankGrows
      <3>2. Rank(R, S, x) \in Int
        BY RankType
      <3> QED BY <3>1, <3>2
    <2> QED BY <2>1, <2>2 DEF Orders
  <1>5. rank \in Injection(S, I)
    BY <1>3, <1>4 DEF Injection, Surjection, IsInjective
  <1>6. Cardinality(I) = Cardinality(S) /\ IsFiniteSet(I)
    <2> HIDE DEF rank, I
    <2> QED BY <1>3, <1>5, FS_Surjection
  <1>7. IsFiniteSet(T) /\ Cardinality(T) = Cardinality(S)
    BY <1>1, FS_Interval
  <1>8. I = T
    <2> HIDE DEF I, T
    <2> QED BY <1>2, <1>6, <1>7, FS_Subset
  <1> QED BY <1>8

\* What picking by rank gives.
LEMMA RankedLists ==
  ASSUME NEW S, IsFiniteSet(S), NEW R, Orders(R, S),
         NEW q, DOMAIN q = 1..Cardinality(S),
         \A n \in 1..Cardinality(S) :
            (\E x \in S : Rank(R, S, x) = n - 1) => q[n] \in S /\ Rank(R, S, q[n]) = n - 1
  PROVE  Lists(q, R, S)
  <1> DEFINE N == Cardinality(S)
  <1>0. N \in Nat
    BY FS_CardinalityType
  <1>1. \A n \in 1..N : q[n] \in S /\ Rank(R, S, q[n]) = n - 1
    <2> TAKE n \in 1..N
    <2>1. n - 1 \in 0..(N - 1)
      BY <1>0
    <2>2. \E x \in S : Rank(R, S, x) = n - 1
      BY <2>1, RankTaken
    <2> QED BY <2>2
  <1>2. \A x, y \in S : Rank(R, S, x) = Rank(R, S, y) => x = y
    <2> TAKE x, y \in S
    <2>1. Rank(R, S, x) \in Int /\ Rank(R, S, y) \in Int
      BY RankType
    <2>2. <<x, y>> \in R => Rank(R, S, x) < Rank(R, S, y)
      BY RankGrows
    <2>3. <<y, x>> \in R => Rank(R, S, y) < Rank(R, S, x)
      BY RankGrows
    <2> QED BY <2>1, <2>2, <2>3 DEF Orders
  <1>3. \A x \in S : \E n \in 1..N : q[n] = x
    <2> TAKE x \in S
    <2>1. Rank(R, S, x) \in 0..(N - 1)
      BY RankType
    <2> DEFINE n == Rank(R, S, x) + 1
    <2>2. n \in 1..N /\ n - 1 = Rank(R, S, x)
      BY <2>1, <1>0
    <2>3. q[n] \in S /\ Rank(R, S, q[n]) = Rank(R, S, x)
      BY <2>2, <1>1
    <2> QED BY <2>2, <2>3, <1>2
  <1>4. \A m, n \in 1..N : <<q[m], q[n]>> \in R <=> m < n
    <2> TAKE m, n \in 1..N
    <2>1. q[m] \in S /\ q[n] \in S /\ Rank(R, S, q[m]) = m - 1 /\ Rank(R, S, q[n]) = n - 1
      BY <1>1
    <2>2. <<q[m], q[n]>> \in R => m < n
      <3> HAVE <<q[m], q[n]>> \in R
      <3>1. Rank(R, S, q[m]) < Rank(R, S, q[n])
        BY <2>1, RankGrows
      <3> QED BY <2>1, <3>1
    <2>3. <<q[n], q[m]>> \in R => n < m
      <3> HAVE <<q[n], q[m]>> \in R
      <3>1. Rank(R, S, q[n]) < Rank(R, S, q[m])
        BY <2>1, RankGrows
      <3> QED BY <2>1, <3>1
    <2>4. m < n => q[m] # q[n]
      BY <2>1
    <2>5. m < n => <<q[m], q[n]>> \in R \/ <<q[n], q[m]>> \in R
      BY <2>1, <2>4 DEF Orders
    <2>6. m \in Int /\ n \in Int
      BY <1>0
    <2> HIDE DEF N
    <2>7. m < n => <<q[m], q[n]>> \in R
      BY <2>3, <2>5, <2>6
    <2> QED BY <2>2, <2>7
  <1> QED BY <1>1, <1>3, <1>4 DEF Lists

\* Folding the rows of a sequence, as a function of the places folded so far.
Peel(state, q, f, s) ==
    IF s = {} THEN state ELSE UpdateHistory(f[s \ {Max(s)}], q[Max(s)])
Peels(state, q, S, f) == f = [s \in SUBSET S |-> Peel(state, q, f, s)]
Folded(state, q) == (CHOOSE f : Peels(state, q, DOMAIN q, f))[DOMAIN q]

\* What the fold of the library computes.
LEMMA EnterIs ==
  ASSUME NEW state, NEW cohort
  PROVE  EnterHistory(state, cohort) = Folded(state, CohortOrder(cohort))
  BY DEF EnterHistory, FoldLeft, MapThenFoldSet, Folded, Peels, Peel

\* Among natural numbers there is a least.
LEMMA LeastNatural ==
  ASSUME NEW B, B \subseteq Nat, B # {}
  PROVE  \E n \in B : \A m \in B : n <= m
  <1>1. PICK n \in B : \A m \in B : ~(<<m, n>> \in OpToRel(<, Nat))
    BY NatLessThanWellFounded, WFMin
  <1>2. \A m \in B : m \in Nat /\ n \in Nat /\ ~(m < n)
    BY <1>1 DEF OpToRel
  <1>3. \A m \in B : n <= m
    BY <1>2
  <1> QED BY <1>3

\* The greatest of some numbers.
LEMMA GreatestIs ==
  ASSUME NEW s, NEW n \in s, s \subseteq Int, \A m \in s : m <= n
  PROVE  Max(s) = n
  <1>1. \A m \in s : n >= m
    OBVIOUS
  <1>2. Max(s) \in s /\ \A m \in s : Max(s) >= m
    BY <1>1 DEF Max
  <1>3. n >= Max(s) /\ Max(s) >= n
    BY <1>1, <1>2
  <1>4. n \in Int /\ Max(s) \in Int
    BY <1>2
  <1> QED BY <1>3, <1>4

\* There is such a function.
LEMMA PeelsExists ==
  ASSUME NEW state, NEW q, NEW N \in Nat
  PROVE  \E f : Peels(state, q, 1..N, f)
  <1> DEFINE B == {n \in Nat : \A f : ~Peels(state, q, 1..n, f)}
  <1>1. SUFFICES ASSUME B # {} PROVE FALSE
    OBVIOUS
  <1>2. PICK n \in B : \A m \in B : n <= m
    <2>1. B \subseteq Nat
      OBVIOUS
    <2> HIDE DEF B
    <2> QED BY <1>1, <2>1, LeastNatural
  <1>3. CASE n = 0
    <2> DEFINE f == [s \in SUBSET (1..n) |-> state]
    <2>1. \A s \in SUBSET (1..n) : s = {}
      BY <1>3
    <2>2. Peels(state, q, 1..n, f)
      BY <2>1 DEF Peels, Peel
    <2> QED BY <1>2, <2>2
  <1>4. CASE n # 0
    <2>1. n - 1 \in Nat /\ ~(n <= n - 1) /\ n \in Nat
      BY <1>2, <1>4
    <2>2. PICK g : Peels(state, q, 1..(n - 1), g)
      BY <1>2, <2>1
    <2> DEFINE f == [s \in SUBSET (1..n) |->
                       IF n \in s THEN UpdateHistory(g[s \ {n}], q[n]) ELSE g[s]]
    <2>3. \A s \in SUBSET (1..n) : f[s] = Peel(state, q, f, s)
      <3> TAKE s \in SUBSET (1..n)
      <3>1. CASE n \in s
        <4>0. s \subseteq Int /\ \A m \in s : m <= n
          BY <2>1
        <4>1. Max(s) = n
          BY <3>1, <4>0, GreatestIs
        <4>2. s \ {n} \in SUBSET (1..n) /\ n \notin s \ {n}
          OBVIOUS
        <4>3. f[s \ {n}] = g[s \ {n}]
          BY <4>2
        <4>4. f[s] = UpdateHistory(g[s \ {n}], q[n])
          BY <3>1
        <4> HIDE DEF f
        <4> QED BY <3>1, <4>1, <4>3, <4>4 DEF Peel
      <3>2. CASE n \notin s
        <4>1. s \in SUBSET (1..(n - 1))
          BY <3>2, <2>1
        <4>2. f[s] = g[s] /\ g[s] = Peel(state, q, g, s)
          BY <3>2, <4>1, <2>2 DEF Peels
        <4>3. f[s \ {Max(s)}] = g[s \ {Max(s)}]
          BY <3>2
        <4> HIDE DEF f
        <4> QED BY <4>2, <4>3 DEF Peel
      <3> QED BY <3>1, <3>2
    <2>4. Peels(state, q, 1..n, f)
      <3>1. f = [s \in SUBSET (1..n) |-> f[s]]
        OBVIOUS
      <3> HIDE DEF f
      <3> QED BY <2>3, <3>1 DEF Peels
    <2> HIDE DEF f
    <2> QED BY <1>2, <2>4
  <1> QED BY <1>3, <1>4

\* A fold, one row after another.
Runs(g, state, q, N) ==
    /\ g[0] = state
    /\ \A n \in 1..N : g[n] = UpdateHistory(g[n - 1], q[n])
    /\ Folded(state, q) = g[N]

LEMMA FoldSteps ==
  ASSUME NEW state, NEW q, NEW N \in Nat, DOMAIN q = 1..N
  PROVE  \E g : Runs(g, state, q, N)
  <1> DEFINE f == CHOOSE h : Peels(state, q, 1..N, h)
             g == [n \in 0..N |-> f[1..n]]
  <1>1. Peels(state, q, 1..N, f)
    BY PeelsExists
  <1>2. Folded(state, q) = f[1..N]
    BY DEF Folded
  <1> HIDE DEF f
  <1>3. g[0] = state
    <2>1. 1..0 = {} /\ {} \in SUBSET (1..N)
      OBVIOUS
    <2>2. f[{}] = state
      BY <1>1, <2>1 DEF Peels, Peel
    <2> QED BY <2>1, <2>2
  <1>4. \A n \in 1..N : g[n] = UpdateHistory(g[n - 1], q[n])
    <2> TAKE n \in 1..N
    <2>0. n \in Nat /\ 1 <= n /\ n <= N
      OBVIOUS
    <2>1. n \in 1..n /\ 1..n \in SUBSET (1..N) /\ 1..n # {} /\ (1..n) \ {n} = 1..(n - 1)
      <3>1. n \in 1..n /\ 1..n # {}
        BY <2>0
      <3>2. 1..n \in SUBSET (1..N)
        BY <2>0
      <3>3. (1..n) \ {n} = 1..(n - 1)
        BY <2>0
      <3> QED BY <3>1, <3>2, <3>3
    <2>2. Max(1..n) = n
      <3>1. 1..n \subseteq Int /\ \A m \in 1..n : m <= n
        BY <2>0
      <3> HIDE DEF g
      <3> QED BY <2>1, <3>1, GreatestIs
    <2>3. f[1..n] = UpdateHistory(f[1..(n - 1)], q[n])
      BY <1>1, <2>1, <2>2 DEF Peels, Peel
    <2>4. g[n] = f[1..n] /\ g[n - 1] = f[1..(n - 1)]
      OBVIOUS
    <2> HIDE DEF g
    <2> QED BY <2>3, <2>4
  <1>5. g[N] = f[1..N]
    OBVIOUS
  <1> HIDE DEF g
  <1> QED BY <1>2, <1>3, <1>4, <1>5 DEF Runs

-----------------------------------------------------------------------------
(* What a history holds of a set of rows.                                  *)

Values(w) == {w[r] : r \in DOMAIN w}
Places(q, V) == {i \in DOMAIN q : q[i] \in V}
Having(P, w, V) == {r \in P : w[r] \in V}

\* A sequence with the values of a set of rows, each as often as in the set.
Tallies(q, P, w) ==
    /\ q \in Seq(Values(w))
    /\ \A V : Cardinality(Places(q, V)) = Cardinality(Having(P, w, V))

\* It ends with the greatest of them.
Latest(q, P, t) == P # {} => \E r \in P : q[Len(q)] = t[r] /\ \A s \in P : t[s] <= t[r]

OfChampion(P, c) == {r \in P : r.champion = c}
OfPlayer(P, p) == {r \in P : r.player = p}
Won(P) == {r \in P : r.win}

KnowsChampion(c, P, w, t) ==
    Tallies(c.times, P, t) /\ Tallies(c.gold, P, w) /\ Latest(c.times, P, t)
Knows(h, P, w, t) ==
    /\ h.games = Cardinality(P) /\ h.wins = Cardinality(Won(P))
    /\ Tallies(h.gold, P, w)
    /\ \A c : KnowsChampion(ChampionOf(h, c), OfChampion(P, c), w, t)
Remembers(state, P, w, t) == \A p : Knows(HistoryOf(state, p), OfPlayer(P, p), w, t)

\* The empty sequence tallies no row.
LEMMA TallyEmpty ==
  ASSUME NEW w
  PROVE  Tallies(<<>>, {}, w)
  <1>1. <<>> \in Seq(Values(w)) /\ DOMAIN <<>> = {}
    BY EmptySeq
  <1>2. \A V : Places(<<>>, V) = {} /\ Having({}, w, V) = {}
    BY <1>1 DEF Places, Having
  <1> QED BY <1>1, <1>2 DEF Tallies

\* One more row, one more value.
LEMMA TallyAppend ==
  ASSUME NEW w, NEW P, IsFiniteSet(P), P \subseteq DOMAIN w,
         NEW r \in DOMAIN w, r \notin P, NEW q, Tallies(q, P, w)
  PROVE  Tallies(Append(q, w[r]), P \cup {r}, w)
  <1> DEFINE s == Append(q, w[r])
             n == Len(q)
  <1>1. w[r] \in Values(w) /\ q \in Seq(Values(w))
    BY DEF Values, Tallies
  <1>2. /\ s \in Seq(Values(w)) /\ n \in Nat
        /\ DOMAIN q = 1..n /\ DOMAIN s = 1..(n + 1)
        /\ \A i \in 1..n : s[i] = q[i]
        /\ s[n + 1] = w[r]
    BY <1>1, AppendProperties, LenProperties
  <1> HIDE DEF s, n
  <1>3. ASSUME NEW V PROVE Cardinality(Places(s, V)) = Cardinality(Having(P \cup {r}, w, V))
    <2>1. Cardinality(Places(q, V)) = Cardinality(Having(P, w, V))
      BY DEF Tallies
    <2>2. IsFiniteSet(Having(P, w, V)) /\ r \notin Having(P, w, V)
      BY FS_Subset DEF Having
    <2>3. IsFiniteSet(Places(q, V)) /\ n + 1 \notin Places(q, V)
      <3>1. Places(q, V) \subseteq 1..n
        BY <1>2 DEF Places
      <3>2. IsFiniteSet(1..n)
        BY <1>2, FS_Interval
      <3> QED BY <3>1, <3>2, <1>2, FS_Subset
    <2>4. CASE w[r] \in V
      <3>1. Places(s, V) = Places(q, V) \cup {n + 1}
        BY <1>2, <2>4 DEF Places
      <3>2. Having(P \cup {r}, w, V) = Having(P, w, V) \cup {r}
        BY <2>4 DEF Having
      <3>3. Cardinality(Places(s, V)) = Cardinality(Places(q, V)) + 1
        BY <2>3, <3>1, FS_AddElement
      <3>4. Cardinality(Having(P \cup {r}, w, V)) = Cardinality(Having(P, w, V)) + 1
        BY <2>2, <3>2, FS_AddElement
      <3> QED BY <2>1, <3>3, <3>4
    <2>5. CASE w[r] \notin V
      <3>1. Places(s, V) = Places(q, V)
        BY <1>2, <2>5 DEF Places
      <3>2. Having(P \cup {r}, w, V) = Having(P, w, V)
        BY <2>5 DEF Having
      <3> QED BY <2>1, <3>1, <3>2
    <2> QED BY <2>4, <2>5
  <1> QED BY <1>2, <1>3 DEF Tallies, s

\* A sequence that tallies rows is as long as they are many.
LEMMA TallyLength ==
  ASSUME NEW w, NEW P, NEW q, Tallies(q, P, w), P \subseteq DOMAIN w
  PROVE  /\ Len(q) = Cardinality(P)
         /\ DOMAIN q = 1..Len(q) /\ Len(q) \in Nat
  <1> DEFINE V == Values(w)
  <1>1. /\ q \in Seq(V)
        /\ Cardinality(Places(q, V)) = Cardinality(Having(P, w, V))
    BY DEF Tallies
  <1>2. DOMAIN q = 1..Len(q) /\ Len(q) \in Nat /\ \A i \in 1..Len(q) : q[i] \in V
    BY <1>1, LenProperties, ElementOfSeq
  <1>3. Places(q, V) = 1..Len(q)
    BY <1>2 DEF Places
  <1>4. Having(P, w, V) = P
    BY DEF Having, Values
  <1>5. Cardinality(1..Len(q)) = Len(q)
    BY <1>2, FS_Interval
  <1> QED BY <1>1, <1>2, <1>3, <1>4, <1>5

\* A row created no earlier than the others comes last.
LEMMA LatestAppend ==
  ASSUME NEW t, NEW P, P \subseteq DOMAIN t, NEW r \in DOMAIN t, t \in [DOMAIN t -> Int],
         \A s \in P : t[s] <= t[r], NEW q, Tallies(q, P, t)
  PROVE  Latest(Append(q, t[r]), P \cup {r}, t)
  <1>1. t[r] \in Values(t) /\ q \in Seq(Values(t))
    BY DEF Values, Tallies
  <1>2. LET s == Append(q, t[r]) IN s[Len(s)] = t[r]
    BY <1>1, AppendProperties, LenProperties
  <1>3. \A s \in P \cup {r} : t[s] <= t[r]
    BY SMT
  <1> QED BY <1>2, <1>3 DEF Latest

Golds(U) == [r \in U |-> r.gold[HistoryMinute]]
Times(U) == [r \in U |-> r.game_creation]

\* What is known of a champion after one more game with it.
LEMMA KnowsChampionNext ==
  ASSUME NEW w, NEW t, DOMAIN w = DOMAIN t, t \in [DOMAIN t -> Int],
         NEW P, IsFiniteSet(P), P \subseteq DOMAIN t, NEW r \in DOMAIN t, r \notin P,
         \A s \in P : t[s] <= t[r], NEW c, KnowsChampion(c, P, w, t)
  PROVE  KnowsChampion([times |-> Append(c.times, t[r]), gold |-> Append(c.gold, w[r])],
                       P \cup {r}, w, t)
  <1>1. Tallies(Append(c.times, t[r]), P \cup {r}, t)
    BY TallyAppend DEF KnowsChampion
  <1>2. Tallies(Append(c.gold, w[r]), P \cup {r}, w)
    BY TallyAppend DEF KnowsChampion
  <1>3. Latest(Append(c.times, t[r]), P \cup {r}, t)
    BY LatestAppend DEF KnowsChampion
  <1> QED BY <1>1, <1>2, <1>3 DEF KnowsChampion

\* A player nothing is known of.
LEMMA NothingKnown ==
  ASSUME NEW w, NEW t
  PROVE  /\ Knows(NewHistory, {}, w, t)
         /\ Remembers([p \in {} |-> NewHistory], {}, w, t)
  <1>1. Cardinality({}) = 0 /\ Won({}) = {} /\ \A c : OfChampion({}, c) = {}
    BY FS_EmptySet DEF Won, OfChampion
  <1>2. \A c : ChampionOf(NewHistory, c) = NewChampion
    BY DEF ChampionOf, NewHistory
  <1>3. KnowsChampion(NewChampion, {}, w, t)
    BY TallyEmpty DEF KnowsChampion, NewChampion, Latest
  <1>4. Knows(NewHistory, {}, w, t)
    <2>1. NewHistory.games = 0 /\ NewHistory.wins = 0 /\ NewHistory.gold = <<>>
      BY DEF NewHistory
    <2>2. \A c : KnowsChampion(ChampionOf(NewHistory, c), OfChampion({}, c), w, t)
      BY <1>1, <1>2, <1>3
    <2> QED BY <1>1, <2>1, <2>2, TallyEmpty DEF Knows
  <1>5. \A p : HistoryOf([x \in {} |-> NewHistory], p) = NewHistory /\ OfPlayer({}, p) = {}
    BY DEF HistoryOf, OfPlayer
  <1> QED BY <1>4, <1>5 DEF Remembers

\* One more row, and the player's history knows it.
LEMMA RemembersNext ==
  ASSUME NEW U, IsFiniteSet(U), \A r \in U : r.game_creation \in Int,
         NEW P, P \subseteq U, NEW row \in U, row \notin P,
         \A r \in P : r.game_creation <= row.game_creation,
         NEW state, Remembers(state, P, Golds(U), Times(U))
  PROVE  Remembers(UpdateHistory(state, row), P \cup {row}, Golds(U), Times(U))
  <1> DEFINE w == Golds(U)
             t == Times(U)
             h == HistoryOf(state, row.player)
             c == ChampionOf(h, row.champion)
             gold == row.gold[HistoryMinute]
             played == [times |-> Append(c.times, row.game_creation), gold |-> Append(c.gold, gold)]
             next == [games |-> h.games + 1, wins |-> h.wins + (IF row.win THEN 1 ELSE 0),
                      gold |-> Append(h.gold, gold),
                      champions |-> [k \in DOMAIN h.champions \cup {row.champion} |->
                                       IF k = row.champion THEN played ELSE h.champions[k]]]
             mine == OfPlayer(P, row.player)
  <1>1. /\ DOMAIN w = U /\ DOMAIN t = U /\ t \in [U -> Int]
        /\ w[row] = gold /\ t[row] = row.game_creation
        /\ \A r \in P : t[r] <= t[row]
    BY DEF Golds, Times
  <1>2. UpdateHistory(state, row) =
          [p \in DOMAIN state \cup {row.player} |-> IF p = row.player THEN next ELSE state[p]]
    BY DEF UpdateHistory
  <1>3. /\ HistoryOf(UpdateHistory(state, row), row.player) = next
        /\ \A p : p # row.player => HistoryOf(UpdateHistory(state, row), p) = HistoryOf(state, p)
    <2> HIDE DEF next
    <2> QED BY <1>2 DEF HistoryOf
  <1>4. /\ OfPlayer(P \cup {row}, row.player) = mine \cup {row}
        /\ \A p : p # row.player => OfPlayer(P \cup {row}, p) = OfPlayer(P, p)
    BY DEF OfPlayer
  <1>5. mine \subseteq P /\ IsFiniteSet(P) /\ IsFiniteSet(mine) /\ row \notin mine
    BY FS_Subset DEF OfPlayer
  <1>6. Knows(h, mine, w, t)
    BY DEF Remembers
  <1>7. next.games = Cardinality(mine \cup {row})
    <2>1. next.games = h.games + 1 /\ h.games = Cardinality(mine)
      BY <1>6 DEF Knows
    <2> HIDE DEF mine, next, h
    <2> QED BY <1>5, <2>1, FS_AddElement
  <1>8. next.wins = Cardinality(Won(mine \cup {row}))
    <2>1. h.wins = Cardinality(Won(mine))
      BY <1>6 DEF Knows
    <2>2. IsFiniteSet(Won(mine)) /\ row \notin Won(mine)
      BY <1>5, FS_Subset DEF Won
    <2>3. Cardinality(Won(mine)) \in Nat
      BY <2>2, FS_CardinalityType
    <2>4. CASE row.win
      <3>1. Won(mine \cup {row}) = Won(mine) \cup {row}
        BY <2>4 DEF Won
      <3>2. next.wins = h.wins + 1
        BY <2>4
      <3> HIDE DEF mine, next, h
      <3> QED BY <2>1, <2>2, <3>1, <3>2, FS_AddElement
    <2>5. CASE ~row.win
      <3>1. Won(mine \cup {row}) = Won(mine)
        BY <2>5 DEF Won
      <3>2. next.wins = h.wins + 0
        BY <2>5
      <3> HIDE DEF mine, next, h
      <3> QED BY <2>1, <2>3, <3>1, <3>2
    <2> QED BY <2>4, <2>5
  <1>9. Tallies(next.gold, mine \cup {row}, w)
    <2>1. Tallies(h.gold, mine, w) /\ next.gold = Append(h.gold, w[row])
      BY <1>1, <1>6 DEF Knows
    <2> HIDE DEF mine, next, h, w
    <2> QED BY <1>1, <1>5, <2>1, TallyAppend
  <1>10. /\ ChampionOf(next, row.champion) = played
         /\ \A k : k # row.champion => ChampionOf(next, k) = ChampionOf(h, k)
    <2>1. next.champions = [k \in DOMAIN h.champions \cup {row.champion} |->
                              IF k = row.champion THEN played ELSE h.champions[k]]
      OBVIOUS
    <2> HIDE DEF next, h, played
    <2> QED BY <2>1 DEF ChampionOf
  <1>11. KnowsChampion(played, OfChampion(mine, row.champion) \cup {row}, w, t)
    <2> DEFINE Q == OfChampion(mine, row.champion)
    <2>1. KnowsChampion(c, Q, w, t)
      BY <1>6 DEF Knows
    <2>2. Q \subseteq P /\ Q \subseteq mine /\ row \notin Q
      BY <1>5 DEF OfChampion
    <2>3. IsFiniteSet(Q) /\ Q \subseteq U
      BY <1>5, <2>2, FS_Subset
    <2>4. played = [times |-> Append(c.times, t[row]), gold |-> Append(c.gold, w[row])]
      BY <1>1
    <2>5. /\ DOMAIN w = DOMAIN t /\ t \in [DOMAIN t -> Int] /\ Q \subseteq DOMAIN t
          /\ row \in DOMAIN t /\ \A r \in Q : t[r] <= t[row]
      BY <1>1, <2>2, <2>3
    <2> HIDE DEF Q, c, w, t, played, mine
    <2>6. KnowsChampion([times |-> Append(c.times, t[row]), gold |-> Append(c.gold, w[row])],
                        Q \cup {row}, w, t)
      BY <2>1, <2>2, <2>3, <2>5, KnowsChampionNext
    <2>7. KnowsChampion(played, Q \cup {row}, w, t)
      BY <2>4, <2>6
    <2> QED BY <2>7 DEF Q
  <1>12. \A k : KnowsChampion(ChampionOf(next, k), OfChampion(mine \cup {row}, k), w, t)
    <2>1. /\ OfChampion(mine \cup {row}, row.champion) = OfChampion(mine, row.champion) \cup {row}
          /\ \A k : k # row.champion => OfChampion(mine \cup {row}, k) = OfChampion(mine, k)
      BY DEF OfChampion
    <2>2. \A k : KnowsChampion(ChampionOf(h, k), OfChampion(mine, k), w, t)
      BY <1>6 DEF Knows
    <2> HIDE DEF mine, next, h, w, t, played
    <2> QED BY <1>10, <1>11, <2>1, <2>2
  <1>13. Knows(next, mine \cup {row}, w, t)
    <2> HIDE DEF mine, next, w, t
    <2> QED BY <1>7, <1>8, <1>9, <1>12 DEF Knows
  <1>14. \A p : Knows(HistoryOf(state, p), OfPlayer(P, p), w, t)
    BY DEF Remembers
  <1> HIDE DEF mine, next, w, t
  <1> QED BY <1>3, <1>4, <1>13, <1>14 DEF Remembers, w, t

\* A cohort, and every history knows its rows.
LEMMA RemembersCohort ==
  ASSUME NEW U, IsFiniteSet(U), \A r \in U : r.game_creation \in Int,
         NEW P, P \subseteq U, NEW C, C \subseteq U, P \cap C = {},
         \A r \in P, s \in C : r.game_creation <= s.game_creation,
         \A r, s \in C : r.game_creation = s.game_creation,
         NEW R, Orders(R, C), \A r, s \in C : <<r, s>> \in R <=> InOrder(r, s),
         NEW state, Remembers(state, P, Golds(U), Times(U))
  PROVE  Remembers(EnterHistory(state, C), P \cup C, Golds(U), Times(U))
  <1> DEFINE q == CohortOrder(C)
             N == Cardinality(C)
  <1>1. IsFiniteSet(C) /\ N \in Nat
    BY FS_Subset, FS_CardinalityType
  <1>2. Lists(q, R, C)
    <2>1. q = [n \in 1..N |->
                 CHOOSE x \in C : Cardinality({y \in C : InOrder(y, x)}) = n - 1]
      BY DEF CohortOrder, Sorted
    <2> HIDE DEF q
    <2>2. \A x \in C : Cardinality({y \in C : InOrder(y, x)}) = Rank(R, C, x)
      <3>1. \A x \in C : {y \in C : InOrder(y, x)} = Below(R, C, x)
        BY DEF Below
      <3> QED BY <3>1 DEF Rank
    <2>3. ASSUME NEW n \in 1..N, NEW x \in C, Rank(R, C, x) = n - 1
          PROVE  q[n] \in C /\ Rank(R, C, q[n]) = n - 1
      <3>1. q[n] = CHOOSE z \in C : Cardinality({y \in C : InOrder(y, z)}) = n - 1
        BY <2>1
      <3>2. Cardinality({y \in C : InOrder(y, x)}) = n - 1
        BY <2>2, <2>3
      <3>3. q[n] \in C /\ Cardinality({y \in C : InOrder(y, q[n])}) = n - 1
        BY <3>1, <3>2
      <3> QED BY <2>2, <3>3
    <2>4. DOMAIN q = 1..N
      BY <2>1
    <2> QED BY <1>1, <2>3, <2>4, RankedLists
  <1>3. /\ DOMAIN q = 1..N
        /\ \A n \in 1..N : q[n] \in C
        /\ \A r \in C : \E n \in 1..N : q[n] = r
        /\ \A m, n \in 1..N : q[m] = q[n] => m = n
    <2> HIDE DEF q
    <2>1. /\ DOMAIN q = 1..N /\ \A n \in 1..N : q[n] \in C
          /\ \A m, n \in 1..N : <<q[m], q[n]>> \in R <=> m < n
      BY <1>2 DEF Lists
    <2>2. ASSUME NEW m \in 1..N, NEW n \in 1..N, q[m] = q[n] PROVE m = n
      <3>1. <<q[m], q[n]>> \notin R /\ <<q[n], q[m]>> \notin R
        BY <2>1, <2>2 DEF Orders
      <3>2. ~(m < n) /\ ~(n < m)
        BY <2>1, <3>1
      <3> QED BY <1>1, <3>2
    <2> QED BY <1>2, <2>1, <2>2 DEF Lists
  <1>4. PICK g : Runs(g, state, q, N)
    <2>1. N \in Nat /\ DOMAIN q = 1..N
      BY <1>1, <1>3
    <2> HIDE DEF q, N
    <2> QED BY <2>1, FoldSteps
  <1>5. EnterHistory(state, C) = g[N]
    BY <1>4, EnterIs DEF Runs
  <1> HIDE DEF q
  <1> DEFINE Entered(n) == {q[i] : i \in 1..n}
             Late == {n \in 0..N : ~Remembers(g[n], P \cup Entered(n), Golds(U), Times(U))}
  <1>6. SUFFICES ASSUME Late # {} PROVE FALSE
    <2>1. Entered(N) = C
      BY <1>3
    <2>2. N \notin Late
      BY <1>6
    <2>3. Remembers(g[N], P \cup Entered(N), Golds(U), Times(U))
      BY <1>1, <2>2
    <2> HIDE DEF Entered, Late, N
    <2> QED BY <1>5, <2>1, <2>3
  <1>7. PICK n \in Late : \A m \in Late : n <= m
    <2>1. Late \subseteq Nat
      OBVIOUS
    <2> HIDE DEF Late
    <2> QED BY <1>6, <2>1, LeastNatural
  <1>8. CASE n = 0
    <2>1. P \cup Entered(0) = P
      OBVIOUS
    <2> QED BY <1>4, <1>7, <1>8, <2>1 DEF Runs
  <1>9. CASE n # 0
    <2>1. n \in 1..N /\ n - 1 \in 0..N /\ ~(n <= n - 1)
      BY <1>1, <1>7, <1>9
    <2>2. Remembers(g[n - 1], P \cup Entered(n - 1), Golds(U), Times(U))
      BY <1>7, <2>1
    <2>3. Entered(n) = Entered(n - 1) \cup {q[n]}
      BY <1>1, <2>1
    <2>4. q[n] \notin P \cup Entered(n - 1) /\ q[n] \in U /\ P \cup Entered(n - 1) \subseteq U
      BY <1>1, <1>3, <2>1
    <2>5. \A r \in P \cup Entered(n - 1) : r.game_creation <= q[n].game_creation
      <3>1. Entered(n - 1) \subseteq C /\ q[n] \in C
        BY <1>1, <1>3, <2>1
      <3> HIDE DEF Entered
      <3> QED BY <3>1
    <2>6. Remembers(g[n], (P \cup Entered(n - 1)) \cup {q[n]}, Golds(U), Times(U))
      <3>1. g[n] = UpdateHistory(g[n - 1], q[n])
        BY <1>4, <2>1 DEF Runs
      <3> HIDE DEF Entered, Late
      <3> QED BY <2>2, <2>4, <2>5, <3>1, RemembersNext
    <2>7. (P \cup Entered(n - 1)) \cup {q[n]} = P \cup Entered(n)
      BY <2>3
    <2> QED BY <1>7, <2>6, <2>7
  <1> QED BY <1>8, <1>9

\* The states after each cohort, up to one.
StatesTo(rows, times, m, f) ==
    f = [n \in 0..m |-> IF n = 0 THEN [p \in {} |-> NewHistory]
                        ELSE EnterHistory(f[n - 1], Cohort(rows, times[n]))]

\* There are such states.
LEMMA StatesExist ==
  ASSUME NEW rows, NEW times, NEW N \in Nat
  PROVE  \E f : StatesTo(rows, times, N, f)
  <1> DEFINE B == {n \in Nat : \A f : ~StatesTo(rows, times, n, f)}
  <1>1. SUFFICES ASSUME B # {} PROVE FALSE
    OBVIOUS
  <1>2. PICK n \in B : \A m \in B : n <= m
    <2>1. B \subseteq Nat
      OBVIOUS
    <2> HIDE DEF B
    <2> QED BY <1>1, <2>1, LeastNatural
  <1>3. CASE n = 0
    <2> DEFINE f == [k \in 0..n |-> [p \in {} |-> NewHistory]]
    <2>1. StatesTo(rows, times, n, f)
      BY <1>3 DEF StatesTo
    <2> QED BY <1>2, <2>1
  <1>4. CASE n # 0
    <2>1. n - 1 \in Nat /\ ~(n <= n - 1) /\ n \in Nat
      BY <1>2, <1>4
    <2>2. PICK g : StatesTo(rows, times, n - 1, g)
      BY <1>2, <2>1
    <2> DEFINE f == [k \in 0..n |-> IF k = n THEN EnterHistory(g[n - 1], Cohort(rows, times[n]))
                                    ELSE g[k]]
               At(k) == IF k = 0 THEN [p \in {} |-> NewHistory]
                        ELSE EnterHistory(f[k - 1], Cohort(rows, times[k]))
    <2>3. \A k \in 0..n : f[k] = At(k)
      <3> TAKE k \in 0..n
      <3>1. k # 0 => k - 1 \in 0..n /\ k - 1 # n
        BY <2>1
      <3>2. k # 0 => f[k - 1] = g[k - 1]
        BY <3>1
      <3>3. CASE k = n
        BY <3>2, <3>3, <1>4
      <3>4. CASE k # n
        <4>1. k \in 0..(n - 1)
          BY <2>1, <3>4
        <4>2. f[k] = g[k]
          BY <3>4
        <4> HIDE DEF f
        <4> QED BY <2>2, <3>2, <4>1, <4>2 DEF StatesTo
      <3> QED BY <3>3, <3>4
    <2>4. StatesTo(rows, times, n, f)
      <3>1. f = [k \in 0..n |-> f[k]]
        OBVIOUS
      <3> HIDE DEF f
      <3> QED BY <2>3, <3>1 DEF StatesTo
    <2> HIDE DEF f
    <2> QED BY <1>2, <2>4
  <1> QED BY <1>3, <1>4

\* The states the features are taken from.
LEMMA StatesAre ==
  ASSUME NEW rows, NEW times, Len(times) \in Nat
  PROVE  LET states == HistoryStates(rows, times) IN
         /\ states[0] = [p \in {} |-> NewHistory]
         /\ \A n \in 1..Len(times) :
               states[n] = EnterHistory(states[n - 1], Cohort(rows, times[n]))
  <1> DEFINE f == CHOOSE g : StatesTo(rows, times, Len(times), g)
  <1>1. StatesTo(rows, times, Len(times), f)
    BY StatesExist
  <1>2. HistoryStates(rows, times) = f
    BY DEF HistoryStates, StatesTo
  <1> HIDE DEF f
  <1>3. f[0] = [p \in {} |-> NewHistory]
    BY <1>1 DEF StatesTo
  <1>4. \A n \in 1..Len(times) : f[n] = EnterHistory(f[n - 1], Cohort(rows, times[n]))
    BY <1>1 DEF StatesTo
  <1> QED BY <1>2, <1>3, <1>4

\* The creation times, in order.
LEMMA TimesInOrder ==
  ASSUME NEW rows, IsFiniteSet(rows), \A r \in rows : r.game_creation \in Int
  PROVE  LET times == CreationTimes(rows) IN
         /\ Len(times) \in Nat
         /\ \A n \in 1..Len(times) : times[n] \in {r.game_creation : r \in rows}
         /\ \A r \in rows : \E n \in 1..Len(times) : times[n] = r.game_creation
         /\ \A m, n \in 1..Len(times) : times[m] < times[n] <=> m < n
  <1> DEFINE T == {r.game_creation : r \in rows}
             R == {p \in T \X T : p[1] < p[2]}
             N == Cardinality(T)
             q == CreationTimes(rows)
  <1>1. IsFiniteSet(T) /\ T \subseteq Int
    <2> DEFINE f == [r \in rows |-> r.game_creation]
    <2>1. T = {f[r] : r \in rows} /\ T \subseteq Int
      OBVIOUS
    <2> HIDE DEF f, T
    <2> QED BY <2>1, FiniteImage
  <1>2. N \in Nat
    BY <1>1, FS_CardinalityType
  <1>3. \A x, y \in T : <<x, y>> \in R <=> x < y
    OBVIOUS
  <1>4. q = [n \in 1..N |-> CHOOSE x \in T : Cardinality({y \in T : y < x}) = n - 1]
    BY DEF CreationTimes, Sorted
  <1> HIDE DEF T, R, q, N
  <1>5. Orders(R, T)
    BY <1>1, <1>3 DEF Orders
  <1>6. \A x \in T : Cardinality({y \in T : y < x}) = Rank(R, T, x)
    <2>1. \A x \in T : {y \in T : y < x} = Below(R, T, x)
      BY <1>3 DEF Below
    <2> QED BY <2>1 DEF Rank
  <1>7. Lists(q, R, T)
    <2>1. ASSUME NEW n \in 1..N, NEW x \in T, Rank(R, T, x) = n - 1
          PROVE  q[n] \in T /\ Rank(R, T, q[n]) = n - 1
      <3>1. q[n] = CHOOSE z \in T : Cardinality({y \in T : y < z}) = n - 1
        BY <1>4
      <3>2. Cardinality({y \in T : y < x}) = n - 1
        BY <1>6, <2>1
      <3>3. q[n] \in T /\ Cardinality({y \in T : y < q[n]}) = n - 1
        BY <3>1, <3>2
      <3> QED BY <1>6, <3>3
    <2>2. DOMAIN q = 1..N
      BY <1>4
    <2> QED BY <1>1, <1>5, <2>1, <2>2, RankedLists DEF N
  <1>8. Len(q) = N
    <2>1. q \in [1..N -> T]
      <3> DEFINE F(n) == CHOOSE x \in T : Cardinality({y \in T : y < x}) = n - 1
      <3>1. q = [n \in 1..N |-> F(n)]
        BY <1>4
      <3> HIDE DEF F
      <3>2. \A n \in 1..N : q[n] \in T
        BY <1>7 DEF Lists, N
      <3> QED BY <3>1, <3>2
    <2>2. q \in Seq(T)
      BY <1>2, <2>1
    <2> QED BY <1>2, <2>1, <2>2, LenProperties
  <1>9. /\ \A n \in 1..N : q[n] \in T
        /\ \A x \in T : \E n \in 1..N : q[n] = x
        /\ \A m, n \in 1..N : q[m] < q[n] <=> m < n
    BY <1>3, <1>7 DEF Lists, N
  <1>10. /\ \A r \in rows : \E n \in 1..N : q[n] = r.game_creation
         /\ \A n \in 1..N : q[n] \in {r.game_creation : r \in rows}
    BY <1>9 DEF T
  <1> QED BY <1>2, <1>8, <1>9, <1>10 DEF q

\* Rows that can be put in an order: created at a time, and told apart by match and team.
Rankable(rows) ==
    /\ IsFiniteSet(rows)
    /\ \A r \in rows : r.game_creation \in Int /\ r.match_group \in Int /\ r.team \in Int
    /\ \A r, s \in rows : r.match_group = s.match_group /\ r.team = s.team => r = s

CreatedBefore(rows, time) == {r \in rows : r.game_creation < time}

\* Each state holds the rows of the cohorts before it.
LEMMA StatesRemember ==
  ASSUME NEW rows, Rankable(rows)
  PROVE  LET times == CreationTimes(rows)
             states == HistoryStates(rows, times) IN
         \A n \in 1..Len(times) :
            Remembers(states[n - 1], CreatedBefore(rows, times[n]), Golds(rows), Times(rows))
  <1> DEFINE times == CreationTimes(rows)
             states == HistoryStates(rows, times)
             N == Len(times)
             Opened(n) == {r \in rows : \E i \in 1..n : times[i] = r.game_creation}
             Late == {n \in 0..N : ~Remembers(states[n], Opened(n), Golds(rows), Times(rows))}
             R == {p \in rows \X rows : InOrder(p[1], p[2])}
  <1>1. /\ N \in Nat
        /\ \A n \in 1..N : times[n] \in Int
        /\ \A r \in rows : \E n \in 1..N : times[n] = r.game_creation
        /\ \A m, n \in 1..N : times[m] < times[n] <=> m < n
    BY TimesInOrder DEF Rankable
  <1>2. /\ states[0] = [p \in {} |-> NewHistory]
        /\ \A n \in 1..N : states[n] = EnterHistory(states[n - 1], Cohort(rows, times[n]))
    BY <1>1, StatesAre
  <1>3. \A x, y \in rows : <<x, y>> \in R <=> InOrder(x, y)
    OBVIOUS
  <1>4. ASSUME NEW C, C \subseteq rows PROVE Orders(R, C)
    <2>0. \A r \in C : r.game_creation \in Int /\ r.match_group \in Int /\ r.team \in Int
      BY <1>4 DEF Rankable
    <2> HIDE DEF R
    <2>1. \A x \in C : <<x, x>> \notin R
      BY <1>3, <1>4, <2>0 DEF InOrder
    <2>2. \A x, y \in C : x # y => <<x, y>> \in R \/ <<y, x>> \in R
      <3> TAKE x, y \in C
      <3>1. x # y => x.match_group # y.match_group \/ x.team # y.team
        BY <1>4 DEF Rankable
      <3> QED BY <1>3, <1>4, <2>0, <3>1 DEF InOrder
    <2>3. \A x, y, z \in C : <<x, y>> \in R /\ <<y, z>> \in R => <<x, z>> \in R
      BY <1>3, <1>4, <2>0 DEF InOrder
    <2> QED BY <2>1, <2>2, <2>3 DEF Orders
  <1> HIDE DEF times, states, R
  <1>5. ASSUME NEW n \in 1..N
        PROVE  /\ Opened(n - 1) = CreatedBefore(rows, times[n])
               /\ Opened(n) = Opened(n - 1) \cup Cohort(rows, times[n])
    <2>1. ASSUME NEW r \in rows PROVE r \in Opened(n - 1) <=> r.game_creation < times[n]
      <3>1. PICK m \in 1..N : times[m] = r.game_creation
        BY <1>1
      <3>2. \A k \in 1..N : times[k] = times[m] => k = m
        <4> TAKE k \in 1..N
        <4>1. times[k] \in Int /\ times[m] \in Int
          BY <1>1
        <4>2. times[k] = times[m] => ~(k < m) /\ ~(m < k)
          BY <1>1, <4>1
        <4> QED BY <1>1, <4>2
      <3>3. r \in Opened(n - 1) <=> m < n
        BY <1>1, <3>1, <3>2
      <3> QED BY <1>1, <3>1, <3>3
    <2>2. Opened(n - 1) = CreatedBefore(rows, times[n])
      <3> HIDE DEF N
      <3>1. Opened(n - 1) \subseteq rows
        OBVIOUS
      <3> HIDE DEF Opened
      <3> QED BY <2>1, <3>1 DEF CreatedBefore
    <2>3. Opened(n) = Opened(n - 1) \cup Cohort(rows, times[n])
      BY <1>1 DEF Cohort
    <2> QED BY <2>2, <2>3
  <1>6. Late = {}
    <2>1. SUFFICES ASSUME Late # {} PROVE FALSE
      OBVIOUS
    <2>2. PICK n \in Late : \A m \in Late : n <= m
      <3>1. Late \subseteq Nat
        OBVIOUS
      <3> HIDE DEF Late
      <3> QED BY <2>1, <3>1, LeastNatural
    <2>3. CASE n = 0
      <3>1. Opened(0) = {}
        OBVIOUS
      <3> QED BY <1>2, <2>2, <2>3, <3>1, NothingKnown
    <2>4. CASE n # 0
      <3>1. n \in 1..N /\ n - 1 \in 0..N /\ ~(n <= n - 1)
        BY <1>1, <2>2, <2>4
      <3>2. Remembers(states[n - 1], Opened(n - 1), Golds(rows), Times(rows))
        BY <2>2, <3>1
      <3> DEFINE P == Opened(n - 1)
                 C == Cohort(rows, times[n])
      <3>3. P = CreatedBefore(rows, times[n]) /\ Opened(n) = P \cup C
        BY <1>5, <3>1
      <3>4. /\ P \subseteq rows /\ C \subseteq rows /\ P \cap C = {}
            /\ \A r \in P, s \in C : r.game_creation <= s.game_creation
            /\ \A r, s \in C : r.game_creation = s.game_creation
        <4>1. P \subseteq rows /\ C \subseteq rows
          BY <3>3 DEF CreatedBefore, Cohort
        <4>2. \A r \in P : r.game_creation < times[n] /\ r.game_creation \in Int
          BY <3>3 DEF CreatedBefore, Rankable
        <4>3. \A r \in C : r.game_creation = times[n] /\ times[n] \in Int
          BY <1>1, <3>1 DEF Cohort
        <4> HIDE DEF P, C
        <4>4. P \cap C = {}
          BY <4>2, <4>3
        <4>5. \A r \in P, s \in C : r.game_creation <= s.game_creation
          BY <4>2, <4>3
        <4> QED BY <4>1, <4>3, <4>4, <4>5
      <3>5. /\ IsFiniteSet(rows) /\ \A r \in rows : r.game_creation \in Int
            /\ Orders(R, C) /\ \A r, s \in C : <<r, s>> \in R <=> InOrder(r, s)
        BY <1>3, <1>4, <3>4 DEF Rankable
      <3>6. states[n] = EnterHistory(states[n - 1], C)
        BY <1>2, <3>1
      <3>7. Remembers(states[n], P \cup C, Golds(rows), Times(rows))
        <4> HIDE DEF P, C, Late, Opened
        <4>1. Remembers(states[n - 1], P, Golds(rows), Times(rows))
          BY <3>2 DEF P
        <4> QED BY <3>4, <3>5, <3>6, <4>1, RemembersCohort
      <3> HIDE DEF P, C, Opened
      <3> QED BY <2>2, <3>3, <3>7
    <2> QED BY <2>3, <2>4
  <1>7. \A n \in 1..N : Remembers(states[n - 1], Opened(n - 1), Golds(rows), Times(rows))
    <2> TAKE n \in 1..N
    <2>1. n - 1 \in 0..N
      <3> HIDE DEF N
      <3> QED BY <1>1
    <2>2. n - 1 \notin Late
      <3> HIDE DEF Late
      <3> QED BY <1>6
    <2> QED BY <2>1, <2>2
  <1> HIDE DEF Opened, Late
  <1> QED BY <1>5, <1>7 DEF times, states

\* The values of a sequence that tallies a set of rows are those of the rows.
LEMMA TallyBag ==
  ASSUME NEW U, NEW P, P \subseteq U, IsFiniteSet(P), NEW q, Tallies(q, P, Golds(U))
  PROVE  ToBag(q) = GoldOf(P)
  <1> DEFINE w == Golds(U)
             value(r) == r.gold[HistoryMinute]
  <1>1. DOMAIN q = 1..Len(q) /\ Len(q) \in Nat
    BY TallyLength DEF Golds
  <1>2. ASSUME NEW v
        PROVE  /\ {i \in DOMAIN q : q[i] = v} = Places(q, {v})
               /\ {r \in P : r.gold[HistoryMinute] = v} = Having(P, w, {v})
               /\ Cardinality(Places(q, {v})) = Cardinality(Having(P, w, {v}))
               /\ IsFiniteSet(Places(q, {v})) /\ IsFiniteSet(Having(P, w, {v}))
    <2>1. {i \in DOMAIN q : q[i] = v} = Places(q, {v})
      BY DEF Places
    <2>2. {r \in P : r.gold[HistoryMinute] = v} = Having(P, w, {v})
      BY DEF Having, Golds
    <2>3. Cardinality(Places(q, {v})) = Cardinality(Having(P, w, {v}))
      BY DEF Tallies
    <2>4. IsFiniteSet(Having(P, w, {v}))
      BY FS_Subset DEF Having
    <2>5. IsFiniteSet(Places(q, {v}))
      <3>1. Places(q, {v}) \subseteq 1..Len(q) /\ IsFiniteSet(1..Len(q))
        BY <1>1, FS_Interval DEF Places
      <3> QED BY <3>1, FS_Subset
    <2> QED BY <2>1, <2>2, <2>3, <2>4, <2>5
  <1>3. ASSUME NEW v PROVE Places(q, {v}) = {} <=> Having(P, w, {v}) = {}
    <2>1. Cardinality(Places(q, {v})) = 0 <=> Places(q, {v}) = {}
      BY <1>2, FS_EmptySet
    <2>2. Cardinality(Having(P, w, {v})) = 0 <=> Having(P, w, {v}) = {}
      BY <1>2, FS_EmptySet
    <2> QED BY <1>2, <2>1, <2>2
  <1>4. \A v : v \in Range(q) <=> v \in {r.gold[HistoryMinute] : r \in P}
    <2> TAKE v
    <2>1. v \in Range(q) <=> Places(q, {v}) # {}
      BY DEF Range, Places
    <2>2. v \in {r.gold[HistoryMinute] : r \in P} <=> Having(P, w, {v}) # {}
      BY DEF Having, Golds
    <2> QED BY <1>3, <2>1, <2>2
  <1>5. Range(q) = {r.gold[HistoryMinute] : r \in P}
    BY <1>4
  <1>6. \A v : Cardinality({i \in DOMAIN q : q[i] = v})
                 = Cardinality({r \in P : r.gold[HistoryMinute] = v})
    BY <1>2
  <1> QED BY <1>5, <1>6 DEF ToBag, GoldOf

\* A feature says of a row's player what the rows known by the state say.
Tells(f, row, P) ==
    LET past == OfPlayer(P, row.player)
        same == OfChampion(past, row.champion)
    IN  /\ f.games = Cardinality(past)
        /\ f.wins = Cardinality({r \in past : r.win})
        /\ f.champion_games = Cardinality(same)
        /\ f.recent = Cardinality({r \in same : row.game_creation - r.game_creation <= RecentDays})
        /\ f.last = IF same = {} THEN Missing ELSE Max({r.game_creation : r \in same})
        /\ ToBag(f.gold) = GoldOf(past)
        /\ ToBag(f.champion_gold) = GoldOf(same)

\* What is read off a state that remembers some rows is what they say.
LEMMA FeatureTells ==
  ASSUME NEW U, IsFiniteSet(U), \A r \in U : r.game_creation \in Int,
         NEW row \in U, NEW P, P \subseteq U, \A r \in P : r.game_creation < row.game_creation,
         NEW state, Remembers(state, P, Golds(U), Times(U))
  PROVE  Tells(HistoryFeature(row, state), row, P)
  <1> DEFINE h == HistoryOf(state, row.player)
             c == ChampionOf(h, row.champion)
             past == OfPlayer(P, row.player)
             same == OfChampion(past, row.champion)
             now == row.game_creation
             t == Times(U)
             near == {s \in Int : 0 < now - s /\ now - s <= RecentDays}
             f == HistoryFeature(row, state)
  <1>1. /\ f.games = h.games /\ f.wins = h.wins /\ f.champion_games = Len(c.times)
        /\ f.recent = Cardinality({n \in DOMAIN c.times :
                                      0 < now - c.times[n] /\ now - c.times[n] <= RecentDays})
        /\ f.last = (IF c.times = <<>> THEN Missing ELSE c.times[Len(c.times)])
        /\ f.gold = h.gold /\ f.champion_gold = c.gold
    BY DEF HistoryFeature
  <1>2. /\ Knows(h, past, Golds(U), t) /\ KnowsChampion(c, same, Golds(U), t)
    BY DEF Remembers, Knows
  <1>3. /\ same \subseteq past /\ past \subseteq P /\ same \subseteq U /\ past \subseteq U
    BY DEF OfChampion, OfPlayer
  <1>4. IsFiniteSet(P) /\ IsFiniteSet(past) /\ IsFiniteSet(same)
    <2> HIDE DEF past, same
    <2> QED BY <1>3, FS_Subset
  <1>5. DOMAIN t = U /\ DOMAIN Golds(U) = U /\ \A r \in U : t[r] = r.game_creation
    BY DEF Times, Golds
  <1>6. \A r \in same : r.game_creation \in Int /\ now \in Int /\ 0 < now - r.game_creation
    <2>1. \A r \in same : r \in P /\ r \in U
      BY <1>3
    <2> HIDE DEF same
    <2> QED BY <2>1
  <1> HIDE DEF h, c, past, same, t, f
  <1>7. f.games = Cardinality(past) /\ f.wins = Cardinality({r \in past : r.win})
    BY <1>1, <1>2 DEF Knows, Won
  <1>8. Tallies(c.times, same, t) /\ Tallies(c.gold, same, Golds(U)) /\ Latest(c.times, same, t)
    BY <1>2 DEF KnowsChampion
  <1>9. /\ Len(c.times) = Cardinality(same) /\ DOMAIN c.times = 1..Len(c.times)
        /\ Len(c.times) \in Nat
    BY <1>3, <1>5, <1>8, TallyLength
  <1>10. c.times \in Seq(Int)
    <2>1. Values(t) \subseteq Int
      BY <1>5 DEF Values
    <2>2. c.times \in Seq(Values(t))
      BY <1>8 DEF Tallies
    <2> QED BY <2>1, <2>2, SeqMonotonic
  <1>11. f.recent = Cardinality({r \in same : now - r.game_creation <= RecentDays})
    <2>1. Cardinality(Places(c.times, near)) = Cardinality(Having(same, t, near))
      BY <1>8 DEF Tallies
    <2>2. Places(c.times, near)
            = {n \in DOMAIN c.times : 0 < now - c.times[n] /\ now - c.times[n] <= RecentDays}
      <3>1. \A n \in DOMAIN c.times : c.times[n] \in Int
        BY <1>9, <1>10, ElementOfSeq
      <3> QED BY <3>1 DEF Places
    <2>3. Having(same, t, near) = {r \in same : now - r.game_creation <= RecentDays}
      <3>1. \A r \in same : t[r] = r.game_creation
        BY <1>3, <1>5
      <3>2. \A r \in same : t[r] \in near <=> now - r.game_creation <= RecentDays
        BY <1>6, <3>1
      <3> HIDE DEF near
      <3> QED BY <3>2 DEF Having
    <2> QED BY <1>1, <2>1, <2>2, <2>3
  <1>12. f.last = IF same = {} THEN Missing ELSE Max({r.game_creation : r \in same})
    <2>1. CASE same = {}
      <3>1. Len(c.times) = 0
        BY <1>9, <2>1, FS_EmptySet
      <3>2. c.times = <<>>
        BY <3>1, <1>10, EmptySeq
      <3> QED BY <1>1, <2>1, <3>2
    <2>2. CASE same # {}
      <3>1. Len(c.times) # 0
        BY <1>4, <1>9, <2>2, FS_EmptySet
      <3>2. c.times # <<>>
        BY <3>1, EmptySeq
      <3>3. PICK r \in same : c.times[Len(c.times)] = t[r] /\ \A s \in same : t[s] <= t[r]
        BY <1>8, <2>2 DEF Latest
      <3> DEFINE T == {s.game_creation : s \in same}
      <3>4. t[r] \in T /\ T \subseteq Int /\ \A m \in T : m <= t[r]
        BY <1>3, <1>5, <1>6, <3>3
      <3> HIDE DEF T
      <3>5. Max(T) = t[r]
        BY <3>4, GreatestIs
      <3> QED BY <1>1, <2>2, <3>2, <3>3, <3>5 DEF T
    <2> QED BY <2>1, <2>2
  <1>13. ToBag(f.gold) = GoldOf(past)
    <2>1. Tallies(h.gold, past, Golds(U))
      BY <1>2 DEF Knows
    <2> QED BY <1>1, <1>3, <1>4, <2>1, TallyBag
  <1>14. ToBag(f.champion_gold) = GoldOf(same)
    BY <1>1, <1>3, <1>4, <1>8, TallyBag
  <1>15. f.champion_games = Cardinality(same)
    BY <1>1, <1>9
  <1> QED BY <1>7, <1>11, <1>12, <1>13, <1>14, <1>15 DEF Tells, past, same, f

\* Every row of the features is told of by the rows created before it.
LEMMA HistoryTells ==
  ASSUME NEW rows, Rankable(rows), NEW x \in HistoryFeatures(rows)
  PROVE  /\ x.row \in rows
         /\ Tells(x.familiarity, x.row, CreatedBefore(rows, x.row.game_creation))
  <1> DEFINE times == CreationTimes(rows)
             states == HistoryStates(rows, times)
  <1>0. PICK n \in 1..Len(times) :
           x \in {[row |-> r, familiarity |-> HistoryFeature(r, states[n - 1])] :
                    r \in Cohort(rows, times[n])}
    BY DEF HistoryFeatures
  <1>1. PICK r \in Cohort(rows, times[n]) :
           x = [row |-> r, familiarity |-> HistoryFeature(r, states[n - 1])]
    BY <1>0
  <1>2. r \in rows /\ r.game_creation = times[n]
    BY DEF Cohort
  <1>3. Remembers(states[n - 1], CreatedBefore(rows, times[n]), Golds(rows), Times(rows))
    BY StatesRemember
  <1> HIDE DEF times, states
  <1> DEFINE P == CreatedBefore(rows, times[n])
  <1>4. P \subseteq rows /\ \A s \in P : s.game_creation < r.game_creation
    BY <1>2 DEF CreatedBefore
  <1>5. IsFiniteSet(rows) /\ \A s \in rows : s.game_creation \in Int
    BY DEF Rankable
  <1> HIDE DEF P
  <1>6. Tells(HistoryFeature(r, states[n - 1]), r, P)
    BY <1>2, <1>3, <1>4, <1>5, FeatureTells DEF P
  <1>7. x.row = r /\ x.familiarity = HistoryFeature(r, states[n - 1])
    BY <1>1
  <1> QED BY <1>2, <1>6, <1>7 DEF P

\* The rows of eligible matches: of one match, and told apart by team.
Separate(groups) ==
    /\ IsFiniteSet(groups)
    /\ \A g \in groups : g # {} /\ IsFiniteSet(g)
    /\ \A g \in groups : \A r \in g :
          r.game_creation \in Int /\ r.match_group \in Int /\ r.team \in Int
    /\ \A g \in groups : \A r, s \in g :
          /\ r.game_creation = s.game_creation /\ r.match_group = s.match_group
          /\ r.team = s.team => r = s
    /\ \A g, h \in groups : \A r \in g, s \in h : r.match_group = s.match_group => g = h

\* The groups, in order of creation.
LEMMA GroupsInOrder ==
  ASSUME NEW groups, Separate(groups)
  PROVE  LET ordered == EligibleOrder(groups) IN
         /\ Len(ordered) \in Nat
         /\ \A n \in 1..Len(ordered) : ordered[n] \in groups
         /\ \A g \in groups : \E n \in 1..Len(ordered) : ordered[n] = g
         /\ \A m, n \in 1..Len(ordered) : \A r \in ordered[m], s \in ordered[n] :
               r.game_creation < s.game_creation => m < n
  <1> DEFINE R == {p \in groups \X groups : Earlier(p[1], p[2])}
             N == Cardinality(groups)
             q == EligibleOrder(groups)
  <1>1. IsFiniteSet(groups) /\ N \in Nat
    BY FS_CardinalityType DEF Separate
  <1>2. \A g, h \in groups : <<g, h>> \in R <=> InOrder(Chosen(g), Chosen(h))
    BY DEF Earlier, Chosen
  <1>3. q = [n \in 1..N |->
               CHOOSE g \in groups : Cardinality({h \in groups : Earlier(h, g)}) = n - 1]
    BY DEF EligibleOrder, Sorted
  <1>4. \A g \in groups : Cardinality({h \in groups : Earlier(h, g)}) = Rank(R, groups, g)
    <2>1. \A g \in groups : {h \in groups : Earlier(h, g)} = Below(R, groups, g)
      BY DEF Below
    <2> HIDE DEF R
    <2> QED BY <2>1 DEF Rank
  <1> HIDE DEF R, q
  <1>5. \A g \in groups : /\ Chosen(g) \in g /\ Chosen(g).game_creation \in Int
                          /\ Chosen(g).match_group \in Int /\ Chosen(g).team \in Int
    <2>1. \A g \in groups : Chosen(g) \in g
      BY DEF Separate, Chosen
    <2> QED BY <2>1 DEF Separate
  <1>6. \A g, h \in groups : g # h => Chosen(g).match_group # Chosen(h).match_group
    BY <1>5 DEF Separate
  <1>7. Orders(R, groups)
    <2>1. \A g \in groups : <<g, g>> \notin R
      BY <1>2, <1>5 DEF InOrder
    <2>2. \A g, h \in groups : g # h => <<g, h>> \in R \/ <<h, g>> \in R
      BY <1>2, <1>5, <1>6 DEF InOrder
    <2>3. \A g, h, k \in groups : <<g, h>> \in R /\ <<h, k>> \in R => <<g, k>> \in R
      BY <1>2, <1>5 DEF InOrder
    <2> QED BY <2>1, <2>2, <2>3 DEF Orders
  <1>8. Lists(q, R, groups)
    <2>1. ASSUME NEW n \in 1..N, NEW g \in groups, Rank(R, groups, g) = n - 1
          PROVE  q[n] \in groups /\ Rank(R, groups, q[n]) = n - 1
      <3>1. q[n] = CHOOSE k \in groups : Cardinality({h \in groups : Earlier(h, k)}) = n - 1
        BY <1>3
      <3>2. Cardinality({h \in groups : Earlier(h, g)}) = n - 1
        BY <1>4, <2>1
      <3>3. q[n] \in groups /\ Cardinality({h \in groups : Earlier(h, q[n])}) = n - 1
        BY <3>1, <3>2
      <3> QED BY <1>4, <3>3
    <2>2. DOMAIN q = 1..N
      BY <1>3
    <2> QED BY <1>1, <1>7, <2>1, <2>2, RankedLists
  <1>9. Len(q) = N
    <2>1. q \in [1..N -> groups]
      <3> DEFINE F(n) == CHOOSE k \in groups : Cardinality({h \in groups : Earlier(h, k)}) = n - 1
      <3>1. q = [n \in 1..N |-> F(n)]
        BY <1>3
      <3> HIDE DEF F
      <3>2. \A n \in 1..N : q[n] \in groups
        BY <1>8 DEF Lists
      <3> QED BY <3>1, <3>2
    <2>2. q \in Seq(groups)
      BY <1>1, <2>1
    <2> QED BY <1>1, <2>1, <2>2, LenProperties
  <1>10. ASSUME NEW m \in 1..N, NEW n \in 1..N, NEW r \in q[m], NEW s \in q[n],
                r.game_creation < s.game_creation
         PROVE  m < n
    <2>1. q[m] \in groups /\ q[n] \in groups
      BY <1>8 DEF Lists
    <2>2. /\ Chosen(q[m]).game_creation = r.game_creation
          /\ Chosen(q[n]).game_creation = s.game_creation
      BY <1>5, <2>1 DEF Separate
    <2>3. <<q[m], q[n]>> \in R
      BY <1>2, <1>10, <2>1, <2>2 DEF InOrder
    <2> QED BY <1>8, <2>3 DEF Lists
  <1>11. /\ \A n \in 1..N : q[n] \in groups
         /\ \A g \in groups : \E n \in 1..N : q[n] = g
    BY <1>8 DEF Lists
  <1> HIDE DEF N
  <1> QED BY <1>1, <1>9, <1>10, <1>11 DEF q

\* The cut to the target takes nothing of what was created before a row it keeps.
LEMMA CutKeepsThePast ==
  ASSUME NEW groups, Separate(groups)
  PROVE  LET rows == SelectedRows(groups) IN
         /\ Rankable(rows)
         /\ \A row \in rows :
               CreatedBefore(rows, row.game_creation)
                  = CreatedBefore(UNION groups, row.game_creation)
  <1> DEFINE q == EligibleOrder(groups)
             N == Len(q)
             m == Min({TargetEligible, N})
             rows == SelectedRows(groups)
  <1>1. /\ N \in Nat
        /\ \A n \in 1..N : q[n] \in groups
        /\ \A g \in groups : \E n \in 1..N : q[n] = g
        /\ \A k, n \in 1..N : \A r \in q[k], s \in q[n] :
              r.game_creation < s.game_creation => k < n
    BY GroupsInOrder
  <1>2. rows = UNION {q[n] : n \in 1..m}
    BY DEF SelectedRows
  <1>3. m \in Nat /\ m <= N
    <2>1. TargetEligible \in Nat
      BY TopLaneAssumption
    <2> HIDE DEF N
    <2>2. \E x \in {TargetEligible, N} : \A y \in {TargetEligible, N} : x <= y
      BY <1>1, <2>1
    <2>3. m \in {TargetEligible, N} /\ m <= N
      BY <2>2 DEF Min
    <2> QED BY <1>1, <2>1, <2>3
  <1> HIDE DEF q, N, m, rows
  <1>4. rows \subseteq UNION groups
    BY <1>1, <1>2, <1>3
  <1>5. Rankable(rows)
    <2>1. IsFiniteSet(UNION groups)
      BY FS_UNION DEF Separate
    <2>2. IsFiniteSet(rows)
      BY <1>4, <2>1, FS_Subset
    <2>3. \A r \in rows : r.game_creation \in Int /\ r.match_group \in Int /\ r.team \in Int
      BY <1>4 DEF Separate
    <2>4. ASSUME NEW r \in rows, NEW s \in rows, r.match_group = s.match_group, r.team = s.team
          PROVE  r = s
      <3>1. PICK g \in groups : r \in g
        BY <1>4
      <3>2. PICK h \in groups : s \in h
        BY <1>4
      <3>3. g = h
        BY <2>4, <3>1, <3>2 DEF Separate
      <3> QED BY <2>4, <3>1, <3>2, <3>3 DEF Separate
    <2> QED BY <2>2, <2>3, <2>4 DEF Rankable
  <1>6. ASSUME NEW row \in rows, NEW s \in UNION groups, s.game_creation < row.game_creation
        PROVE  s \in rows
    <2>1. PICK n \in 1..m : row \in q[n]
      BY <1>2
    <2>2. PICK g \in groups : s \in g
      OBVIOUS
    <2>3. PICK k \in 1..N : q[k] = g
      BY <1>1
    <2>4. n \in 1..N
      BY <1>1, <1>3
    <2>5. k < n
      BY <1>1, <1>6, <2>1, <2>2, <2>3, <2>4
    <2>6. k \in 1..m
      BY <1>1, <1>3, <2>5
    <2> QED BY <1>2, <2>2, <2>3, <2>6
  <1>7. \A row \in rows : CreatedBefore(rows, row.game_creation)
                            = CreatedBefore(UNION groups, row.game_creation)
    BY <1>4, <1>6 DEF CreatedBefore
  <1> QED BY <1>5, <1>7 DEF rows

\* The study's rows are told of by every eligible row created before.
LEMMA SelectedTells ==
  ASSUME NEW groups, Separate(groups), NEW x \in HistoryFeatures(SelectedRows(groups))
  PROVE  Tells(x.familiarity, x.row, CreatedBefore(UNION groups, x.row.game_creation))
  <1> DEFINE rows == SelectedRows(groups)
  <1>1. /\ Rankable(rows)
        /\ \A row \in rows : CreatedBefore(rows, row.game_creation)
                               = CreatedBefore(UNION groups, row.game_creation)
    BY CutKeepsThePast
  <1> HIDE DEF rows
  <1>2. /\ x.row \in rows
        /\ Tells(x.familiarity, x.row, CreatedBefore(rows, x.row.game_creation))
    BY <1>1, HistoryTells DEF rows
  <1> QED BY <1>1, <1>2

-----------------------------------------------------------------------------
(* The eligible matches of the sources.                                    *)

\* Sources whose matches are numbered, each in one of them once.
Numbered(sources) ==
    /\ IsFiniteSet(sources)
    /\ \A s \in sources :
          /\ IsFiniteSet(s.canonical.matches) /\ IsFiniteSet(s.canonical.participants)
          /\ \A m \in s.canonical.matches : m.match_id \in Int /\ m.game_creation \in Int
          /\ \A r \in s.canonical.participants : r.team_id \in Int
    /\ \A s, t \in sources : \A m \in s.canonical.matches, n \in t.canonical.matches :
          m.match_id = n.match_id => s = t /\ m = n

TopsOf(rows, m) == TopParticipants({r \in rows.participants : r.match_id = m.match_id})
PairsOf(tops) == {p \in tops \X tops : p[1] # p[2]}
GroupOf(rows, timelines, m) ==
    {Perspective(m, timelines[m.match_id], q[1], q[2]) : q \in PairsOf(TopsOf(rows, m))}

\* A group of a source is that of a match with two tops.
LEMMA SourceGroupsAre ==
  ASSUME NEW rows, NEW timelines, NEW g \in SourceGroups(rows, timelines)
  PROVE  \E m \in rows.matches :
            /\ g = GroupOf(rows, timelines, m)
            /\ TopsOf(rows, m) # {} /\ Symmetric(g)
  BY DEF SourceGroups, GroupOf, TopsOf, PairsOf, Eligible

\* Two tops make two pairs.
LEMMA TopsAre ==
  ASSUME NEW rows, IsFiniteSet(rows.participants), NEW m, TopsOf(rows, m) # {}
  PROVE  /\ TopsOf(rows, m) \subseteq rows.participants
         /\ PairsOf(TopsOf(rows, m)) # {} /\ IsFiniteSet(PairsOf(TopsOf(rows, m)))
  <1> DEFINE tops == TopsOf(rows, m)
             pairs == PairsOf(tops)
  <1>1. tops \subseteq rows.participants /\ Cardinality(tops) = 2
    BY DEF TopsOf, TopParticipants
  <1> HIDE DEF tops
  <1>2. IsFiniteSet(tops)
    BY <1>1, FS_Subset
  <1>3. pairs # {}
    <2>1. PICK x : x \in tops
      BY <1>1, FS_EmptySet DEF tops
    <2>2. tops # {x}
      <3>1. Cardinality({x}) = 1
        BY FS_Singleton
      <3> QED BY <1>1, <3>1
    <2>3. PICK y \in tops : x # y
      BY <2>1, <2>2
    <2>4. <<x, y>> \in pairs
      BY <2>1, <2>3 DEF PairsOf
    <2> QED BY <2>4
  <1>4. IsFiniteSet(pairs)
    <2>1. IsFiniteSet(tops \X tops)
      BY <1>2, FS_Product
    <2>2. pairs \subseteq tops \X tops
      BY DEF PairsOf
    <2> QED BY <2>1, <2>2, FS_Subset
  <1> QED BY <1>1, <1>3, <1>4 DEF tops

\* A group is the rows of one match, seen from two teams.
LEMMA GroupIs ==
  ASSUME NEW rows, IsFiniteSet(rows.participants), NEW timelines, NEW m,
         \A r \in rows.participants : r.team_id \in Int, m.match_id \in Int,
         m.game_creation \in Int, TopsOf(rows, m) # {},
         NEW g, g = GroupOf(rows, timelines, m), Symmetric(g)
  PROVE  /\ g # {} /\ IsFiniteSet(g)
         /\ \A r \in g : /\ r.game_creation = m.game_creation /\ r.match_group = m.match_id
                         /\ r.team \in Int
         /\ \A r, s \in g : r.team = s.team => r = s
  <1> DEFINE pairs == PairsOf(TopsOf(rows, m))
             f == [q \in pairs |-> Perspective(m, timelines[m.match_id], q[1], q[2])]
  <1>1. pairs # {} /\ IsFiniteSet(pairs) /\ TopsOf(rows, m) \subseteq rows.participants
    BY TopsAre
  <1>2. g = {f[q] : q \in pairs}
    BY DEF GroupOf
  <1>3. \A q \in pairs : q[1] \in rows.participants
    BY <1>1 DEF PairsOf
  <1>4. \A q \in pairs : /\ f[q].game_creation = m.game_creation
                         /\ f[q].match_group = m.match_id
                         /\ f[q].team = q[1].team_id
    BY DEF Perspective
  <1>5. DOMAIN f = pairs
    OBVIOUS
  <1> HIDE DEF pairs, f
  <1>6. IsFiniteSet(g)
    <2>1. f \in Surjection(pairs, g)
      <3>1. f = [q \in pairs |-> f[q]]
        BY DEF f
      <3> QED BY <1>2, <3>1 DEF Surjection
    <2> QED BY <1>1, <2>1, FS_Surjection
  <1>7. \A r, s \in g : r.team = s.team => r = s
    BY DEF Symmetric
  <1>8. g # {} /\ \A r \in g : /\ r.game_creation = m.game_creation /\ r.match_group = m.match_id
                              /\ r.team \in Int
    BY <1>1, <1>2, <1>3, <1>4
  <1> QED BY <1>6, <1>7, <1>8

\* The eligible groups of such sources.
LEMMA EligibleSeparate ==
  ASSUME NEW sources, Numbered(sources)
  PROVE  Separate(EligibleGroups(sources))
  <1> DEFINE G(s) == SourceGroups(s.canonical, s.timelines)
             groups == EligibleGroups(sources)
  <1>1. groups = UNION {G(s) : s \in sources}
    BY DEF EligibleGroups
  <1>2. \A g \in groups : \E s \in sources : g \in G(s)
    BY <1>1
  <1>3. ASSUME NEW s \in sources, NEW g \in G(s)
        PROVE  \E m \in s.canonical.matches :
                  /\ g # {} /\ IsFiniteSet(g) /\ g = GroupOf(s.canonical, s.timelines, m)
                  /\ \A r \in g : /\ r.game_creation = m.game_creation
                                  /\ r.match_group = m.match_id /\ r.team \in Int
                  /\ \A r, t \in g : r.team = t.team => r = t
    <2>1. PICK m \in s.canonical.matches :
             /\ g = GroupOf(s.canonical, s.timelines, m)
             /\ TopsOf(s.canonical, m) # {} /\ Symmetric(g)
      BY <1>3, SourceGroupsAre
    <2>2. /\ IsFiniteSet(s.canonical.participants) /\ m.match_id \in Int
          /\ m.game_creation \in Int /\ \A r \in s.canonical.participants : r.team_id \in Int
      BY DEF Numbered
    <2> HIDE DEF G
    <2>3. /\ g # {} /\ IsFiniteSet(g)
          /\ \A r \in g : /\ r.game_creation = m.game_creation
                          /\ r.match_group = m.match_id /\ r.team \in Int
          /\ \A r, t \in g : r.team = t.team => r = t
      BY <2>1, <2>2, GroupIs
    <2> QED BY <2>1, <2>3
  <1>4. IsFiniteSet(groups)
    <2>1. ASSUME NEW s \in sources PROVE IsFiniteSet(G(s))
      <3> DEFINE M == s.canonical.matches
                 f == [m \in M |-> GroupOf(s.canonical, s.timelines, m)]
                 I == {f[m] : m \in M}
      <3>1. f \in Surjection(M, I)
        BY DEF Surjection
      <3>2. IsFiniteSet(M)
        BY DEF Numbered
      <3>3. G(s) \subseteq I
        BY <1>3
      <3> HIDE DEF f, I, M, G
      <3>4. IsFiniteSet(I)
        BY <3>1, <3>2, FS_Surjection
      <3> QED BY <3>3, <3>4, FS_Subset
    <2> DEFINE f == [s \in sources |-> G(s)]
               I == {f[s] : s \in sources}
    <2>2. f \in Surjection(sources, I) /\ groups = UNION I
      BY <1>1 DEF Surjection
    <2>3. \A g \in I : IsFiniteSet(g)
      BY <2>1
    <2>4. IsFiniteSet(sources)
      BY DEF Numbered
    <2> HIDE DEF f, I, G, groups
    <2>5. IsFiniteSet(I)
      BY <2>2, <2>4, FS_Surjection
    <2> QED BY <2>2, <2>3, <2>5, FS_UNION
  <1> HIDE DEF G, groups
  <1>5. \A g \in groups : /\ g # {} /\ IsFiniteSet(g)
                          /\ \A r, t \in g : /\ r.game_creation = t.game_creation
                                             /\ r.match_group = t.match_group
                                             /\ r.team = t.team => r = t
    BY <1>2, <1>3
  <1>6. \A g \in groups : \A r \in g :
           r.game_creation \in Int /\ r.match_group \in Int /\ r.team \in Int
    BY <1>2, <1>3 DEF Numbered
  <1>7. ASSUME NEW g \in groups, NEW h \in groups, NEW r \in g, NEW t \in h,
               r.match_group = t.match_group
        PROVE  g = h
    <2>1. PICK s \in sources : g \in G(s)
      BY <1>2
    <2>2. PICK u \in sources : h \in G(u)
      BY <1>2
    <2>3. PICK m \in s.canonical.matches :
             g = GroupOf(s.canonical, s.timelines, m) /\ r.match_group = m.match_id
      BY <1>3, <2>1
    <2>4. PICK n \in u.canonical.matches :
             h = GroupOf(u.canonical, u.timelines, n) /\ t.match_group = n.match_id
      BY <1>3, <2>2
    <2>5. s = u /\ m = n
      BY <1>7, <2>3, <2>4 DEF Numbered
    <2> QED BY <2>3, <2>4, <2>5
  <1> QED BY <1>4, <1>5, <1>6, <1>7 DEF Separate, groups

-----------------------------------------------------------------------------
(* The top-lane rows stay what the eligible matches make them.             *)

\* The eligible matches of all sources, which only the canonical rows and the timelines
\* of the population decide.
AllGroups == EligibleGroups(Sealed) \cup SourceGroups(canonical, TimelineOf)

TInv == "topLane" \in DOMAIN studies =>
          /\ Published(canonical)
          /\ studies.topLane = HistoryFeatures(SelectedRows(AllGroups))

\* The study reads them.
LEMMA AllGroupsAre == EligibleGroups(Sealed \cup {Source}) = AllGroups
  <1>1. EligibleGroups({Source}) = SourceGroups(canonical, TimelineOf)
    BY DEF EligibleGroups, Source
  <1>2. EligibleGroups(Sealed \cup {Source}) = EligibleGroups(Sealed) \cup EligibleGroups({Source})
    BY DEF EligibleGroups
  <1> QED BY <1>1, <1>2 DEF AllGroups

\* No step changes them once the study has been made.
LEMMA TopLaneSteps == SInv /\ TInv /\ [Next]_vars => TInv'
  <1> SUFFICES ASSUME SInv, TInv, [Next]_vars PROVE TInv'
    OBVIOUS
  <1>1. ASSUME approved' = approved, canonical' = canonical
        PROVE  AllGroups' = AllGroups /\ (Published(canonical) => Published(canonical)')
    BY <1>1, FixedPopulation DEF AllGroups, Published
  <1>2. ASSUME approved' = approved, canonical' = canonical, studies' = studies PROVE TInv'
    BY <1>1, <1>2 DEF TInv
  <1>3. CASE UNCHANGED vars
    BY <1>2, <1>3 DEF vars
  <1>4. CASE (\E c \in Candidates : Approve(c)) \/ BuildCanonical
    <2>1. DOMAIN studies' = {}
      BY <1>4 DEF SInv, Ordered, Approve, BuildCanonical
    <2> QED BY <2>1 DEF TInv
  <1>5. CASE BuildFeatures \/ BuildDrafts
    BY <1>2, <1>5 DEF BuildFeatures, BuildDrafts
  <1>6. ASSUME NEW name, name # "topLane", NEW result, Study(name, result) PROVE TInv'
    <2>1. /\ DOMAIN studies' = DOMAIN studies \cup {name}
          /\ \A n \in DOMAIN studies : studies'[n] = studies[n]
          /\ approved' = approved /\ canonical' = canonical
      BY <1>6, Studying
    <2>2. "topLane" \in DOMAIN studies' =>
             "topLane" \in DOMAIN studies /\ studies'.topLane = studies.topLane
      BY <1>6, <2>1
    <2> QED BY <1>1, <2>1, <2>2 DEF TInv
  <1>7. CASE \/ \E target \in DOMAIN ExpectedCounts : BuildAggregates(target)
             \/ Backtest \/ Compose \/ DevelopPooled \/ DevelopRolling \/ DevelopFocal
    <2>1. \E name \in {"aggregates", "predicted", "composition", "pooled", "rolling", "focal"} :
             \E result : Study(name, result)
      BY <1>7 DEF BuildAggregates, Backtest, Compose, DevelopPooled, DevelopRolling, DevelopFocal
    <2> QED BY <1>6, <2>1
  <1>8. CASE BuildTopLane
    <2>1. Study("topLane", HistoryFeatures(SelectedRows(AllGroups))) /\ Published(canonical)
      BY <1>8, AllGroupsAre DEF BuildTopLane, TopLaneRows
    <2>2. /\ studies'["topLane"] = HistoryFeatures(SelectedRows(AllGroups))
          /\ approved' = approved /\ canonical' = canonical
      BY <2>1, Studying
    <2> QED BY <1>1, <2>1, <2>2 DEF TInv
  <1> QED BY <1>3, <1>4, <1>5, <1>7, <1>8 DEF Next

\* Before anything has run there is no study.
LEMMA InitTopLane == Init => TInv
  BY DEF Init, TInv

\* A match is in one source once.
LEMMA SourcesNumbered ==
  ASSUME SInv, Published(canonical)
  PROVE  Numbered(Sealed \cup {Source})
  <1> DEFINE sources == Sealed \cup {Source}
  <1>1. Source.canonical = canonical
    BY DEF Source
  <1>2. /\ canonical.matches = {MatchRow(a) : a \in Payloads}
        /\ canonical.participants = UNION {SeatRows(a) : a \in Payloads}
    BY CanonicalIs
  <1>3. ASSUME NEW a \in Payloads
        PROVE  /\ a.match_id \in Int /\ a.gameCreation \in Int /\ IsFiniteSet(a.participants)
               /\ \A r \in a.participants : r.teamId \in Int
               /\ \E c \in Candidates : c.payload = a
    <2>1. PICK c \in Candidates : c.payload = a
      BY DEF SInv, Accepted, Payloads
    <2>2. /\ {a.match_id, a.gameDuration, a.gameCreation} \subseteq Int
          /\ IsFiniteSet(a.participants)
          /\ \A r \in a.participants : r.teamId \in Int \cup {Missing}
      BY <2>1, CandidatesAssumption
    <2>3. \A r \in a.participants : r.teamId # Missing
      <3>1. Transforms(a, Platform)
        BY RegularPayloads
      <3>2. \A r \in a.participants : r["teamId"] # Missing
        BY <3>1 DEF Transforms, CriticalFields
      <3> QED BY <3>2
    <2> QED BY <2>1, <2>2, <2>3
  <1>4. IsFiniteSet(Payloads)
    <2> DEFINE f == [c \in approved |-> c.payload]
    <2>1. f \in Surjection(approved, Payloads)
      BY DEF Payloads, Surjection
    <2>2. IsFiniteSet(approved)
      BY DEF SInv, Accepted
    <2> HIDE DEF f
    <2> QED BY <2>1, <2>2, FS_Surjection
  <1>5. IsFiniteSet(canonical.matches)
    <2> DEFINE f == [a \in Payloads |-> MatchRow(a)]
    <2>1. f \in Surjection(Payloads, canonical.matches)
      BY <1>2 DEF Surjection
    <2> HIDE DEF f
    <2> QED BY <1>4, <2>1, FS_Surjection
  <1>6. IsFiniteSet(canonical.participants)
    BY SourceCanonical
  <1>7. \A m \in canonical.matches :
           /\ m.match_id \in Int /\ m.game_creation \in Int
           /\ \E c \in Candidates : c.payload.match_id = m.match_id
    <2> TAKE m \in canonical.matches
    <2>1. PICK a \in Payloads : m = MatchRow(a)
      BY <1>2
    <2>2. m.match_id = a.match_id /\ m.game_creation = a.gameCreation
      BY <2>1 DEF MatchRow
    <2> QED BY <1>3, <2>2
  <1>8. \A r \in canonical.participants : r.team_id \in Int
    <2> TAKE r \in canonical.participants
    <2>1. PICK a \in Payloads : r \in SeatRows(a)
      BY <1>2
    <2>2. PICK p \in a.participants : r = ParticipantRow(a, p)
      BY <2>1 DEF SeatRows
    <2>3. r.team_id = p.teamId
      BY <2>2 DEF ParticipantRow
    <2> QED BY <1>3, <2>3
  <1>9. \A m, n \in canonical.matches : m.match_id = n.match_id => m = n
    <2> TAKE m, n \in canonical.matches
    <2>1. PICK a \in Payloads : m = MatchRow(a)
      BY <1>2
    <2>2. PICK b \in Payloads : n = MatchRow(b)
      BY <1>2
    <2>3. m.match_id = a.match_id /\ n.match_id = b.match_id
      BY <2>1, <2>2 DEF MatchRow
    <2> QED BY <2>1, <2>2, <2>3, RegularPayloads
  <1>10. IsFiniteSet(sources)
    BY SealedAssumption, FS_AddElement
  <1>11. \A s \in sources :
            /\ IsFiniteSet(s.canonical.matches) /\ IsFiniteSet(s.canonical.participants)
            /\ \A m \in s.canonical.matches : m.match_id \in Int /\ m.game_creation \in Int
            /\ \A r \in s.canonical.participants : r.team_id \in Int
    <2> TAKE s \in sources
    <2>1. CASE s \in Sealed
      BY <2>1, SealedAssumption
    <2>2. CASE s = Source
      BY <1>1, <1>5, <1>6, <1>7, <1>8, <2>2
    <2> QED BY <2>1, <2>2
  <1>12. ASSUME NEW s \in sources, NEW t \in sources,
                NEW m \in s.canonical.matches, NEW n \in t.canonical.matches,
                m.match_id = n.match_id
         PROVE  s = t /\ m = n
    <2>1. CASE s \in Sealed /\ t \in Sealed
      BY <1>12, <2>1, MembershipAssumption
    <2>2. CASE s = Source /\ t = Source
      BY <1>1, <1>9, <1>12, <2>2
    <2>3. CASE s \in Sealed /\ t = Source
      BY <1>1, <1>7, <1>12, <2>3, MembershipAssumption
    <2>4. CASE s = Source /\ t \in Sealed
      BY <1>1, <1>7, <1>12, <2>4, MembershipAssumption
    <2> QED BY <2>1, <2>2, <2>3, <2>4
  <1> HIDE DEF sources
  <1> QED BY <1>10, <1>11, <1>12 DEF Numbered, sources

\* What Stage 3.5A has published is what was created strictly before.
LEMMA HistoryPast == ASSUME SInv, TInv PROVE HistoryIsStrictlyPast
  <1> DEFINE groups == EligibleGroups(Sealed \cup {Source})
  <1>1. SUFFICES ASSUME Studied("topLane"), NEW x \in studies.topLane
                 PROVE  LET past == Before(groups, x.row)
                            same == {r \in past : r.champion = x.row.champion}
                            age(r) == x.row.game_creation - r.game_creation
                        IN  /\ x.familiarity.games = Cardinality(past)
                            /\ x.familiarity.wins = Cardinality({r \in past : r.win})
                            /\ x.familiarity.champion_games = Cardinality(same)
                            /\ x.familiarity.recent =
                                  Cardinality({r \in same : age(r) <= RecentDays})
                            /\ x.familiarity.last =
                                  IF same = {} THEN Missing ELSE Max({r.game_creation : r \in same})
                            /\ ToBag(x.familiarity.gold) = GoldOf(past)
                            /\ ToBag(x.familiarity.champion_gold) = GoldOf(same)
    BY DEF HistoryIsStrictlyPast
  <1>2. Published(canonical) /\ studies.topLane = HistoryFeatures(SelectedRows(groups))
    BY <1>1, AllGroupsAre DEF TInv, Studied
  <1>3. Separate(groups)
    BY <1>2, SourcesNumbered, EligibleSeparate
  <1> HIDE DEF groups
  <1>4. Tells(x.familiarity, x.row, CreatedBefore(UNION groups, x.row.game_creation))
    BY <1>1, <1>2, <1>3, SelectedTells
  <1>5. OfPlayer(CreatedBefore(UNION groups, x.row.game_creation), x.row.player)
          = Before(groups, x.row)
    BY DEF OfPlayer, CreatedBefore, Before
  <1> QED BY <1>4, <1>5 DEF Tells, OfChampion

\* In every reachable state what Stage 3.5A has published of a player is what the
\* eligible matches created strictly before say.
THEOREM HistorySafe == Spec => []HistoryIsStrictlyPast
  <1>1. Spec => [](SInv /\ TInv)
    BY InitStages, StageSteps, InitTopLane, TopLaneSteps, PTL DEF Spec
  <1> QED BY <1>1, HistoryPast, PTL
=============================================================================
