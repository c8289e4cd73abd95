------------------------ MODULE StagePublicationProofs ------------------------
(***************************************************************************)
(* Proofs about StagePublication, for any set of processes and any number  *)
(* of versions, invocations and crashes.                                   *)
(***************************************************************************)
EXTENDS StagePublication, TLAPS

\* Only what is needed of the types: processes have a place and a stage.
Controlled == /\ pc = [p \in Publishers |-> pc[p]]
              /\ stage = [p \in Publishers |-> stage[p]]
              /\ \A p \in Publishers : Busy(p) \/ stage[p] = "none"

\* A stage that never ran beside itself has one invocation at most.
Exclusive ==
    \A p, q \in Publishers :
        /\ Busy(p) /\ Busy(q) /\ stage[p] = stage[q] /\ stage[p] \in Replaceable
        /\ Alone(stage[p])
        => p = q

\* What an invocation has made sure of before its next replacement.
Prepared ==
    \A p \in Publishers : stage[p] \in Replaceable /\ Alone(stage[p]) =>
        /\ pc[p] = "moveAside" => stage[p] \in DOMAIN target \ DOMAIN previous
        /\ pc[p] = "placeOver" => stage[p] \in DOMAIN previous \ DOMAIN target
        /\ pc[p] = "discard" => stage[p] \in DOMAIN target

\* The inductive invariant.
IInv == Controlled /\ Exclusive /\ Prepared /\ InPlace

\* The process goes on within its stage, or ends.
Continues(p) ==
    /\ pc' = [pc EXCEPT ![p] = pc'[p]]
    /\ \/ pc'[p] # "idle" /\ stage' = stage
       \/ pc'[p] = "idle" /\ stage' = [stage EXCEPT ![p] = "none"]

\* The action that CopiesSurvive asks of every step.
NeverLost == \A s \in Replaceable : Alone(s) /\ Kept(s) => Kept(s)'

-----------------------------------------------------------------------------
\* Put adds a directory to those that are there.
LEMMA PutDomain ==
    ASSUME NEW f, NEW d, NEW content
    PROVE  DOMAIN Put(f, d, content) = DOMAIN f \cup {d}
  BY DEF Put

\* Without takes one away.
LEMMA WithoutDomain ==
    ASSUME NEW f, NEW d
    PROVE  DOMAIN Without(f, d) = DOMAIN f \ {d}
  BY DEF Without

\* Goes moves one process and touches neither history.
LEMMA Going ==
    ASSUME Controlled, NEW p \in Publishers, NEW next, next # "idle", Goes(p, next)
    PROVE  Continues(p) /\ pc'[p] = next /\ beside' = beside /\ torn' = torn
  BY DEF Controlled, Goes, Continues

\* Leaves makes the process idle.
LEMMA Leaving ==
    ASSUME Controlled, NEW p \in Publishers, Leaves(p)
    PROVE  Continues(p) /\ pc'[p] = "idle" /\ beside' = beside /\ torn' = torn
  BY DEF Controlled, Leaves, Ends, Continues

\* An invocation that starts makes its stage not alone if another one of it is at work.
LEMMA Starts ==
    ASSUME IInv, NEW p \in Publishers, NEW s \in Stages, Start(p, s)
    PROVE  IInv' /\ NeverLost
  <1>1. \A t : Alone(t)' => Alone(t)
    BY DEF Start, Alone
  <1>2. Controlled'
    BY DEF IInv, Controlled, Start, Busy, Stages, InputsOf
  <1>3. Exclusive'
    <2> SUFFICES ASSUME NEW q \in Publishers, NEW r \in Publishers,
                        (Busy(q) /\ Busy(r) /\ stage[q] = stage[r] /\ stage[q] \in Replaceable
                            /\ Alone(stage[q]))'
                 PROVE  q = r
      BY DEF Exclusive
    <2>1. \A u \in Publishers \ {p} : Busy(u) => ~Alone(s)' \/ stage[u] # s
      BY DEF Start, Alone
    <2>2. CASE q # p /\ r # p
      BY <1>1, <2>2 DEF IInv, Controlled, Exclusive, Start, Busy
    <2>3. CASE q = p \/ r = p
      BY <2>1, <2>3 DEF IInv, Controlled, Start, Busy
    <2>4. QED
      BY <2>2, <2>3
  <1>4. Prepared'
    BY <1>1 DEF IInv, Controlled, Prepared, Start, disk
  <1>5. InPlace'
    BY <1>1 DEF IInv, Controlled, InPlace, Start, disk, Busy
  <1>6. NeverLost
    BY DEF NeverLost, Kept, Start, disk
  <1>7. QED
    BY <1>2, <1>3, <1>4, <1>5, <1>6 DEF IInv

\* A process that goes on or ends does not disturb the bookkeeping of the stages.
LEMMA Bookkeeping ==
    ASSUME IInv, NEW p \in Publishers, Busy(p), beside' = beside,
           Continues(p)
    PROVE  /\ Controlled' /\ Exclusive'
           /\ \A q \in Publishers \ {p} : pc'[q] = pc[q] /\ stage'[q] = stage[q]
           /\ \A t : Alone(t)' <=> Alone(t)
  <1>1. \A t : Alone(t)' <=> Alone(t)
    BY DEF Alone
  <1>2. \A q \in Publishers \ {p} : pc'[q] = pc[q] /\ stage'[q] = stage[q]
    BY DEF IInv, Controlled, Continues
  <1>3. Controlled'
    BY DEF IInv, Controlled, Continues, Busy
  <1>4. Exclusive'
    <2>1. stage'[p] = stage[p] \/ ~Busy(p)'
      BY DEF IInv, Controlled, Continues, Busy
    <2>2. QED
      BY <1>1, <1>2, <2>1 DEF IInv, Exclusive, Busy
  <1>5. QED
    BY <1>1, <1>2, <1>3, <1>4

\* A step of p that leaves the replaceable directories as they are, after which p has
\* nothing to be sure of and before which it was not between its replacements.
LEMMA Bystander ==
    ASSUME IInv, NEW p \in Publishers, Busy(p), beside' = beside, torn \subseteq torn',
           Continues(p),
           pc[p] # "placeOver" \/ stage[p] \in torn',
           pc'[p] \notin {"moveAside", "placeOver", "discard"},
           \A s \in Replaceable : /\ s \in DOMAIN target' <=> s \in DOMAIN target
                                  /\ s \in DOMAIN previous' <=> s \in DOMAIN previous
    PROVE  IInv' /\ NeverLost
  <1>1. /\ Controlled' /\ Exclusive'
        /\ \A q \in Publishers \ {p} : pc'[q] = pc[q] /\ stage'[q] = stage[q]
        /\ \A t : Alone(t)' <=> Alone(t)
    BY Bookkeeping
  <1>2. Prepared'
    BY <1>1 DEF IInv, Prepared
  <1>3. InPlace'
    <2> SUFFICES ASSUME NEW s \in Replaceable, Alone(s)',
                        s \in DOMAIN previous' \ (torn' \cup DOMAIN target')
                 PROVE  \E q \in Publishers : pc'[q] = "placeOver" /\ stage'[q] = s
      BY DEF InPlace
    <2>1. PICK q \in Publishers : pc[q] = "placeOver" /\ stage[q] = s
      BY <1>1 DEF IInv, InPlace
    <2>2. q # p
      BY <2>1
    <2>3. QED
      BY <1>1, <2>1, <2>2
  <1>4. NeverLost
    BY DEF NeverLost, Kept
  <1>5. QED
    BY <1>1, <1>2, <1>3, <1>4 DEF IInv

\* A step of p that changes at most the directories of its own stage: the others have
\* nothing to do with them.
LEMMA OwnDirectories ==
    ASSUME IInv, NEW p \in Publishers, Busy(p), beside' = beside, torn' = torn,
           Continues(p),
           \A s \in Replaceable \ {stage[p]} :
               /\ s \in DOMAIN target' <=> s \in DOMAIN target
               /\ s \in DOMAIN previous' <=> s \in DOMAIN previous,
           stage[p] \in Replaceable /\ Alone(stage[p]) =>
               /\ pc'[p] = "moveAside" => stage[p] \in DOMAIN target' \ DOMAIN previous'
               /\ pc'[p] = "placeOver" => stage[p] \in DOMAIN previous' \ DOMAIN target'
               /\ pc'[p] = "discard" => stage[p] \in DOMAIN target'
               /\ stage[p] \in DOMAIN previous' \ DOMAIN target' =>
                      \/ pc'[p] = "placeOver"
                      \/ pc[p] # "placeOver" /\ stage[p] \in DOMAIN previous \ DOMAIN target
               /\ Kept(stage[p]) => stage[p] \in DOMAIN target' \cup DOMAIN previous'
    PROVE  IInv' /\ NeverLost
  <1>1. /\ Controlled' /\ Exclusive'
        /\ \A q \in Publishers \ {p} : pc'[q] = pc[q] /\ stage'[q] = stage[q]
        /\ \A t : Alone(t)' <=> Alone(t)
    BY Bookkeeping
  <1>2. pc'[p] # "idle" => stage'[p] = stage[p]
    BY DEF Continues
  <1>3. Prepared'
    <2> SUFFICES ASSUME NEW q \in Publishers, (stage[q] \in Replaceable /\ Alone(stage[q]))'
                 PROVE  (/\ pc[q] = "moveAside" => stage[q] \in DOMAIN target \ DOMAIN previous
                         /\ pc[q] = "placeOver" => stage[q] \in DOMAIN previous \ DOMAIN target
                         /\ pc[q] = "discard" => stage[q] \in DOMAIN target)'
      BY DEF Prepared
    <2>1. CASE q = p
      BY <1>1, <1>2, <2>1
    <2>2. CASE q # p /\ pc[q] # "idle"
      <3>1. stage[q] # stage[p]
        BY <1>1, <2>2 DEF IInv, Exclusive, Busy
      <3>2. QED
        BY <1>1, <2>2, <3>1 DEF IInv, Prepared
    <2>3. CASE q # p /\ pc[q] = "idle"
      BY <1>1, <2>3
    <2>4. QED
      BY <2>1, <2>2, <2>3
  <1>4. InPlace'
    <2> SUFFICES ASSUME NEW s \in Replaceable, Alone(s)',
                        s \in DOMAIN previous' \ (torn' \cup DOMAIN target')
                 PROVE  \E q \in Publishers : pc'[q] = "placeOver" /\ stage'[q] = s
      BY DEF InPlace
    <2>1. CASE s = stage[p] /\ pc'[p] = "placeOver"
      BY <1>2, <2>1
    <2>2. CASE ~(s = stage[p] /\ pc'[p] = "placeOver")
      <3>1. PICK q \in Publishers : pc[q] = "placeOver" /\ stage[q] = s
        BY <1>1, <2>2 DEF IInv, InPlace
      <3>2. q # p
        BY <1>1, <2>2, <3>1
      <3>3. QED
        BY <1>1, <3>1, <3>2
    <2>3. QED
      BY <2>1, <2>2
  <1>5. NeverLost
    BY <1>1 DEF NeverLost, Kept
  <1>6. QED
    BY <1>1, <1>3, <1>4, <1>5 DEF IInv

-----------------------------------------------------------------------------
\* Hashing, reading and refusing leave the directories as they are.
LEMMA Loads ==
    ASSUME IInv, NEW p \in Publishers, Load(p)
    PROVE  IInv' /\ NeverLost
  <1>1. Busy(p) /\ pc[p] # "placeOver" /\ UNCHANGED disk
    <2>1. HashInput(p) => pc[p] = "hash" /\ UNCHANGED disk
      BY Zenon DEF HashInput
    <2>2. ReadInput(p) => pc[p] = "read" /\ UNCHANGED disk
      BY Zenon DEF ReadInput
    <2>3. QED
      BY <2>1, <2>2 DEF Load, VerifyPriors, CheckLineage, Refuse, Busy, disk
  <1>2. Controlled
    BY DEF IInv
  <1>3. Continues(p) /\ beside' = beside /\ torn' = torn
            /\ pc'[p] \notin {"moveAside", "placeOver", "discard"}
    <2>1. HashInput(p) => Goes(p, "verify") \/ Goes(p, "read")
      BY Zenon DEF HashInput
    <2>2. ReadInput(p) => Goes(p, "lineage") \/ Goes(p, "hash")
      BY Zenon DEF ReadInput
    <2>3. VerifyPriors(p) => Goes(p, "read")
      BY DEF VerifyPriors
    <2>4. CheckLineage(p) => Goes(p, "publishPrivate") \/ Goes(p, "compare")
      BY Zenon DEF CheckLineage
    <2>5. Refuse(p) => Leaves(p)
      BY Zenon DEF Refuse
    <2>6. CASE Leaves(p)
      BY <1>2, <2>6, Leaving
    <2>7. CASE \E next \in {"hash", "verify", "read", "lineage", "compare", "publishPrivate"} :
                  Goes(p, next)
      BY <1>2, <2>7, Going
    <2>8. QED
      BY <2>1, <2>2, <2>3, <2>4, <2>5, <2>6, <2>7 DEF Load
  <1>4. QED
    BY <1>1, <1>3, Bystander DEF disk

\* Every step of a publication keeps the invariant: one case for each action.
LEMMA Publishes ==
    ASSUME IInv, NEW p \in Publishers, Publish(p)
    PROVE  IInv' /\ NeverLost
  <1> USE Going, Leaving
  <1>c. Controlled
    BY DEF IInv
  <1>1. CASE Unchanged(p)
    <2>1. Continues(p) /\ pc'[p] = "idle" /\ beside' = beside /\ torn' = torn
      BY <1>1, <1>c DEF Unchanged
    <2>2. QED
      BY <1>1, <2>1, Bystander DEF Unchanged, Busy, disk
  <1>2. CASE Differs(p)
    <2>1. Continues(p) /\ pc'[p] \in {"retire", "place", "idle"} /\ beside' = beside /\ torn' = torn
      BY <1>2, <1>c DEF Differs
    <2>2. QED
      BY <1>2, <2>1, Bystander DEF Differs, Busy, disk
  <1>3. CASE Retire(p)
    <2>1. Continues(p) /\ beside' = beside /\ torn' = torn /\ target' = target
      BY <1>3, <1>c DEF Retire
    <2>2. \/ /\ stage[p] \in DOMAIN target /\ pc'[p] = "moveAside"
             /\ DOMAIN previous' = DOMAIN previous \ {stage[p]}
          \/ pc'[p] = "place" /\ previous' = previous
      BY <1>3, <1>c, WithoutDomain DEF Retire
    <2>3. QED
      BY <1>3, <2>1, <2>2, OwnDirectories DEF Retire, Busy, Kept
  <1>4. CASE MoveAside(p)
    <2>1. Continues(p) /\ beside' = beside /\ torn' = torn
      BY <1>4, <1>c DEF MoveAside
    <2>2. \/ /\ pc'[p] = "placeOver"
             /\ DOMAIN previous' = DOMAIN previous \cup {stage[p]}
             /\ DOMAIN target' = DOMAIN target \ {stage[p]}
          \/ pc'[p] = "idle" /\ UNCHANGED disk
      <3>1. CASE stage[p] \in DOMAIN target \ DOMAIN previous
        <4>1. /\ pc'[p] = "placeOver" /\ target' = Without(target, stage[p])
              /\ previous' = Put(previous, stage[p], target[stage[p]])
          BY <1>4, <1>c, <3>1 DEF MoveAside
        <4>2. DOMAIN previous' = DOMAIN previous \cup {stage[p]}
          BY <4>1, PutDomain
        <4>3. DOMAIN target' = DOMAIN target \ {stage[p]}
          BY <4>1, WithoutDomain
        <4>4. QED
          BY <4>1, <4>2, <4>3
      <3>2. CASE ~(stage[p] \in DOMAIN target \ DOMAIN previous)
        BY <1>4, <1>c, <3>2 DEF MoveAside
      <3>3. QED
        BY <3>1, <3>2
    <2>3. QED
      BY <1>4, <2>1, <2>2, OwnDirectories DEF MoveAside, Busy, Kept, disk
  <1>5. CASE PlaceOver(p)
    <2>1. /\ Continues(p) /\ beside' = beside /\ torn' = torn /\ pc'[p] = "discard"
          /\ DOMAIN target' = DOMAIN target \cup {stage[p]} /\ previous' = previous
      BY <1>5, <1>c, PutDomain DEF PlaceOver
    <2>2. QED
      BY <1>5, <2>1, OwnDirectories DEF PlaceOver, Busy, Kept
  <1>6. CASE PlaceFails(p)
    <2>1. Continues(p) /\ beside' = beside /\ torn' = torn /\ pc'[p] = "idle"
      BY <1>6, <1>c DEF PlaceFails
    <2>2. \/ /\ DOMAIN target' = DOMAIN target \cup {stage[p]}
             /\ DOMAIN previous' = DOMAIN previous \ {stage[p]}
          \/ stage[p] \notin DOMAIN previous \ DOMAIN target /\ UNCHANGED disk
      <3>1. CASE stage[p] \in DOMAIN previous \ DOMAIN target
        <4>1. /\ target' = Put(target, stage[p], previous[stage[p]])
              /\ previous' = Without(previous, stage[p])
          BY <1>6, <3>1 DEF PlaceFails
        <4>2. DOMAIN target' = DOMAIN target \cup {stage[p]}
          BY <4>1, PutDomain
        <4>3. DOMAIN previous' = DOMAIN previous \ {stage[p]}
          BY <4>1, WithoutDomain
        <4>4. QED
          BY <4>2, <4>3
      <3>2. CASE ~(stage[p] \in DOMAIN previous \ DOMAIN target)
        BY <1>6, <3>2 DEF PlaceFails
      <3>3. QED
        BY <3>1, <3>2
    <2>3. QED
      BY <1>6, <2>1, <2>2, OwnDirectories DEF PlaceFails, Busy, Kept, disk
  <1>7. CASE Discard(p)
    <2>1. /\ Continues(p) /\ beside' = beside /\ torn' = torn /\ pc'[p] = "idle"
          /\ DOMAIN previous' = DOMAIN previous \ {stage[p]} /\ target' = target
      BY <1>7, <1>c, WithoutDomain DEF Discard
    <2>2. stage[p] \in Replaceable /\ Alone(stage[p]) => stage[p] \in DOMAIN target
      BY <1>7 DEF Discard, IInv, Prepared
    <2>3. QED
      BY <1>7, <2>1, <2>2, OwnDirectories DEF Discard, Busy, Kept
  <1>8. CASE Place(p)
    <2>1. /\ Continues(p) /\ beside' = beside /\ torn' = torn /\ pc'[p] = "idle"
          /\ previous' = previous
      BY <1>8, <1>c DEF Place
    <2>2. target' = target \/ DOMAIN target' = DOMAIN target \cup {stage[p]}
      <3>1. target' = target \/ target' = Put(target, stage[p], Staged(p))
        BY <1>8 DEF Place
      <3>2. CASE target' = Put(target, stage[p], Staged(p))
        BY <3>2, PutDomain
      <3>3. QED
        BY <3>1, <3>2
    <2>3. QED
      BY <1>8, <2>1, <2>2, OwnDirectories DEF Place, Busy, Kept
  <1>9. CASE PublishPrivate(p) \/ PublishAggregate(p)
    <2>1. /\ Continues(p) /\ beside' = beside /\ torn' = torn /\ previous' = previous
          /\ pc'[p] \in {"idle", "publishAggregate"}
      BY <1>9, <1>c DEF PublishPrivate, PublishAggregate
    <2>2. \/ target' = target
          \/ \E d \in {"topLane", "topLanePrivate"} :
                \/ target' = Put(target, d, Staged(p))
                \/ target' = Without(target, d)
      BY <1>9 DEF PublishPrivate, PublishAggregate
    <2>3. \A s \in Replaceable : s \in DOMAIN target' <=> s \in DOMAIN target
      <3>1. CASE target' = target
        BY <3>1
      <3>2. ASSUME NEW d \in {"topLane", "topLanePrivate"}, target' = Put(target, d, Staged(p))
            PROVE  \A s \in Replaceable : s \in DOMAIN target' <=> s \in DOMAIN target
        <4>1. DOMAIN target' = DOMAIN target \cup {d}
          BY <3>2, PutDomain
        <4>2. d \notin Replaceable
          BY DEF Replaceable
        <4>3. QED
          BY <4>1, <4>2
      <3>3. ASSUME NEW d \in {"topLane", "topLanePrivate"}, target' = Without(target, d)
            PROVE  \A s \in Replaceable : s \in DOMAIN target' <=> s \in DOMAIN target
        <4>1. DOMAIN target' = DOMAIN target \ {d}
          BY <3>3, WithoutDomain
        <4>2. d \notin Replaceable
          BY DEF Replaceable
        <4>3. QED
          BY <4>1, <4>2
      <3>4. QED
        BY <2>2, <3>1, <3>2, <3>3
    <2>4. QED
      BY <1>9, <2>1, <2>3, Bystander DEF PublishPrivate, PublishAggregate, Busy
  <1>10. QED
    BY <1>1, <1>2, <1>3, <1>4, <1>5, <1>6, <1>7, <1>8, <1>9 DEF Publish

\* Every step keeps the invariant and loses no published directory.
LEMMA EveryStep ==
    ASSUME IInv, [Next]_vars
    PROVE  IInv' /\ NeverLost
  <1>1. CASE UNCHANGED <<disk, pc, stage, beside, torn>>
    BY <1>1 DEF IInv, Controlled, Exclusive, Prepared, InPlace, NeverLost, Kept, Busy,
                Alone, disk
  <1>2. ASSUME NEW p \in Publishers, NEW s \in Stages, Start(p, s)
        PROVE  IInv' /\ NeverLost
    BY <1>2, Starts
  <1>3. ASSUME NEW p \in Publishers, Load(p) \/ Publish(p)
        PROVE  IInv' /\ NeverLost
    BY <1>3, Loads, Publishes
  <1>4. ASSUME NEW p \in Publishers, Dies(p)
        PROVE  IInv' /\ NeverLost
    <2>1. Continues(p) /\ pc'[p] = "idle" /\ UNCHANGED <<disk, beside>> /\ torn \subseteq torn'
      BY <1>4 DEF Dies, Ends, Continues, IInv, Controlled
    <2>2. QED
      BY <1>4, <2>1, Bystander DEF Dies, Busy, disk
  <1>5. QED
    BY <1>1, <1>2, <1>3, <1>4 DEF Next, vars, disk, PopulationGrows

\* The invariant that the invocations rely on holds whatever runs beside or is killed.
THEOREM Inductive == Spec => []IInv
  <1>1. Init => IInv
    BY DEF Init, IInv, Controlled, Exclusive, Prepared, InPlace, Busy, Replaceable
  <1>2. IInv /\ [Next]_vars => IInv'
    BY EveryStep
  <1>3. QED
    BY <1>1, <1>2, PTL DEF Spec

\* However invocations of different stages interleave, fail and are killed, what a
\* stage has published is never lost: CopiesSurvive, for write_canonical_dataset and
\* the three functions like it.
THEOREM CopiesSafe == Spec => CopiesSurvive
  <1>1. IInv => InPlace
    BY DEF IInv
  <1>2. IInv /\ [Next]_vars => [NeverLost]_vars
    BY EveryStep
  <1>3. QED
    BY <1>1, <1>2, Inductive, PTL DEF Spec, CopiesSurvive, NeverLost
-----------------------------------------------------------------------------
(* Lineage.  What a process has hashed and read is what is published, as   *)
(* long as nothing it depends on is published beside it.                   *)

Names(list) == {list[n] : n \in DOMAIN list}
Inputs(s) == Names(InputsOf[s])

Loading == {"hash", "verify", "read"}
Replacing == {"moveAside", "placeOver", "discard"}
Places == Loading \cup Replacing \cup
          {"lineage", "compare", "retire", "place", "publishPrivate", "publishAggregate"}

\* A directory names the hashes of all its stage's inputs.
Whole(d, s) == /\ d = Directory(d.rows, d.inputs)
               /\ DOMAIN d.inputs = Inputs(s)

\* What a process has loaded, by the place it has reached.
Loaded(p) ==
    LET s == stage[p]  l == load[p]  left == Names(l.todo) IN
    /\ s \in Stages /\ pc[p] \in Places
    /\ l = [todo |-> l.todo, hashed |-> l.hashed, read |-> l.read]
    /\ \/ l.todo \in {InputsOf[s], <<>>}
       \/ s = "drafts" /\ l.todo = <<"features">>
    /\ pc[p] \in Loading <=> l.todo # <<>>
    /\ pc[p] = "verify" => Head(l.todo) = "drafts"
    /\ pc[p] \in {"publishPrivate", "publishAggregate"} => s = "topLane"
    /\ s = "topLane" => pc[p] \in Loading \cup {"lineage", "publishPrivate", "publishAggregate"}
    /\ s = "canonical" => pc[p] \in Replacing \cup {"compare", "retire", "place"}
    /\ s # "canonical" => DOMAIN l.read = Inputs(s) \ left
    /\ DOMAIN l.hashed =
          (Inputs(s) \ left) \cup (IF pc[p] \in {"verify", "read"} THEN {Head(l.todo)} ELSE {})

Typed == /\ load = [p \in Publishers |-> load[p]]
         /\ \A p \in Publishers : Busy(p) => Loaded(p)
         /\ \A s \in Stages : /\ s \in DOMAIN target => Whole(target[s], s)
                              /\ s \in DOMAIN previous => Whole(previous[s], s)

\* Stages that are at work at the same time are known to be.
BesideKnown ==
    \A p, q \in Publishers :
        p # q /\ Busy(p) /\ Busy(q) => <<stage[p], stage[q]>> \in beside

\* The directories that i was made from are published.
Grounded(i) == \A j \in DOMAIN i.inputs : j \in DOMAIN target /\ target[j] = i.inputs[j]

\* What an undisturbed stage has loaded is what is published, of one lineage, and it has
\* nothing to replace.
Faithful(p) ==
    LET s == stage[p]  l == load[p] IN
    /\ \A i \in DOMAIN l.hashed : i \in DOMAIN target /\ target[i] = l.hashed[i]
    /\ l.read = [i \in DOMAIN l.read |-> l.hashed[i].rows]
    /\ s = "drafts" /\ "features" \in DOMAIN l.read =>
          l.hashed["features"].inputs["canonical"] = l.hashed["canonical"]
    /\ s \in {"aggregates", "backtest"} /\ pc[p] \notin {"hash", "verify"} =>
          Grounded(l.hashed["drafts"])
    /\ s = "topLane" => \A i \in DOMAIN l.hashed : l.hashed[i] = Sealed
    /\ pc[p] = "compare" /\ s \in DOMAIN target => target[s].inputs = l.hashed
    /\ pc[p] = "retire" => s \notin DOMAIN target
    /\ pc[p] \notin Replacing

Faithfully ==
    \A p \in Publishers :
        Busy(p) /\ stage[p] # "canonical" /\ Undisturbed(stage[p]) => Faithful(p)

\* The rows of a directory were made from the inputs it records.
Derived(d, s) ==
    /\ d.rows = [i \in Inputs(s) |-> d.inputs[i].rows]
    /\ s = "drafts" => d.inputs["features"].inputs["canonical"] = d.inputs["canonical"]
    /\ s = "topLane" => d.inputs["canonical"] = Sealed

AllDerived ==
    \A s \in DOMAIN target \cap Stages :
        s # "canonical" /\ Undisturbed(s) => Derived(target[s], s)

\* One process at most is between the two publications of Stage 3.5A.
OnePrivate ==
    /\ \A p \in Publishers : pc[p] = "publishAggregate" =>
          /\ "topLanePrivate" \in DOMAIN target /\ target["topLanePrivate"] = Staged(p)
          /\ "topLane" \notin DOMAIN target
          /\ \A q \in Publishers : pc[q] = "publishAggregate" => q = p
    /\ "topLane" \in DOMAIN target =>
          /\ "topLanePrivate" \in DOMAIN target
          /\ target["topLanePrivate"] = target["topLane"]

LInv == Typed /\ BesideKnown /\ Faithfully /\ AllDerived /\ OnePrivate

\* A step changes no directory of another stage.
Apart(p) ==
    \A d \in Stages \ {stage[p]} :
        /\ d \in DOMAIN target' <=> d \in DOMAIN target
        /\ d \in DOMAIN target => target'[d] = target[d]

\* What the third part of LineageHolds asks of a step, of each stage.
Durable(s) ==
    Undisturbed(s) =>
        /\ s \in DOMAIN target => s \in DOMAIN target' /\ target'[s] = target[s]
        /\ s \in DOMAIN target' \ DOMAIN target => Current(s)

-----------------------------------------------------------------------------
\* Put and Without leave the other directories as they are.
LEMMA PutValue ==
    ASSUME NEW f, NEW d, NEW content
    PROVE  /\ Put(f, d, content)[d] = content
           /\ \A x \in DOMAIN f \ {d} : Put(f, d, content)[x] = f[x]
  BY DEF Put

\* The same of Without.
LEMMA WithoutValue ==
    ASSUME NEW f, NEW d
    PROVE  \A x \in DOMAIN f \ {d} : Without(f, d)[x] = f[x]
  BY DEF Without

\* The lists of inputs that a process works off, as sets.
LEMMA ListedNames ==
    /\ Names(<<>>) = {} /\ Names(<<"canonical">>) = {"canonical"}
    /\ Names(<<"features">>) = {"features"} /\ Names(<<"drafts">>) = {"drafts"}
    /\ Names(<<"canonical", "features">>) = {"canonical", "features"}
  <1>1. Names(<<>>) = {}
    BY DEF Names
  <1>2. ASSUME NEW x PROVE Names(<<x>>) = {x}
    BY DEF Names
  <1>3. Names(<<"canonical", "features">>) = {"canonical", "features"}
    <2> DEFINE list == <<"canonical", "features">>
    <2>1. DOMAIN list = {1, 2} /\ list[1] = "canonical" /\ list[2] = "features"
      OBVIOUS
    <2>2. QED
      BY <2>1 DEF Names
  <1>4. QED
    BY <1>1, <1>2, <1>3

\* The inputs of each stage.
LEMMA InputSets ==
    /\ Stages = {"canonical", "features", "drafts", "aggregates", "backtest", "topLane"}
    /\ Inputs("canonical") = {} /\ Inputs("features") = {"canonical"}
    /\ Inputs("drafts") = {"canonical", "features"} /\ Inputs("aggregates") = {"drafts"}
    /\ Inputs("backtest") = {"drafts"} /\ Inputs("topLane") = {"canonical"}
  BY ListedNames DEF Stages, Inputs, InputsOf

\* A stage reads directories that lie upstream of it, and so do the ones those name.
LEMMA InputsAreUpstream ==
    /\ \A s \in Stages : Inputs(s) \subseteq Upstream[s] /\ Upstream[s] \subseteq Stages
    /\ \A s \in {"aggregates", "backtest"} : Inputs("drafts") \subseteq Upstream[s]
  BY InputSets DEF Upstream

\* The inputs left to load, once the first of them is done.
LEMMA NextInput ==
    ASSUME NEW s \in Stages, NEW todo, todo # <<>>,
           todo = InputsOf[s] \/ (s = "drafts" /\ todo = <<"features">>)
    PROVE  /\ Head(todo) \in Names(todo) /\ Names(todo) \subseteq Inputs(s)
           /\ Names(Tail(todo)) = Names(todo) \ {Head(todo)}
           /\ Tail(todo) = <<>> \/ (s = "drafts" /\ Tail(todo) = <<"features">>)
           /\ s \in {"aggregates", "backtest"} => Head(todo) = "drafts"
           /\ s = "drafts" => "features" \in Names(todo) /\ Head(todo) # "drafts"
           /\ s = "drafts" /\ Tail(todo) # <<>> => Head(todo) # "features"
  <1>1. \/ s \in {"features", "topLane"} /\ todo = <<"canonical">>
        \/ s = "drafts" /\ todo = <<"canonical", "features">>
        \/ s = "drafts" /\ todo = <<"features">>
        \/ s \in {"aggregates", "backtest"} /\ todo = <<"drafts">>
    BY InputSets DEF InputsOf
  <1>2. ASSUME NEW x PROVE Head(<<x>>) = x /\ Tail(<<x>>) = <<>>
    OBVIOUS
  <1>3. /\ Head(<<"canonical", "features">>) = "canonical"
        /\ Tail(<<"canonical", "features">>) = <<"features">>
    OBVIOUS
  <1>4. CASE s \in {"features", "topLane"} /\ todo = <<"canonical">>
    <2>1. Head(todo) = "canonical" /\ Tail(todo) = <<>>
      BY <1>2, <1>4
    <2>2. QED
      BY <1>4, <2>1, ListedNames, InputSets
  <1>5. CASE s = "drafts" /\ todo = <<"canonical", "features">>
    <2>1. Head(todo) = "canonical" /\ Tail(todo) = <<"features">>
      BY <1>3, <1>5
    <2>2. QED
      BY <1>5, <2>1, ListedNames, InputSets
  <1>6. CASE s = "drafts" /\ todo = <<"features">>
    <2>1. Head(todo) = "features" /\ Tail(todo) = <<>>
      BY <1>2, <1>6
    <2>2. QED
      BY <1>6, <2>1, ListedNames, InputSets
  <1>7. CASE s \in {"aggregates", "backtest"} /\ todo = <<"drafts">>
    <2>1. Head(todo) = "drafts" /\ Tail(todo) = <<>>
      BY <1>2, <1>7
    <2>2. QED
      BY <1>7, <2>1, ListedNames, InputSets
  <1>8. QED
    BY <1>1, <1>4, <1>5, <1>6, <1>7

\* What an undisturbed process has loaded stays what is published when another process
\* changes directories of its own stage only.
LEMMA OthersStayFaithful ==
    ASSUME Typed, BesideKnown, Controlled, NEW p \in Publishers, NEW q \in Publishers \ {p},
           Busy(p), Busy(q), Apart(p),
           stage[q] # "canonical", Undisturbed(stage[q]), Faithful(q),
           pc'[q] = pc[q], stage'[q] = stage[q], load'[q] = load[q]
    PROVE  Faithful(q)'
  <1> DEFINE s == stage[q]
             l == load[q]
  <1>1. /\ s \in Stages /\ stage[p] \notin Upstream[s] \cup {s}
        /\ DOMAIN l.hashed \subseteq Upstream[s] /\ Upstream[s] \subseteq Stages
    <2>1. s \in Stages /\ DOMAIN l.hashed \subseteq Inputs(s)
      <3>1. s \in Stages
        BY DEF Typed, Loaded
      <3>2. pc[q] \in {"verify", "read"} => Head(l.todo) \in Inputs(s)
        BY <3>1, NextInput DEF Typed, Loaded, Loading
      <3>3. QED
        BY <3>1, <3>2 DEF Typed, Loaded
    <2>2. stage[p] \notin Upstream[s] \cup {s}
      BY DEF BesideKnown, Undisturbed
    <2>3. QED
      BY <2>1, <2>2, InputsAreUpstream
  <1>2. \A d \in Upstream[s] \cup {s} :
           /\ d \in DOMAIN target' <=> d \in DOMAIN target
           /\ d \in DOMAIN target => target'[d] = target[d]
    BY <1>1 DEF Apart
  <1>3. ASSUME s \in {"aggregates", "backtest"}, pc[q] \notin {"hash", "verify"}
        PROVE  Grounded(l.hashed["drafts"])'
    <2>1. Grounded(l.hashed["drafts"])
      BY <1>3 DEF Faithful
    <2>2. "drafts" \in DOMAIN l.hashed
      <3>1. pc[q] \in {"verify", "read"} => Head(l.todo) = "drafts"
        BY <1>1, <1>3, NextInput DEF Typed, Loaded, Loading
      <3>2. pc[q] \notin Loading => Names(l.todo) = {}
        BY ListedNames DEF Typed, Loaded
      <3>3. Inputs(s) = {"drafts"}
        BY <1>3, InputSets
      <3>4. QED
        BY <1>3, <3>1, <3>2, <3>3 DEF Typed, Loaded, Loading
    <2>3. DOMAIN l.hashed["drafts"].inputs \subseteq Upstream[s]
      <3>1. "drafts" \in DOMAIN target /\ target["drafts"] = l.hashed["drafts"]
        BY <2>2 DEF Faithful
      <3>2. DOMAIN target["drafts"].inputs = Inputs("drafts")
        BY <3>1, InputSets DEF Typed, Whole
      <3>3. QED
        BY <1>3, <3>1, <3>2, InputsAreUpstream
    <2>4. QED
      BY <1>2, <2>1, <2>3 DEF Grounded
  <1>4. QED
    <2>1. \A i \in DOMAIN l.hashed : i \in DOMAIN target' /\ target'[i] = l.hashed[i]
      BY <1>1, <1>2 DEF Faithful
    <2>2. /\ pc[q] = "compare" /\ s \in DOMAIN target' => target'[s].inputs = l.hashed
          /\ pc[q] = "retire" => s \notin DOMAIN target'
      BY <1>2 DEF Faithful
    <2>3. load[q]' = l /\ pc[q]' = pc[q] /\ stage[q]' = s
      OBVIOUS
    <2>4. QED
      BY <1>3, <2>1, <2>2, <2>3 DEF Faithful

\* A step of p keeps the invariant when it keeps what is said of p and of its stage.
LEMMA OwnStep ==
    ASSUME Typed, BesideKnown, Faithfully, AllDerived, Controlled,
           NEW p \in Publishers, Busy(p), Continues(p), beside' = beside, Apart(p),
           load' = [load EXCEPT ![p] = load'[p]],
           Busy(p)' => Loaded(p)',
           Busy(p)' /\ stage[p] # "canonical" /\ Undisturbed(stage[p]) => Faithful(p)',
           stage[p] \in DOMAIN target' => Whole(target'[stage[p]], stage[p]),
           \A s \in Stages : s \in DOMAIN previous' => Whole(previous'[s], s),
           stage[p] # "canonical" /\ Undisturbed(stage[p]) /\ stage[p] \in DOMAIN target'
               => Derived(target'[stage[p]], stage[p])
    PROVE  (Typed /\ BesideKnown /\ Faithfully /\ AllDerived)'
  <1>1. /\ \A q \in Publishers \ {p} :
              pc'[q] = pc[q] /\ stage'[q] = stage[q] /\ load'[q] = load[q]
        /\ Busy(p)' => stage'[p] = stage[p]
    BY DEF Typed, Controlled, Continues, Busy
  <1>2. \A s : Undisturbed(s)' <=> Undisturbed(s)
    BY DEF Undisturbed
  <1>3. ASSUME NEW q \in Publishers, Busy(q)'
        PROVE  Loaded(q)'
    <2>1. CASE q # p
      <3>1. Busy(q) /\ pc[q]' = pc[q] /\ stage[q]' = stage[q] /\ load[q]' = load[q]
        BY <1>1, <1>3, <2>1 DEF Busy
      <3>2. Loaded(q)
        BY <3>1 DEF Typed
      <3>3. QED
        BY <3>1, <3>2 DEF Loaded
    <2>2. QED
      BY <1>3, <2>1
  <1>4. \A s \in Stages : s \in DOMAIN target' => Whole(target'[s], s)
    BY DEF Typed, Apart
  <1>5. Typed'
    <2>1. load' = [q \in Publishers |-> load'[q]]
      BY DEF Typed
    <2>2. QED
      BY <1>3, <1>4, <2>1 DEF Typed
  <1>6. BesideKnown'
    BY <1>1 DEF BesideKnown, Busy
  <1>7. Faithfully'
    <2> SUFFICES ASSUME NEW q \in Publishers,
                        (Busy(q) /\ stage[q] # "canonical" /\ Undisturbed(stage[q]))'
                 PROVE  Faithful(q)'
      BY DEF Faithfully
    <2>1. CASE q = p
      BY <1>1, <1>2, <2>1
    <2>2. CASE q # p
      <3>1. Busy(q) /\ stage[q] # "canonical" /\ Undisturbed(stage[q])
        BY <1>1, <1>2, <2>2 DEF Busy
      <3>2. Faithful(q)
        BY <3>1 DEF Faithfully
      <3>3. QED
        BY <1>1, <2>2, <3>1, <3>2, OthersStayFaithful
    <2>3. QED
      BY <2>1, <2>2
  <1>8. AllDerived'
    <2> SUFFICES ASSUME NEW s \in DOMAIN target' \cap Stages,
                        s # "canonical", Undisturbed(s)'
                 PROVE  Derived(target'[s], s)
      BY DEF AllDerived, Derived
    <2>1. CASE s = stage[p]
      BY <1>2, <2>1
    <2>2. CASE s # stage[p]
      BY <1>2, <2>2 DEF AllDerived, Apart
    <2>3. QED
      BY <2>1, <2>2
  <1>9. QED
    BY <1>5, <1>6, <1>7, <1>8

\* The later stages stay as they are when a step keeps its own to what is asked of it.
LEMMA OwnDurable ==
    ASSUME NEW p \in Publishers, Apart(p), stage[p] # "canonical" => Durable(stage[p])
    PROVE  \A s \in Stages \ {"canonical"} : Durable(s)
  BY DEF Apart, Durable

\* The publications of Stage 3.5A are not touched by the steps of the others, nor by its
\* own before and after them.
LEMMA PrivateUntouched ==
    ASSUME OnePrivate, Typed, NEW p \in Publishers, Busy(p), Continues(p), Controlled,
           load' = [load EXCEPT ![p] = load'[p]],
           pc[p] # "publishAggregate", pc'[p] # "publishAggregate",
           \A d \in {"topLane", "topLanePrivate"} :
               /\ d \in DOMAIN target' <=> d \in DOMAIN target
               /\ d \in DOMAIN target => target'[d] = target[d]
    PROVE  OnePrivate'
  <1>1. \A q \in Publishers \ {p} :
            pc'[q] = pc[q] /\ load'[q] = load[q] /\ Staged(q)' = Staged(q)
    BY DEF Typed, Controlled, Continues, Staged
  <1>2. QED
    BY <1>1 DEF OnePrivate

-----------------------------------------------------------------------------
\* The record of what a process has loaded, after its hashes change.
LEMMA HashedChanges ==
    ASSUME Typed, NEW p \in Publishers, Busy(p), NEW h, load' = [load EXCEPT ![p].hashed = h]
    PROVE  /\ load' = [load EXCEPT ![p] = load'[p]]
           /\ load'[p] = [todo |-> load[p].todo, hashed |-> h, read |-> load[p].read]
           /\ load'[p].todo = load[p].todo /\ load'[p].hashed = h
           /\ load'[p].read = load[p].read
  BY DEF Typed, Loaded

\* The same after it has read an input.
LEMMA ReadChanges ==
    ASSUME Typed, NEW p \in Publishers, Busy(p), NEW r, NEW t,
           load' = [load EXCEPT ![p].read = r, ![p].todo = t]
    PROVE  /\ load' = [load EXCEPT ![p] = load'[p]]
           /\ load'[p] = [todo |-> t, hashed |-> load[p].hashed, read |-> r]
           /\ load'[p].todo = t /\ load'[p].hashed = load[p].hashed
           /\ load'[p].read = r
  <1>1. load = [q \in Publishers |-> load[q]]
    BY DEF Typed
  <1>2. load[p] = [todo |-> load[p].todo, hashed |-> load[p].hashed, read |-> load[p].read]
    BY DEF Typed, Loaded
  <1>3. load' = [load EXCEPT ![p] = [[load[p] EXCEPT !.read = r] EXCEPT !.todo = t]]
    BY <1>1
  <1>4. load'[p] = [todo |-> t, hashed |-> load[p].hashed, read |-> r]
    BY <1>1, <1>2, <1>3
  <1>5. load' = [load EXCEPT ![p] = load'[p]]
    BY <1>1, <1>3
  <1>6. QED
    BY <1>4, <1>5

\* A step that leaves the directories as they are is as good as its own process.
LEMMA QuietStep ==
    ASSUME LInv, Controlled, NEW p \in Publishers, Busy(p), Continues(p), beside' = beside,
           UNCHANGED disk, load' = [load EXCEPT ![p] = load'[p]],
           pc[p] # "publishAggregate", pc'[p] # "publishAggregate",
           Busy(p)' => Loaded(p)',
           Busy(p)' /\ stage[p] # "canonical" /\ Undisturbed(stage[p]) => Faithful(p)'
    PROVE  LInv' /\ \A s \in Stages \ {"canonical"} : Durable(s)
  <1>1. target' = target /\ previous' = previous /\ Apart(p)
    BY DEF disk, Apart
  <1>2. stage[p] \in Stages
    BY DEF LInv, Typed, Loaded
  <1>3. /\ stage[p] \in DOMAIN target' => Whole(target'[stage[p]], stage[p])
        /\ \A s \in Stages : s \in DOMAIN previous' => Whole(previous'[s], s)
        /\ stage[p] # "canonical" /\ Undisturbed(stage[p]) /\ stage[p] \in DOMAIN target'
               => Derived(target'[stage[p]], stage[p])
    BY <1>1, <1>2 DEF LInv, Typed, AllDerived
  <1>4. (Typed /\ BesideKnown /\ Faithfully /\ AllDerived)'
    BY <1>1, <1>3, OwnStep DEF LInv
  <1>5. OnePrivate'
    BY <1>1, PrivateUntouched DEF LInv
  <1>6. QED
    BY <1>1, <1>4, <1>5 DEF LInv, Durable

\* Hashing an input: what is hashed is what is published.
LEMMA Hashes ==
    ASSUME LInv, Controlled, NEW p \in Publishers, HashInput(p)
    PROVE  LInv' /\ \A s \in Stages \ {"canonical"} : Durable(s)
  <1> DEFINE s == stage[p]
             l == load[p]
             i == Head(l.todo)
             h == Put(l.hashed, i, target[i])
             next == IF i = "drafts" THEN "verify" ELSE "read"
  <1>1. /\ pc[p] = "hash" /\ Hashable(p, i) /\ UNCHANGED disk /\ Goes(p, next)
        /\ load' = [load EXCEPT ![p].hashed = Put(l.hashed, i, target[i])]
    BY DEF HashInput
  <1>2. Busy(p) /\ Loaded(p)
    BY <1>1 DEF LInv, Typed, Busy
  <1>3. Continues(p) /\ beside' = beside /\ pc'[p] = next /\ stage'[p] = s
    BY <1>1, Going DEF Goes
  <1>4. /\ load' = [load EXCEPT ![p] = load'[p]]
        /\ load'[p] = [todo |-> l.todo, hashed |-> h, read |-> l.read]
        /\ load'[p].todo = l.todo /\ load'[p].hashed = h /\ load'[p].read = l.read
    <2>1. load' = [load EXCEPT ![p].hashed = h]
      BY <1>1
    <2> HIDE DEF h
    <2>2. Typed
      BY DEF LInv
    <2>3. QED
      BY <1>2, <2>1, <2>2, HashedChanges
  <1>5. /\ s \in Stages /\ l.todo # <<>>
        /\ l.todo = InputsOf[s] \/ (s = "drafts" /\ l.todo = <<"features">>)
        /\ DOMAIN l.hashed = Inputs(s) \ Names(l.todo)
        /\ s # "canonical" /\ DOMAIN l.read = Inputs(s) \ Names(l.todo)
    BY <1>1, <1>2 DEF Loaded, Loading, Replacing
  <1>6. /\ i \in Names(l.todo) /\ Names(l.todo) \subseteq Inputs(s)
        /\ s \in {"aggregates", "backtest"} => i = "drafts"
        /\ s = "drafts" => "features" \in Names(l.todo)
    BY <1>5, NextInput
  <1>7. DOMAIN h = DOMAIN l.hashed \cup {i} /\ h[i] = target[i]
            /\ \A j \in DOMAIN l.hashed \ {i} : h[j] = l.hashed[j]
    <2>1. DOMAIN h = DOMAIN l.hashed \cup {i}
      BY PutDomain
    <2>2. QED
      BY <2>1, PutValue
  <1>8. Loaded(p)'
    <2>1. /\ DOMAIN h = (Inputs(s) \ Names(l.todo)) \cup {i}
          /\ next \in {"verify", "read"} /\ (next = "verify" => i = "drafts")
      BY <1>5, <1>7
    <2> HIDE DEF h, next
    <2>2. QED
      BY <1>3, <1>4, <1>5, <2>1 DEF Loaded, Loading, Places
  <1>9. ASSUME Undisturbed(s) PROVE Faithful(p)'
    <2>1. Faithful(p)
      BY <1>2, <1>5, <1>9 DEF LInv, Faithfully
    <2>2. i \in DOMAIN target /\ (s = "topLane" => target[i] = Sealed) /\ target' = target
      BY <1>1 DEF Hashable, disk
    <2>3. \A j \in DOMAIN h : j \in DOMAIN target /\ target[j] = h[j]
      BY <1>7, <2>1, <2>2 DEF Faithful
    <2>4. l.read = [j \in DOMAIN l.read |-> h[j].rows]
      <3>1. l.read = [j \in DOMAIN l.read |-> l.hashed[j].rows]
        BY <2>1 DEF Faithful
      <3>2. \A j \in DOMAIN l.read : h[j] = l.hashed[j]
        BY <1>5, <1>6, <1>7
      <3> HIDE DEF h
      <3>3. QED
        BY <3>1, <3>2
    <2>5. s = "topLane" => \A j \in DOMAIN h : h[j] = Sealed
      BY <1>7, <2>1, <2>2 DEF Faithful
    <2>6. /\ pc'[p] \in {"verify", "read"}
          /\ s \in {"aggregates", "backtest"} => pc'[p] = "verify"
          /\ s = "drafts" => "features" \notin DOMAIN l.read
      BY <1>3, <1>5, <1>6
    <2> HIDE DEF h, next
    <2>7. QED
      BY <1>3, <1>4, <2>2, <2>3, <2>4, <2>5, <2>6 DEF Faithful, Replacing
  <1>10. next # "publishAggregate"
    OBVIOUS
  <1>11. QED
    BY <1>1, <1>2, <1>3, <1>4, <1>8, <1>9, <1>10, QuietStep

\* Verifying the priors grounds them.
LEMMA Verifies ==
    ASSUME LInv, Controlled, NEW p \in Publishers, VerifyPriors(p)
    PROVE  LInv' /\ \A s \in Stages \ {"canonical"} : Durable(s)
  <1> DEFINE s == stage[p]
             l == load[p]
  <1>1. /\ pc[p] = "verify" /\ PriorsVerified(l.hashed["drafts"]) /\ Goes(p, "read")
        /\ target' = target /\ previous' = previous /\ load' = load
    BY DEF VerifyPriors, disk
  <1>2. Busy(p) /\ Loaded(p)
    BY <1>1 DEF LInv, Typed, Busy
  <1>3. Continues(p) /\ beside' = beside /\ pc'[p] = "read" /\ stage'[p] = s
    BY <1>1, Going DEF Goes
  <1>4. load' = [load EXCEPT ![p] = load'[p]] /\ load'[p] = l
    BY <1>1 DEF LInv, Typed
  <1>5. /\ s \in Stages /\ l.todo # <<>> /\ Head(l.todo) = "drafts"
        /\ l.todo = InputsOf[s] \/ (s = "drafts" /\ l.todo = <<"features">>)
        /\ DOMAIN l.hashed = (Inputs(s) \ Names(l.todo)) \cup {"drafts"}
        /\ DOMAIN l.read = Inputs(s) \ Names(l.todo)
    BY <1>1, <1>2 DEF Loaded, Loading, Replacing
  <1>6. Loaded(p)'
    BY <1>1, <1>2, <1>3, <1>4 DEF Loaded, Loading, Places, Replacing
  <1>7. ASSUME s # "canonical", Undisturbed(s) PROVE Faithful(p)'
    <2>1. Faithful(p)
      BY <1>2, <1>7 DEF LInv, Faithfully
    <2>2. Grounded(l.hashed["drafts"])
      <3>1. target["drafts"] = l.hashed["drafts"]
        BY <1>5, <2>1 DEF Faithful
      <3>2. QED
        BY <1>1, <3>1 DEF PriorsVerified, Grounded
    <2>3. "features" \notin DOMAIN l.read \/ s # "drafts"
      BY <1>5, NextInput
    <2>4. QED
      BY <1>1, <1>3, <1>4, <2>1, <2>2, <2>3 DEF Faithful, Replacing, Grounded
  <1>8. QED
    BY <1>1, <1>2, <1>3, <1>4, <1>6, <1>7, QuietStep DEF disk

\* Reading an input: what is read is what was hashed.
LEMMA Reads ==
    ASSUME LInv, Controlled, NEW p \in Publishers, ReadInput(p)
    PROVE  LInv' /\ \A s \in Stages \ {"canonical"} : Durable(s)
  <1> DEFINE s == stage[p]
             l == load[p]
             i == Head(l.todo)
             rest == Tail(l.todo)
             r == Put(l.read, i, target[i].rows)
             next == IF rest = <<>> THEN "lineage" ELSE "hash"
  <1>1. /\ pc[p] = "read" /\ Readable(p, i) /\ UNCHANGED disk /\ Goes(p, next)
        /\ load' = [load EXCEPT ![p].read = Put(l.read, i, target[i].rows), ![p].todo = rest]
    BY DEF ReadInput
  <1>2. Busy(p) /\ Loaded(p)
    BY <1>1 DEF LInv, Typed, Busy
  <1>3. Continues(p) /\ beside' = beside /\ pc'[p] = next /\ stage'[p] = s
    BY <1>1, Going DEF Goes
  <1>4. /\ load' = [load EXCEPT ![p] = load'[p]]
        /\ load'[p] = [todo |-> rest, hashed |-> l.hashed, read |-> r]
        /\ load'[p].todo = rest /\ load'[p].hashed = l.hashed /\ load'[p].read = r
    <2>1. load' = [load EXCEPT ![p].read = r, ![p].todo = rest]
      BY <1>1
    <2> HIDE DEF r, rest
    <2>2. Typed
      BY DEF LInv
    <2>3. QED
      BY <1>2, <2>1, <2>2, ReadChanges
  <1>5. /\ s \in Stages /\ l.todo # <<>>
        /\ l.todo = InputsOf[s] \/ (s = "drafts" /\ l.todo = <<"features">>)
        /\ DOMAIN l.hashed = (Inputs(s) \ Names(l.todo)) \cup {i}
        /\ s # "canonical" /\ DOMAIN l.read = Inputs(s) \ Names(l.todo)
    BY <1>1, <1>2 DEF Loaded, Loading, Replacing
  <1>6. /\ i \in Names(l.todo) /\ Names(l.todo) \subseteq Inputs(s)
        /\ Names(rest) = Names(l.todo) \ {i}
        /\ rest = <<>> \/ (s = "drafts" /\ rest = <<"features">>)
    BY <1>5, NextInput
  <1>7. DOMAIN r = DOMAIN l.read \cup {i} /\ r[i] = target[i].rows
            /\ \A j \in DOMAIN l.read \ {i} : r[j] = l.read[j]
    <2>1. DOMAIN r = DOMAIN l.read \cup {i}
      BY PutDomain
    <2>2. QED
      BY <2>1, PutValue
  <1>8. Loaded(p)'
    <2>1. DOMAIN r = Inputs(s) \ Names(rest) /\ DOMAIN l.hashed = Inputs(s) \ Names(rest)
      BY <1>5, <1>6, <1>7
    <2>2. next \notin {"verify", "read", "publishPrivate", "publishAggregate"}
              /\ next \in Places /\ (next \in Loading <=> rest # <<>>)
              /\ next \in Loading \cup {"lineage"}
      BY DEF Loading, Places
    <2> HIDE DEF r, rest, next
    <2>3. QED
      BY <1>3, <1>4, <1>5, <1>6, <2>1, <2>2 DEF Loaded
  <1>9. ASSUME Undisturbed(s) PROVE Faithful(p)'
    <2>1. Faithful(p)
      BY <1>2, <1>5, <1>9 DEF LInv, Faithfully
    <2>2. i \in DOMAIN l.hashed /\ target[i] = l.hashed[i] /\ target' = target
      BY <1>1, <1>5, <2>1 DEF Faithful, disk
    <2>3. r = [j \in DOMAIN r |-> l.hashed[j].rows]
      <3>1. \A j \in DOMAIN r : r[j] = l.hashed[j].rows
        BY <1>7, <2>1, <2>2 DEF Faithful
      <3>2. QED
        BY <3>1 DEF Put
    <2>4. s = "drafts" /\ "features" \in DOMAIN r =>
              l.hashed["features"].inputs["canonical"] = l.hashed["canonical"]
      BY <1>1, <1>7, <2>1, <2>2 DEF Faithful, Readable
    <2>5. s \in {"aggregates", "backtest"} => Grounded(load[p].hashed["drafts"])'
      <3>1. s \in {"aggregates", "backtest"} => Grounded(l.hashed["drafts"])
        BY <1>1, <2>1 DEF Faithful
      <3>2. QED
        BY <1>4, <2>2, <3>1 DEF Grounded
    <2>6. next \notin {"compare", "retire"} \cup Replacing
      BY DEF Replacing
    <2> HIDE DEF r, rest, next
    <2>7. QED
      BY <1>3, <1>4, <2>1, <2>2, <2>3, <2>4, <2>5, <2>6 DEF Faithful
  <1>10. next # "publishAggregate"
    OBVIOUS
  <1>11. QED
    BY <1>1, <1>2, <1>3, <1>4, <1>8, <1>9, <1>10, QuietStep

\* Leaves forgets what the process has loaded.
LEMMA Forgetting ==
    ASSUME Controlled, Typed, NEW p \in Publishers, Leaves(p)
    PROVE  /\ Continues(p) /\ pc'[p] = "idle" /\ ~Busy(p)' /\ beside' = beside
           /\ load' = [load EXCEPT ![p] = load'[p]]
  BY Leaving DEF Controlled, Leaves, Ends, Typed, Busy

\* A step that only moves the process within its stage.
LEMMA Moving ==
    ASSUME LInv, Controlled, NEW p \in Publishers, Busy(p), NEW next \in Places,
           Goes(p, next), load' = load
    PROVE  /\ Continues(p) /\ pc'[p] = next /\ Busy(p)' /\ beside' = beside
           /\ load' = [load EXCEPT ![p] = load'[p]] /\ load'[p] = load[p]
           /\ stage'[p] = stage[p]
  <1>1. next # "idle"
    BY DEF Places, Loading, Replacing
  <1>2. QED
    BY <1>1, Going DEF Goes, LInv, Typed, Busy

\* What is loaded stays loaded while the process moves on to a later place.
LEMMA StaysLoaded ==
    ASSUME LInv, NEW p \in Publishers, Busy(p), NEW next,
           pc[p] \notin Loading, pc'[p] = next, load'[p] = load[p], stage'[p] = stage[p],
           next \in IF stage[p] = "topLane" THEN {"publishPrivate", "publishAggregate"}
                    ELSE IF stage[p] = "canonical" THEN Replacing \cup {"retire", "place"}
                    ELSE Replacing \cup {"compare", "retire", "place"}
    PROVE  Loaded(p)'
  <1>1. Loaded(p)
    BY DEF LInv, Typed
  <1>2. /\ stage[p] = "topLane" => next \in {"publishPrivate", "publishAggregate"}
        /\ stage[p] = "canonical" => next \in Replacing \cup {"retire", "place"}
        /\ next \in {"publishPrivate", "publishAggregate"} => stage[p] = "topLane"
        /\ next \in Places \ Loading
    BY DEF Places, Loading, Replacing
  <1>3. QED
    BY <1>1, <1>2 DEF Loaded, Loading

\* What a process has when it has loaded everything.
LEMMA LoadedAll ==
    ASSUME LInv, NEW p \in Publishers, Busy(p), pc[p] \notin Loading
    PROVE  /\ stage[p] \in Stages /\ DOMAIN load[p].hashed = Inputs(stage[p])
           /\ stage[p] # "canonical" => DOMAIN load[p].read = Inputs(stage[p])
           /\ Whole(Staged(p), stage[p])
  <1>1. Loaded(p) /\ Names(load[p].todo) = {}
    BY ListedNames DEF LInv, Typed, Loaded
  <1>2. QED
    BY <1>1 DEF Loaded, Whole, Staged, Directory, Loading

\* The rows that an undisturbed process has staged are those of the inputs it names.
LEMMA StagedIsDerived ==
    ASSUME LInv, NEW p \in Publishers, Busy(p), pc[p] \notin Loading,
           stage[p] # "canonical", Undisturbed(stage[p])
    PROVE  Derived(Staged(p), stage[p]) /\ Faithful(p)
  <1>1. Faithful(p)
    BY DEF LInv, Faithfully
  <1>2. Staged(p).rows = load[p].read /\ Staged(p).inputs = load[p].hashed
    BY DEF Staged, Directory
  <1>3. QED
    BY <1>1, <1>2, LoadedAll, InputSets DEF Faithful, Derived

\* Comparing the lineage: a directory that is there names the same inputs.
LEMMA Checks ==
    ASSUME LInv, Controlled, NEW p \in Publishers, CheckLineage(p)
    PROVE  LInv' /\ \A s \in Stages \ {"canonical"} : Durable(s)
  <1> DEFINE next == IF stage[p] = "topLane" THEN "publishPrivate" ELSE "compare"
  <1>1. /\ pc[p] = "lineage" /\ SameLineage(p) /\ Goes(p, next)
        /\ UNCHANGED disk /\ load' = load
    BY DEF CheckLineage
  <1>2. Busy(p) /\ Loaded(p)
    BY <1>1 DEF LInv, Typed, Busy
  <1>3. next \in Places /\ next # "publishAggregate" /\ next \notin {"retire"} \cup Replacing
    BY DEF Places, Replacing
  <1>4. /\ Continues(p) /\ pc'[p] = next /\ Busy(p)' /\ beside' = beside
        /\ load' = [load EXCEPT ![p] = load'[p]] /\ load'[p] = load[p]
        /\ stage'[p] = stage[p]
    BY <1>1, <1>2, <1>3, Moving
  <1>5. stage[p] # "canonical"
    BY <1>1, <1>2 DEF Loaded, Replacing
  <1>6. Loaded(p)'
    BY <1>1, <1>2, <1>4, <1>5, StaysLoaded DEF Loading
  <1>7. ASSUME Undisturbed(stage[p]) PROVE Faithful(p)'
    <2>1. Faithful(p)
      BY <1>2, <1>5, <1>7 DEF LInv, Faithfully
    <2>2. stage[p] # "topLane" /\ stage[p] \in DOMAIN target =>
              target[stage[p]].inputs = load[p].hashed
      BY <1>1 DEF SameLineage
    <2>3. target' = target
      BY <1>1 DEF disk
    <2>4. next = "compare" => stage[p] # "topLane"
      OBVIOUS
    <2> HIDE DEF next
    <2>5. QED
      BY <1>1, <1>3, <1>4, <2>1, <2>2, <2>3, <2>4 DEF Faithful, Grounded
  <1>8. QED
    BY <1>1, <1>2, <1>3, <1>4, <1>6, <1>7, QuietStep

\* A process that ends without touching a directory.
LEMMA QuietEnd ==
    ASSUME LInv, Controlled, NEW p \in Publishers, Busy(p), Leaves(p), UNCHANGED disk,
           pc[p] # "publishAggregate"
    PROVE  LInv' /\ \A s \in Stages \ {"canonical"} : Durable(s)
  <1>1. /\ Continues(p) /\ pc'[p] = "idle" /\ ~Busy(p)' /\ beside' = beside
        /\ load' = [load EXCEPT ![p] = load'[p]]
    BY Forgetting DEF LInv
  <1>2. QED
    BY <1>1, QuietStep

\* Each step in which inputs are loaded.
LEMMA LoadsKeepLineage ==
    ASSUME LInv, Controlled, NEW p \in Publishers, Load(p)
    PROVE  LInv' /\ \A s \in Stages \ {"canonical"} : Durable(s)
  <1>1. CASE Refuse(p)
    <2>1. Busy(p) /\ Leaves(p) /\ UNCHANGED disk /\ pc[p] # "publishAggregate"
      BY <1>1, Zenon DEF Refuse, Busy
    <2>2. QED
      BY <2>1, QuietEnd
  <1>2. QED
    BY <1>1, Hashes, Verifies, Reads, Checks DEF Load

-----------------------------------------------------------------------------
\* An undisturbed later stage that compares and differs has nothing published.
LEMMA Compares ==
    ASSUME LInv, Controlled, NEW p \in Publishers, Unchanged(p) \/ Differs(p)
    PROVE  LInv' /\ \A s \in Stages \ {"canonical"} : Durable(s)
  <1> DEFINE s == stage[p]
  <1>1. pc[p] = "compare" /\ UNCHANGED disk /\ Busy(p) /\ pc[p] # "publishAggregate"
    BY DEF Unchanged, Differs, Busy
  <1>2. CASE Leaves(p)
    BY <1>1, <1>2, QuietEnd
  <1>3. ASSUME NEW next \in {"retire", "place"}, Goes(p, next), load' = load, Differs(p)
        PROVE  LInv' /\ \A t \in Stages \ {"canonical"} : Durable(t)
    <2>1. next \in Places /\ next # "publishAggregate"
              /\ next \notin {"hash", "verify", "compare"} \cup Replacing
      BY DEF Places, Replacing
    <2>2. /\ Continues(p) /\ pc'[p] = next /\ Busy(p)' /\ beside' = beside
          /\ load' = [load EXCEPT ![p] = load'[p]] /\ load'[p] = load[p]
          /\ stage'[p] = s
      BY <1>1, <1>3, <2>1, Moving
    <2>3. s # "topLane"
      BY <1>1 DEF LInv, Typed, Loaded, Loading
    <2>4. Loaded(p)'
      BY <1>1, <2>2, <2>3, StaysLoaded DEF Loading
    <2>5. ASSUME s # "canonical", Undisturbed(s) PROVE Faithful(p)'
      <3>1. Derived(Staged(p), s) /\ Faithful(p)
        BY <1>1, <2>5, StagedIsDerived DEF Loading
      <3>2. s \notin DOMAIN target
        <4> SUFFICES ASSUME s \in DOMAIN target PROVE FALSE
          OBVIOUS
        <4>1. s \in Stages
          BY <1>1, LoadedAll DEF Loading
        <4>2. target[s] = Directory(target[s].rows, target[s].inputs)
          BY <4>1 DEF LInv, Typed, Whole
        <4>3. target[s].inputs = load[p].hashed
          BY <1>1, <3>1 DEF Faithful
        <4>4. target[s].rows = Staged(p).rows
          <5>1. Derived(target[s], s)
            BY <2>5, <4>1 DEF LInv, AllDerived
          <5>2. Staged(p).inputs = load[p].hashed
            BY DEF Staged, Directory
          <5>3. QED
            BY <3>1, <4>3, <5>1, <5>2 DEF Derived
        <4>5. target[s] = Staged(p)
          BY <4>2, <4>3, <4>4 DEF Staged, Directory
        <4>6. QED
          BY <1>3, <4>5 DEF Differs
      <3>3. target' = target
        BY <1>1 DEF disk
      <3>4. QED
        BY <1>1, <2>1, <2>2, <3>1, <3>2, <3>3 DEF Faithful, Grounded
    <2>6. QED
      BY <1>1, <2>1, <2>2, <2>4, <2>5, QuietStep
  <1>4. QED
    BY <1>2, <1>3 DEF Unchanged, Differs

\* Of the steps that replace a directory, an undisturbed later stage takes only the one
\* that finds none to replace.
LEMMA NothingReplaced ==
    ASSUME LInv, NEW p \in Publishers, Busy(p), stage[p] # "canonical", Undisturbed(stage[p])
    PROVE  pc[p] \notin Replacing /\ (pc[p] = "retire" => stage[p] \notin DOMAIN target)
  BY DEF LInv, Faithfully, Faithful

\* The step that removes an old .previous directory.
LEMMA Retires ==
    ASSUME LInv, Controlled, NEW p \in Publishers, Retire(p)
    PROVE  LInv' /\ \A s \in Stages \ {"canonical"} : Durable(s)
  <1> DEFINE s == stage[p]
  <1>1. pc[p] = "retire" /\ target' = target /\ load' = load /\ Busy(p)
    BY DEF Retire, Busy
  <1>2. PICK next \in {"moveAside", "place"} :
            /\ Goes(p, next) /\ (next = "moveAside" => s \in DOMAIN target)
            /\ previous' = previous \/ previous' = Without(previous, s)
    BY DEF Retire
  <1>3. next \in Places /\ next # "publishAggregate"
            /\ next \notin {"hash", "verify", "compare", "retire"}
    BY DEF Places, Replacing
  <1>4. /\ Continues(p) /\ pc'[p] = next /\ Busy(p)' /\ beside' = beside
        /\ load' = [load EXCEPT ![p] = load'[p]] /\ load'[p] = load[p]
        /\ stage'[p] = s
    BY <1>1, <1>2, <1>3, Moving
  <1>5. s # "topLane" /\ s \in Stages
    BY <1>1 DEF LInv, Typed, Loaded, Loading
  <1>6. Loaded(p)'
    BY <1>1, <1>4, <1>5, StaysLoaded DEF Loading, Replacing
  <1>7. ASSUME s # "canonical", Undisturbed(s) PROVE Faithful(p)'
    <2>1. Faithful(p) /\ next \notin Replacing
      BY <1>1, <1>2, <1>7, NothingReplaced DEF LInv, Faithfully, Replacing
    <2>2. QED
      BY <1>1, <1>3, <1>4, <2>1 DEF Faithful, Grounded
  <1>8. Apart(p) /\ \A t \in Stages \ {"canonical"} : Durable(t)
    BY <1>1 DEF Apart, Durable
  <1>9. \A t \in Stages : t \in DOMAIN previous' => Whole(previous'[t], t)
    <2>1. \A t \in DOMAIN previous' : t \in DOMAIN previous /\ previous'[t] = previous[t]
      <3>1. CASE previous' = previous
        BY <3>1
      <3>2. CASE previous' = Without(previous, s)
        BY <3>2 DEF Without
      <3>3. QED
        BY <1>2, <3>1, <3>2
    <2>2. QED
      BY <2>1 DEF LInv, Typed
  <1>10. /\ s \in DOMAIN target' => Whole(target'[s], s)
         /\ s # "canonical" /\ Undisturbed(s) /\ s \in DOMAIN target' => Derived(target'[s], s)
    BY <1>1, <1>5 DEF LInv, Typed, AllDerived
  <1>11. (Typed /\ BesideKnown /\ Faithfully /\ AllDerived)'
    BY <1>1, <1>4, <1>6, <1>7, <1>8, <1>9, <1>10, OwnStep DEF LInv
  <1>12. OnePrivate'
    BY <1>1, <1>3, <1>4, PrivateUntouched DEF LInv
  <1>13. QED
    BY <1>8, <1>11, <1>12 DEF LInv

\* The replacing steps themselves belong to stage 3.1 or to a stage that ran beside
\* another: they only have to leave whole directories.
LEMMA Replaces ==
    ASSUME LInv, Controlled, NEW p \in Publishers, pc[p] \in Replacing,
           Continues(p), beside' = beside, load' = [load EXCEPT ![p] = load'[p]],
           pc'[p] \in Replacing \cup {"idle"},
           Busy(p)' => load'[p] = load[p] /\ stage'[p] = stage[p],
           NEW d, d \in {Staged(p)} \cup {target[t] : t \in {stage[p]} \cap DOMAIN target}
                        \cup {previous[t] : t \in {stage[p]} \cap DOMAIN previous},
           \/ target' = target \/ target' = Put(target, stage[p], d)
           \/ target' = Without(target, stage[p]),
           \/ previous' = previous \/ previous' = Put(previous, stage[p], d)
           \/ previous' = Without(previous, stage[p])
    PROVE  LInv' /\ \A s \in Stages \ {"canonical"} : Durable(s)
  <1> DEFINE s == stage[p]
  <1>1. Busy(p) /\ pc[p] \notin Loading /\ pc[p] # "publishAggregate"
            /\ pc'[p] # "publishAggregate"
    BY DEF Busy, Replacing, Loading
  <1>2. s = "canonical" \/ ~Undisturbed(s)
    BY <1>1, NothingReplaced
  <1>3. s \in Stages /\ Whole(Staged(p), s) /\ s # "topLane"
    BY <1>1, LoadedAll DEF LInv, Typed, Loaded, Loading, Replacing
  <1>4. Whole(d, s)
    BY <1>3 DEF LInv, Typed
  <1>5. Busy(p)' => Loaded(p)'
    BY <1>1, <1>3, StaysLoaded DEF Busy
  <1>t. /\ \A t : t # s => /\ t \in DOMAIN target' <=> t \in DOMAIN target
                           /\ t \in DOMAIN target => target'[t] = target[t]
        /\ s \in DOMAIN target' =>
              (s \in DOMAIN target /\ target'[s] = target[s]) \/ target'[s] = d
    <2> HIDE DEF s
    <2>1. CASE target' = target
      BY <2>1
    <2>2. CASE target' = Put(target, s, d)
      BY <2>2 DEF Put
    <2>3. CASE target' = Without(target, s)
      BY <2>3 DEF Without
    <2>4. QED
      BY <2>1, <2>2, <2>3 DEF s
  <1>v. /\ \A t : t # s => /\ t \in DOMAIN previous' <=> t \in DOMAIN previous
                           /\ t \in DOMAIN previous => previous'[t] = previous[t]
        /\ s \in DOMAIN previous' =>
              (s \in DOMAIN previous /\ previous'[s] = previous[s]) \/ previous'[s] = d
    <2> HIDE DEF s
    <2>1. CASE previous' = previous
      BY <2>1
    <2>2. CASE previous' = Put(previous, s, d)
      BY <2>2 DEF Put
    <2>3. CASE previous' = Without(previous, s)
      BY <2>3 DEF Without
    <2>4. QED
      BY <2>1, <2>2, <2>3 DEF s
  <1>6. Apart(p)
    BY <1>t DEF Apart
  <1>7. \A t \in Stages \ {"canonical"} : Durable(t)
    BY <1>2, <1>6, OwnDurable DEF Durable
  <1>8. \A t \in Stages : t \in DOMAIN previous' => Whole(previous'[t], t)
    BY <1>4, <1>v DEF LInv, Typed
  <1>9. s \in DOMAIN target' => Whole(target'[s], s)
    BY <1>3, <1>4, <1>t DEF LInv, Typed
  <1>10. (Typed /\ BesideKnown /\ Faithfully /\ AllDerived)'
    BY <1>1, <1>2, <1>5, <1>6, <1>8, <1>9, OwnStep DEF LInv
  <1>11. \A t \in {"topLane", "topLanePrivate"} :
            /\ t \in DOMAIN target' <=> t \in DOMAIN target
            /\ t \in DOMAIN target => target'[t] = target[t]
    <2>1. s # "topLanePrivate"
      BY <1>3, InputSets
    <2>2. QED
      BY <1>3, <1>t, <2>1
  <1>12. OnePrivate'
    BY <1>1, <1>11, PrivateUntouched DEF LInv
  <1>13. QED
    BY <1>7, <1>10, <1>12 DEF LInv

\* The four steps that replace a directory.
LEMMA Replacements ==
    ASSUME LInv, Controlled, NEW p \in Publishers,
           MoveAside(p) \/ PlaceOver(p) \/ PlaceFails(p) \/ Discard(p)
    PROVE  LInv' /\ \A s \in Stages \ {"canonical"} : Durable(s)
  <1> DEFINE s == stage[p]
  <1>1. pc[p] \in Replacing /\ Busy(p)
    BY DEF MoveAside, PlaceOver, PlaceFails, Discard, Replacing, Busy
  <1>2. \/ Leaves(p)
        \/ load' = load /\ \E next \in Replacing : Goes(p, next)
    BY DEF MoveAside, PlaceOver, PlaceFails, Discard, Replacing
  <1>3. /\ Continues(p) /\ beside' = beside /\ load' = [load EXCEPT ![p] = load'[p]]
        /\ pc'[p] \in Replacing \cup {"idle"}
        /\ Busy(p)' => load'[p] = load[p] /\ stage'[p] = s
    <2>1. CASE Leaves(p)
      BY <2>1, Forgetting DEF LInv
    <2>2. ASSUME NEW next \in Replacing, Goes(p, next), load' = load
          PROVE  /\ Continues(p) /\ beside' = beside /\ load' = [load EXCEPT ![p] = load'[p]]
                 /\ pc'[p] \in Replacing /\ load'[p] = load[p] /\ stage'[p] = s
      <3>1. next \in Places
        BY DEF Places
      <3>2. QED
        BY <1>1, <2>2, <3>1, Moving
    <2>3. QED
      BY <1>2, <2>1, <2>2
  <1>4. CASE MoveAside(p)
    <2>1. CASE s \in DOMAIN target \ DOMAIN previous
      <3>1. previous' = Put(previous, s, target[s]) /\ target' = Without(target, s)
        BY <1>4, <2>1 DEF MoveAside
      <3>2. QED
        BY <1>1, <1>3, <2>1, <3>1, Replaces
    <2>2. CASE s \notin DOMAIN target \ DOMAIN previous
      <3>1. previous' = previous /\ target' = target
        BY <1>4, <2>2 DEF MoveAside, disk
      <3>2. QED
        BY <1>1, <1>3, <3>1, Replaces
    <2>3. QED
      BY <2>1, <2>2
  <1>5. CASE PlaceOver(p)
    <2>1. target' = Put(target, s, Staged(p)) /\ previous' = previous
      BY <1>5 DEF PlaceOver
    <2>2. QED
      BY <1>1, <1>3, <2>1, Replaces
  <1>6. CASE PlaceFails(p)
    <2>1. CASE s \in DOMAIN previous \ DOMAIN target
      <3>1. target' = Put(target, s, previous[s]) /\ previous' = Without(previous, s)
        BY <1>6, <2>1 DEF PlaceFails
      <3>2. QED
        BY <1>1, <1>3, <2>1, <3>1, Replaces
    <2>2. CASE s \notin DOMAIN previous \ DOMAIN target
      <3>1. previous' = previous /\ target' = target
        BY <1>6, <2>2 DEF PlaceFails, disk
      <3>2. QED
        BY <1>1, <1>3, <3>1, Replaces
    <2>3. QED
      BY <2>1, <2>2
  <1>7. CASE Discard(p)
    <2>1. previous' = Without(previous, s) /\ target' = target
      BY <1>7 DEF Discard
    <2>2. QED
      BY <1>1, <1>3, <2>1, Replaces
  <1>8. QED
    BY <1>4, <1>5, <1>6, <1>7

\* What an undisturbed stage publishes is current: it names what is published, and so do
\* the directories it names.
LEMMA StagedIsCurrent ==
    ASSUME LInv, NEW p \in Publishers, Busy(p), pc[p] \notin Loading,
           stage[p] # "canonical", Undisturbed(stage[p]),
           target'[stage[p]] = Staged(p)
    PROVE  Current(stage[p])
  <1> DEFINE s == stage[p]
             l == load[p]
  <1>1. Faithful(p) /\ s \in Stages /\ DOMAIN l.hashed = Inputs(s)
    BY LoadedAll, StagedIsDerived
  <1>2. target'[s].inputs = l.hashed
    BY DEF Staged, Directory
  <1>3. \A i \in DOMAIN l.hashed : i \in DOMAIN target /\ target[i] = l.hashed[i]
    BY <1>1 DEF Faithful
  <1>4. \A i \in Inputs(s) : Grounded(target[i])
    <2>1. "canonical" \in DOMAIN target => Grounded(target["canonical"])
      BY InputSets DEF LInv, Typed, Whole, Grounded
    <2>2. CASE s \in {"features", "topLane"}
      BY <1>1, <1>3, <2>1, <2>2, InputSets
    <2>3. CASE s = "drafts"
      <3>1. Inputs(s) = {"canonical", "features"}
        BY <2>3, InputSets
      <3>2. l.hashed["features"].inputs["canonical"] = l.hashed["canonical"]
        <4>1. DOMAIN l.read = Inputs(s)
          BY <2>3, LoadedAll
        <4>2. QED
          BY <1>1, <2>3, <3>1, <4>1 DEF Faithful
      <3>3. DOMAIN target["features"].inputs = {"canonical"}
        BY <1>1, <1>3, <3>1, InputSets DEF LInv, Typed, Whole
      <3>4. Grounded(target["features"])
        BY <1>1, <1>3, <3>1, <3>2, <3>3 DEF Grounded
      <3>5. QED
        BY <1>1, <1>3, <2>1, <3>1, <3>4
    <2>4. CASE s \in {"aggregates", "backtest"}
      <3>1. Inputs(s) = {"drafts"}
        BY <2>4, InputSets
      <3>2. Grounded(l.hashed["drafts"])
        BY <1>1, <2>4 DEF Faithful, Loading
      <3>3. QED
        BY <1>1, <1>3, <3>1, <3>2
    <2>5. QED
      BY <1>1, <2>2, <2>3, <2>4, InputSets
  <1>5. QED
    BY <1>1, <1>2, <1>3, <1>4 DEF Current, Grounded

\* The first publication of a stage, and every one of a backtest.
LEMMA FirstPublication ==
    ASSUME LInv, Controlled, NEW p \in Publishers, Place(p)
    PROVE  LInv' /\ \A s \in Stages \ {"canonical"} : Durable(s)
  <1> DEFINE s == stage[p]
  <1>1. pc[p] = "place" /\ Busy(p) /\ previous' = previous /\ Leaves(p)
            /\ pc[p] \notin Loading /\ pc[p] # "publishAggregate"
    BY DEF Place, Busy, Loading
  <1>2. CASE target' = target
    BY <1>1, <1>2, QuietEnd DEF disk
  <1>3. CASE s \notin DOMAIN target /\ target' = Put(target, s, Staged(p))
    <2>1. /\ Continues(p) /\ pc'[p] = "idle" /\ ~Busy(p)' /\ beside' = beside
          /\ load' = [load EXCEPT ![p] = load'[p]]
      BY <1>1, Forgetting DEF LInv
    <2>2. s \in Stages /\ Whole(Staged(p), s) /\ s # "topLane"
      BY <1>1, LoadedAll DEF LInv, Typed, Loaded
    <2>3. /\ target'[s] = Staged(p)
          /\ \A d : d # s => /\ d \in DOMAIN target' <=> d \in DOMAIN target
                             /\ d \in DOMAIN target => target'[d] = target[d]
      BY <1>3 DEF Put
    <2>4. Apart(p)
      BY <2>3 DEF Apart
    <2>5. s # "canonical" /\ Undisturbed(s) => Derived(target'[s], s) /\ Current(s)
      BY <1>1, <2>3, StagedIsDerived, StagedIsCurrent
    <2>6. (Typed /\ BesideKnown /\ Faithfully /\ AllDerived)'
      <3>1. \A t \in Stages : t \in DOMAIN previous' => Whole(previous'[t], t)
        BY <1>1 DEF LInv, Typed
      <3>2. QED
        BY <1>1, <2>1, <2>2, <2>3, <2>4, <2>5, <3>1, OwnStep DEF LInv
    <2>7. OnePrivate'
      <3>1. s # "topLanePrivate"
        BY <2>2, InputSets
      <3>2. pc'[p] # "publishAggregate"
        BY <2>1
      <3>3. QED
        BY <1>1, <2>1, <2>2, <2>3, <3>1, <3>2, PrivateUntouched DEF LInv
    <2>8. \A t \in Stages \ {"canonical"} : Durable(t)
      BY <1>3, <2>4, <2>5, OwnDurable DEF Durable
    <2>9. QED
      BY <2>6, <2>7, <2>8 DEF LInv
  <1>4. QED
    BY <1>2, <1>3 DEF Place

\* Stage 3.5A publishes its private rows and its aggregates next to each other.
LEMMA Privates ==
    ASSUME LInv, Controlled, NEW p \in Publishers, PublishPrivate(p)
    PROVE  LInv' /\ \A s \in Stages \ {"canonical"} : Durable(s)
  <1> DEFINE s == stage[p]
             d == "topLanePrivate"
  <1>1. pc[p] = "publishPrivate" /\ Busy(p) /\ previous' = previous
            /\ pc[p] \notin Loading /\ pc[p] # "publishAggregate"
    BY DEF PublishPrivate, Busy, Loading
  <1>2. s = "topLane" /\ s \in Stages /\ d \notin Stages
    BY <1>1, LoadedAll, InputSets DEF LInv, Typed, Loaded
  <1>3. CASE Leaves(p) /\ target' = target
    BY <1>1, <1>3, QuietEnd DEF disk
  <1>4. CASE /\ d \notin DOMAIN target /\ target' = Put(target, d, Staged(p))
             /\ Goes(p, "publishAggregate") /\ load' = load
    <2>1. /\ Continues(p) /\ pc'[p] = "publishAggregate" /\ Busy(p)' /\ beside' = beside
          /\ load' = [load EXCEPT ![p] = load'[p]] /\ load'[p] = load[p]
          /\ stage'[p] = s
      BY <1>1, <1>4, Moving DEF Places
    <2>2. /\ d \in DOMAIN target' /\ target'[d] = Staged(p)
          /\ \A t : t # d => /\ t \in DOMAIN target' <=> t \in DOMAIN target
                             /\ t \in DOMAIN target => target'[t] = target[t]
      BY <1>4 DEF Put
    <2>3. Apart(p) /\ \A t \in Stages \ {"canonical"} : Durable(t)
      BY <1>2, <2>2 DEF Apart, Durable
    <2>4. Loaded(p)'
      BY <1>1, <1>2, <2>1, StaysLoaded
    <2>5. ASSUME Undisturbed(s) PROVE Faithful(p)'
      <3>1. Faithful(p)
        BY <1>1, <1>2, <2>5 DEF LInv, Faithfully
      <3>2. DOMAIN load[p].hashed \subseteq Stages
        BY <1>1, <1>2, LoadedAll, InputSets
      <3>3. \A i \in DOMAIN load[p].hashed : i \in DOMAIN target' /\ target'[i] = load[p].hashed[i]
        BY <1>2, <2>2, <3>1, <3>2 DEF Faithful
      <3>4. QED
        BY <1>1, <1>2, <2>1, <3>1, <3>3 DEF Faithful, Replacing
    <2>6. (Typed /\ BesideKnown /\ Faithfully /\ AllDerived)'
      <3>1. \A t \in Stages : t \in DOMAIN previous' => Whole(previous'[t], t)
        BY <1>1 DEF LInv, Typed
      <3>2. /\ s \in DOMAIN target' => Whole(target'[s], s)
            /\ s # "canonical" /\ Undisturbed(s) /\ s \in DOMAIN target'
                   => Derived(target'[s], s)
        BY <1>2, <2>2 DEF LInv, Typed, AllDerived
      <3>3. QED
        BY <1>1, <2>1, <2>3, <2>4, <2>5, <3>1, <3>2, OwnStep DEF LInv
    <2>7. OnePrivate'
      <3>1. \A q \in Publishers \ {p} : pc'[q] = pc[q]
        BY <2>1 DEF Controlled, Continues
      <3>2. \A q \in Publishers : pc[q] # "publishAggregate"
        BY <1>4 DEF LInv, OnePrivate
      <3>3. "topLane" \notin DOMAIN target'
        BY <1>4, <2>2 DEF LInv, OnePrivate
      <3>4. Staged(p)' = Staged(p)
        BY <2>1 DEF Staged
      <3>5. QED
        BY <2>2, <3>1, <3>2, <3>3, <3>4 DEF OnePrivate
    <2>8. QED
      BY <2>3, <2>6, <2>7 DEF LInv
  <1>5. QED
    BY <1>3, <1>4 DEF PublishPrivate

\* The second publication follows the first one, or takes it back.
LEMMA Aggregates ==
    ASSUME LInv, Controlled, NEW p \in Publishers, PublishAggregate(p)
    PROVE  LInv' /\ \A s \in Stages \ {"canonical"} : Durable(s)
  <1> DEFINE s == stage[p]
             d == "topLanePrivate"
  <1>1. pc[p] = "publishAggregate" /\ Busy(p) /\ previous' = previous /\ Leaves(p)
            /\ pc[p] \notin Loading
    BY DEF PublishAggregate, Busy, Loading
  <1>2. s = "topLane" /\ s \in Stages /\ d \notin Stages /\ Whole(Staged(p), s)
    BY <1>1, LoadedAll, InputSets DEF LInv, Typed, Loaded
  <1>3. /\ Continues(p) /\ pc'[p] = "idle" /\ ~Busy(p)' /\ beside' = beside
        /\ load' = [load EXCEPT ![p] = load'[p]]
    BY <1>1, Forgetting DEF LInv
  <1>4. /\ d \in DOMAIN target /\ target[d] = Staged(p) /\ s \notin DOMAIN target
        /\ \A q \in Publishers : pc[q] = "publishAggregate" => q = p
    BY <1>1, <1>2 DEF LInv, OnePrivate
  <1>5. \A q \in Publishers : pc'[q] # "publishAggregate"
    BY <1>3, <1>4 DEF Controlled, Continues
  <1>6. \A t \in Stages : t \in DOMAIN previous' => Whole(previous'[t], t)
    BY <1>1 DEF LInv, Typed
  <1>7. CASE target' = Put(target, s, Staged(p))
    <2>1. /\ target'[s] = Staged(p) /\ s \in DOMAIN target'
          /\ \A t : t # s => /\ t \in DOMAIN target' <=> t \in DOMAIN target
                             /\ t \in DOMAIN target => target'[t] = target[t]
      BY <1>7 DEF Put
    <2>2. Apart(p)
      BY <2>1 DEF Apart
    <2>3. s # "canonical" /\ Undisturbed(s) => Derived(target'[s], s) /\ Current(s)
      BY <1>1, <2>1, StagedIsDerived, StagedIsCurrent
    <2>4. (Typed /\ BesideKnown /\ Faithfully /\ AllDerived)'
      BY <1>1, <1>2, <1>3, <1>6, <2>1, <2>2, <2>3, OwnStep DEF LInv
    <2>5. OnePrivate'
      BY <1>2, <1>4, <1>5, <2>1 DEF OnePrivate
    <2>6. \A t \in Stages \ {"canonical"} : Durable(t)
      BY <1>4, <2>2, <2>3, OwnDurable DEF Durable
    <2>7. QED
      BY <2>4, <2>5, <2>6 DEF LInv
  <1>8. CASE target' = Without(target, d)
    <2>1. \A t : t # d => /\ t \in DOMAIN target' <=> t \in DOMAIN target
                          /\ t \in DOMAIN target => target'[t] = target[t]
      BY <1>8 DEF Without
    <2>2. Apart(p) /\ s \notin DOMAIN target' /\ \A t \in Stages \ {"canonical"} : Durable(t)
      BY <1>2, <1>4, <2>1 DEF Apart, Durable
    <2>3. (Typed /\ BesideKnown /\ Faithfully /\ AllDerived)'
      BY <1>1, <1>3, <1>6, <2>2, OwnStep DEF LInv
    <2>4. OnePrivate'
      BY <1>2, <1>5, <2>2 DEF OnePrivate
    <2>5. QED
      BY <2>2, <2>3, <2>4 DEF LInv
  <1>9. QED
    BY <1>2, <1>7, <1>8 DEF PublishAggregate

\* A process that is killed leaves the directories as they are.
LEMMA Deaths ==
    ASSUME LInv, Controlled, NEW p \in Publishers, Dies(p)
    PROVE  LInv' /\ \A s \in Stages \ {"canonical"} : Durable(s)
  <1>1. /\ Busy(p) /\ target' = target /\ previous' = previous /\ beside' = beside
        /\ Ends(p)
    BY DEF Dies, disk
  <1>2. /\ Continues(p) /\ pc'[p] = "idle" /\ ~Busy(p)'
        /\ load' = [load EXCEPT ![p] = load'[p]]
    BY <1>1 DEF Controlled, Ends, Continues, LInv, Typed, Busy
  <1>3. Apart(p) /\ \A s \in Stages \ {"canonical"} : Durable(s)
    BY <1>1 DEF Apart, Durable
  <1>4. (Typed /\ BesideKnown /\ Faithfully /\ AllDerived)'
    <2>1. stage[p] \in Stages
      BY <1>1 DEF LInv, Typed, Loaded
    <2>2. /\ stage[p] \in DOMAIN target' => Whole(target'[stage[p]], stage[p])
          /\ \A s \in Stages : s \in DOMAIN previous' => Whole(previous'[s], s)
          /\ stage[p] # "canonical" /\ Undisturbed(stage[p]) /\ stage[p] \in DOMAIN target'
                 => Derived(target'[stage[p]], stage[p])
      BY <1>1, <2>1 DEF LInv, Typed, AllDerived
    <2>3. QED
      BY <1>1, <1>2, <1>3, <2>2, OwnStep DEF LInv
  <1>5. OnePrivate'
    <2>1. \A q \in Publishers : pc'[q] = "publishAggregate" =>
              /\ q # p /\ pc[q] = "publishAggregate" /\ load'[q] = load[q]
      BY <1>2 DEF Controlled, Continues, LInv, Typed
    <2>2. \A q \in Publishers : pc'[q] = "publishAggregate" => Staged(q)' = Staged(q)
      BY <2>1 DEF Staged
    <2>3. QED
      BY <1>1, <2>1, <2>2 DEF LInv, OnePrivate
  <1>6. QED
    BY <1>3, <1>4, <1>5 DEF LInv

\* A stage that starts has loaded nothing, and runs beside all that are at work.
LEMMA StartsLoading ==
    ASSUME LInv, Controlled, NEW p \in Publishers, NEW s \in Stages, Start(p, s)
    PROVE  LInv' /\ \A t \in Stages \ {"canonical"} : Durable(t)
  <1> DEFINE place == IF s = "canonical" THEN "compare" ELSE "hash"
             l == load'[p]
  <1>1. /\ ~Busy(p) /\ target' = target /\ previous' = previous
        /\ pc' = [pc EXCEPT ![p] = place] /\ stage' = [stage EXCEPT ![p] = s]
    BY DEF Start, disk
  <1>2. /\ load' = [load EXCEPT ![p] = l]
        /\ l = [todo |-> InputsOf[s], hashed |-> <<>>, read |-> l.read]
        /\ l.todo = InputsOf[s] /\ l.hashed = <<>> /\ (s # "canonical" => l.read = <<>>)
    BY DEF Start, LInv, Typed
  <1>3. /\ \A q \in Publishers \ {p} :
              pc'[q] = pc[q] /\ stage'[q] = stage[q] /\ load'[q] = load[q]
        /\ pc'[p] = place /\ stage'[p] = s /\ load' = [q \in Publishers |-> load'[q]]
    BY <1>1, <1>2 DEF Controlled, LInv, Typed
  <1>4. /\ beside \subseteq beside'
        /\ \A q \in Publishers \ {p} : Busy(q) =>
              <<s, stage[q]>> \in beside' /\ <<stage[q], s>> \in beside'
    BY DEF Start
  <1>5. \A t : Undisturbed(t)' => Undisturbed(t)
    BY <1>4 DEF Undisturbed
  <1>6. Loaded(p)'
    <2>1. DOMAIN l.hashed = {}
      BY <1>2
    <2>2. s # "canonical" => DOMAIN l.read = {}
      BY <1>2
    <2>3. Names(l.todo) = Inputs(s) /\ (s = "canonical" <=> l.todo = <<>>)
      BY <1>2, InputSets DEF Inputs, InputsOf
    <2>4. place \in Places /\ place \notin {"verify", "read", "publishPrivate", "publishAggregate"}
      BY DEF Places, Loading
    <2>5. place \in Loading <=> s # "canonical"
      BY DEF Loading
    <2>6. s = "canonical" => place = "compare"
      OBVIOUS
    <2> HIDE DEF place
    <2>7. QED
      BY <1>2, <1>3, <2>1, <2>2, <2>3, <2>4, <2>5, <2>6 DEF Loaded
  <1>7. Typed'
    <2>1. ASSUME NEW q \in Publishers, Busy(q)'
          PROVE  Loaded(q)'
      <3>1. CASE q # p
        <4>1. Busy(q) /\ pc[q]' = pc[q] /\ stage[q]' = stage[q] /\ load[q]' = load[q]
          BY <1>3, <2>1, <3>1 DEF Busy
        <4>2. Loaded(q)
          BY <4>1 DEF LInv, Typed
        <4>3. QED
          BY <4>1, <4>2 DEF Loaded
      <3>2. QED
        BY <1>6, <3>1
    <2>2. QED
      BY <1>1, <1>3, <2>1 DEF LInv, Typed
  <1>8. BesideKnown'
    BY <1>3, <1>4 DEF LInv, BesideKnown, Busy
  <1>9. Faithfully'
    <2> SUFFICES ASSUME NEW q \in Publishers,
                        (Busy(q) /\ stage[q] # "canonical" /\ Undisturbed(stage[q]))'
                 PROVE  Faithful(q)'
      BY DEF Faithfully
    <2>1. CASE q = p
      <3>1. place = "hash" /\ DOMAIN l.hashed = {} /\ DOMAIN l.read = {} /\ l.read = <<>>
        BY <1>2, <1>3, <2>1
      <3>2. l.read = [i \in DOMAIN l.read |-> l.hashed[i].rows]
        BY <3>1
      <3>3. QED
        BY <1>3, <2>1, <3>1, <3>2 DEF Faithful, Replacing
    <2>2. CASE q # p
      <3>1. Busy(q) /\ stage[q] # "canonical" /\ Undisturbed(stage[q])
        BY <1>3, <1>5, <2>2 DEF Busy
      <3>2. Faithful(q)
        BY <3>1 DEF LInv, Faithfully
      <3>3. pc[q]' = pc[q] /\ stage[q]' = stage[q] /\ load[q]' = load[q]
        BY <1>3, <2>2
      <3>4. QED
        BY <1>1, <3>2, <3>3 DEF Faithful, Grounded
    <2>3. QED
      BY <2>1, <2>2
  <1>10. AllDerived'
    BY <1>1, <1>5 DEF LInv, AllDerived, Derived
  <1>11. OnePrivate'
    <2>1. \A q \in Publishers : pc'[q] = "publishAggregate" =>
              /\ q # p /\ pc[q] = "publishAggregate" /\ load'[q] = load[q]
      BY <1>3
    <2>2. \A q \in Publishers : pc'[q] = "publishAggregate" => Staged(q)' = Staged(q)
      BY <2>1 DEF Staged
    <2>3. QED
      BY <1>1, <2>1, <2>2 DEF LInv, OnePrivate
  <1>12. \A t \in Stages \ {"canonical"} : Durable(t)
    BY <1>1 DEF Durable
  <1>13. QED
    BY <1>7, <1>8, <1>9, <1>10, <1>11, <1>12 DEF LInv

\* Every step keeps the lineage.
LEMMA EveryStepKeepsLineage ==
    ASSUME LInv, Controlled, [Next]_vars
    PROVE  LInv' /\ \A s \in Stages \ {"canonical"} : Durable(s)
  <1>1. CASE UNCHANGED <<target, previous, pc, stage, load, beside>>
    <2>1. LInv'
      BY <1>1 DEF LInv, Typed, Loaded, Whole, Busy, BesideKnown, Faithfully, Faithful,
                  Undisturbed, Grounded, AllDerived, Derived, OnePrivate, Staged
    <2>2. QED
      BY <1>1, <2>1 DEF Durable
  <1>2. ASSUME NEW p \in Publishers, Publish(p)
        PROVE  LInv' /\ \A s \in Stages \ {"canonical"} : Durable(s)
    BY <1>2, Compares, Retires, Replacements, FirstPublication, Privates, Aggregates
       DEF Publish
  <1>3. ASSUME NEW p \in Publishers, Load(p)
        PROVE  LInv' /\ \A s \in Stages \ {"canonical"} : Durable(s)
    BY <1>3, LoadsKeepLineage
  <1>4. QED
    BY <1>1, <1>2, <1>3, StartsLoading, Deaths DEF Next, vars, disk, PopulationGrows

\* What LineageHolds says of the states.
LEMMA LineageOfStates ==
    ASSUME LInv
    PROVE  /\ LineageIsTrue
           /\ "topLane" \in DOMAIN target =>
                  /\ "topLanePrivate" \in DOMAIN target
                  /\ target["topLanePrivate"] = target["topLane"]
  <1>1. ASSUME NEW s \in DOMAIN target \cap Stages, Undisturbed(s)
        PROVE  /\ \A i \in DOMAIN target[s].inputs :
                     target[s].rows[i] = target[s].inputs[i].rows
               /\ s = "drafts" => target[s].inputs["features"].inputs["canonical"]
                                      = target[s].inputs["canonical"]
               /\ s = "topLane" => target[s].rows["canonical"] = Sealed.rows
    <2>1. DOMAIN target[s].inputs = Inputs(s)
      BY DEF LInv, Typed, Whole
    <2>2. CASE s = "canonical"
      BY <2>1, <2>2, InputSets
    <2>3. CASE s # "canonical"
      <3>1. Derived(target[s], s)
        BY <1>1, <2>3 DEF LInv, AllDerived
      <3>2. \A i \in Inputs(s) : target[s].rows[i] = target[s].inputs[i].rows
        BY <3>1 DEF Derived
      <3>3. QED
        BY <2>1, <3>1, <3>2, InputSets DEF Derived
    <2>4. QED
      BY <2>2, <2>3
  <1>2. QED
    BY <1>1 DEF LineageIsTrue, LInv, OnePrivate

\* Although no lock is taken and 3.1 may be published again with other rows, lineage can
\* be relied on: LineageHolds, for the load_stage3_*_input functions, the lineage check
\* and the publications of every stage.
THEOREM LineageSafe == Spec => LineageHolds
  <1>1. Init => LInv
    BY DEF Init, LInv, Typed, BesideKnown, Faithfully, AllDerived, OnePrivate, Busy
  <1>2. IInv => Controlled
    BY DEF IInv
  <1>3. LInv /\ Controlled /\ [Next]_vars => LInv' /\ \A s \in Stages \ {"canonical"} : Durable(s)
    BY EveryStepKeepsLineage
  <1>4. LInv => /\ LineageIsTrue
                /\ "topLane" \in DOMAIN target =>
                      /\ "topLanePrivate" \in DOMAIN target
                      /\ target["topLanePrivate"] = target["topLane"]
    BY LineageOfStates
  <1>5. (\A s \in Stages \ {"canonical"} : Durable(s)) =>
            \A s \in Stages \ {"canonical"} : Undisturbed(s) =>
             /\ s \in DOMAIN target => s \in DOMAIN target' /\ target'[s] = target[s]
             /\ s \in DOMAIN target' \ DOMAIN target => Current(s)
    BY DEF Durable
  <1>6. QED
    BY <1>1, <1>2, <1>3, <1>4, <1>5, Inductive, PTL DEF Spec, LineageHolds
=============================================================================
