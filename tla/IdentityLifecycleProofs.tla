----------------------- MODULE IdentityLifecycleProofs -----------------------
(***************************************************************************)
(* TLAPS proofs of the invariants of IdentityLifecycle, for every set of   *)
(* keys and every bound.  A ledger property is not inductive by itself:    *)
(* what Return publishes is the working copy, so IInv states each property *)
(* of the ledger and of the working copy, and relates the two.             *)
(***************************************************************************)
EXTENDS IdentityLifecycle, TLAPS

Numbered(G) ==
  \A k \in Keys :
    /\ \E n \in Nat : NumbersOf(G, k) = 1 .. n
    /\ \A g, h \in GenerationsOf(G, k) : g.number = h.number => g = h

Consistent(G, E, I) ==
  Numbered(G) /\ Explains(G, E, I) /\ NonePredates(G, E) /\ Evidenced(G, E)

\* How the working copies of a running advance relate to the ledger it started from.
Extension ==
  /\ generations \subseteq wGenerations
  /\ events \subseteq wEvents
  /\ wInactive = inactive \cup transitioned
  /\ active \cap inactive = {}
  /\ active \subseteq Observed(wGenerations)
  /\ DOMAIN accepted \cap inactive = {}
  /\ \A k \in DOMAIN accepted : \E g \in wGenerations : g.key = k /\ g.at = accepted[k]
  /\ \A g \in wGenerations \ generations : g.key \in DOMAIN accepted
  /\ \A e \in Transitions(wEvents \ events) : (e.sources \cup e.targets) \cap inactive = {}

IInv ==
  /\ TypeOK
  /\ Consistent(generations, events, inactive)
  /\ Consistent(wGenerations, wEvents, wInactive)
  /\ calling => Extension

-----------------------------------------------------------------------------
\* known_generations is the last number of a consecutively numbered key.
LEMMA KnownGenerationLast ==
  ASSUME NEW G, NEW k, NEW n \in Nat, NumbersOf(G, k) = 1 .. n
  PROVE  KnownGeneration(G, k) = n
  <1>1. CASE n = 0
    BY <1>1 DEF KnownGeneration
  <1>2. CASE n # 0
    <2>1. n \in 1 .. n /\ \A m \in 1 .. n : m <= n
      BY <1>2
    <2>2. \A x \in 1 .. n : (\A m \in 1 .. n : m <= x) => x = n
      BY <2>1
    <2>3. KnownGeneration(G, k) = CHOOSE x \in 1 .. n : \A m \in 1 .. n : m <= x
      BY <2>1 DEF KnownGeneration
    <2> QED
      BY <2>1, <2>2, <2>3
  <1> QED
    BY <1>1, <1>2

\* Consecutive numbering as the runs check it follows from Numbered.
LEMMA NumberedConsecutive ==
  ASSUME NEW G \in SUBSET Generation, Numbered(G)
  PROVE  Consecutive(G)
  <1> SUFFICES ASSUME NEW g \in G
               PROVE  /\ g.number >= 1
                      /\ \A m \in 1 .. g.number : m \in NumbersOf(G, g.key)
                      /\ \A h \in G : h.key = g.key /\ h.number = g.number => h = g
    BY DEF Consecutive
  <1>1. g.key \in Keys /\ g.number \in Nat
    BY DEF Generation
  <1>2. PICK n \in Nat : NumbersOf(G, g.key) = 1 .. n
    BY <1>1 DEF Numbered
  <1>3. g.number \in 1 .. n
    BY <1>2 DEF NumbersOf, GenerationsOf
  <1>4. \A h \in G : h.key = g.key /\ h.number = g.number => h = g
    BY <1>1 DEF Numbered, GenerationsOf
  <1> QED
    BY <1>1, <1>2, <1>3, <1>4

-----------------------------------------------------------------------------
\* The empty ledger is consistent.
LEMMA EmptyConsistent == Consistent({}, {}, {})
  <1>1. \A k : NumbersOf({}, k) = 1 .. 0
    BY DEF NumbersOf, GenerationsOf
  <1>2. Numbered({})
    BY <1>1 DEF Numbered, GenerationsOf
  <1> QED
    BY <1>2 DEF Consistent, Explains, NonePredates, Evidenced, Transitions

LEMMA InitIInv == Init => IInv
  <1> SUFFICES ASSUME Init PROVE IInv
    OBVIOUS
  <1>1. NoAcceptance \in Acceptance
    BY DEF NoAcceptance, Acceptance
  <1>2. TypeOK
    BY <1>1 DEF Init, TypeOK
  <1> QED
    BY <1>2, EmptyConsistent DEF Init, IInv

\* The observation loop numbers every accepted key one past its last generation.
LEMMA ObserveNumbered ==
  ASSUME TypeOK, Numbered(generations), NEW acc \in Acceptance
  PROVE  Numbered(generations \cup NewGenerations(acc))
  <1> DEFINE G == generations \cup NewGenerations(acc)
  <1> SUFFICES ASSUME NEW k \in Keys
               PROVE  /\ \E n \in Nat : NumbersOf(G, k) = 1 .. n
                      /\ \A g, h \in GenerationsOf(G, k) : g.number = h.number => g = h
    BY DEF Numbered
  <1>1. PICK n \in Nat : NumbersOf(generations, k) = 1 .. n
    BY DEF Numbered
  <1>2. KnownGeneration(generations, k) = n
    BY <1>1, KnownGenerationLast
  <1>3. \A g \in GenerationsOf(generations, k) : g.number \in 1 .. n
    BY <1>1 DEF NumbersOf
  <1>4. \A g, h \in GenerationsOf(generations, k) : g.number = h.number => g = h
    BY DEF Numbered
  <1>5. CASE k \in DOMAIN acc
    <2>1. GenerationsOf(G, k) = GenerationsOf(generations, k) \cup {NewGeneration(acc, k)}
      BY <1>5 DEF GenerationsOf, NewGenerations, NewGeneration
    <2>2. NewGeneration(acc, k).number = n + 1
      BY <1>2 DEF NewGeneration
    <2>3. NumbersOf(G, k) = NumbersOf(generations, k) \cup {n + 1}
      <3> HIDE DEF G
      <3>1. \A x : x \in NumbersOf(G, k) => x \in NumbersOf(generations, k) \cup {n + 1}
        BY <2>1, <2>2 DEF NumbersOf
      <3>2. \A x : x \in NumbersOf(generations, k) \cup {n + 1} => x \in NumbersOf(G, k)
        BY <2>1, <2>2 DEF NumbersOf
      <3> QED
        BY <3>1, <3>2
    <2>4. NumbersOf(G, k) = 1 .. (n + 1)
      <3>1. 1 .. (n + 1) = (1 .. n) \cup {n + 1}
        OBVIOUS
      <3> HIDE DEF G
      <3> QED
        BY <2>3, <1>1, <3>1
    <2>5. \A g, h \in GenerationsOf(G, k) : g.number = h.number => g = h
      BY <2>1, <2>2, <1>3, <1>4
    <2>6. n + 1 \in Nat
      OBVIOUS
    <2> QED
      <3> HIDE DEF G
      <3> QED
        BY <2>4, <2>5, <2>6
  <1>6. CASE k \notin DOMAIN acc
    <2>1. GenerationsOf(G, k) = GenerationsOf(generations, k)
      BY <1>6 DEF GenerationsOf, NewGenerations, NewGeneration
    <2> QED
      BY <2>1, <1>1, <1>4 DEF NumbersOf
  <1> QED
    BY <1>5, <1>6

\* A new generation has its type.
LEMMA NewGenerationsType ==
  ASSUME TypeOK, Numbered(generations), NEW acc \in Acceptance
  PROVE  /\ NewGenerations(acc) \subseteq Generation
         /\ {ObservationEvent(g) : g \in NewGenerations(acc)} \subseteq Observation
  <1>1. ASSUME NEW k \in DOMAIN acc
        PROVE  NewGeneration(acc, k) \in Generation
    <2>1. k \in Keys /\ acc[k] \in Times
      BY DEF Acceptance
    <2>2. PICK n \in Nat : NumbersOf(generations, k) = 1 .. n
      BY <2>1 DEF Numbered
    <2>3. KnownGeneration(generations, k) + 1 \in Nat
      BY <2>2, KnownGenerationLast
    <2> QED
      BY <2>1, <2>3 DEF NewGeneration, Generation
  <1>2. NewGenerations(acc) \subseteq Generation
    BY <1>1 DEF NewGenerations
  <1> QED
    BY <1>2 DEF ObservationEvent, Observation, Generation

\* Observe leaves a consistent working copy that extends the ledger.
LEMMA ObserveStep ==
  ASSUME IInv, NEW acc \in Acceptance, Observe(acc)
  PROVE  IInv'
  <1> USE DEF Observe, ledger
  <1>1. Numbered(generations)
    BY DEF IInv, Consistent
  <1>2. TypeOK
    BY DEF IInv
  <1>3. /\ NewGenerations(acc) \subseteq Generation
        /\ {ObservationEvent(g) : g \in NewGenerations(acc)} \subseteq Observation
    BY <1>1, <1>2, NewGenerationsType
  <1>4. DOMAIN acc \subseteq Keys
    BY DEF Acceptance
  <1>5. TypeOK'
    BY <1>2, <1>3, <1>4 DEF TypeOK, Observed, Generation
  <1>6. Transitions(wEvents') = Transitions(events)
    BY DEF Transitions, ObservationEvent
  <1>7. \A g \in NewGenerations(acc) : g.key \in DOMAIN acc /\ g.key \notin inactive
    BY DEF NewGenerations, NewGeneration, MayObserve
  <1>8. Observed(wGenerations') = Observed(generations) \cup DOMAIN acc
    <2>1. \A k \in DOMAIN acc : NewGeneration(acc, k) \in NewGenerations(acc)
                                /\ NewGeneration(acc, k).key = k
      BY DEF NewGenerations, NewGeneration
    <2>2. \A g \in NewGenerations(acc) : g.key \in DOMAIN acc
      BY <1>7
    <2> QED
      BY <2>1, <2>2 DEF Observed
  <1>9. Consistent(wGenerations, wEvents, wInactive)'
    <2>1. Numbered(wGenerations')
      BY <1>1, <1>2, ObserveNumbered
    <2>2. Explains(wGenerations', wEvents', wInactive')
      <3>1. Explains(generations, events, inactive)
        BY DEF IInv, Consistent
      <3>2. wEvents' \ Transitions(wEvents')
              = (events \ Transitions(events)) \cup {ObservationEvent(g) : g \in NewGenerations(acc)}
        BY <1>6 DEF Transitions, ObservationEvent
      <3> QED
        BY <3>1, <3>2, <1>6 DEF Explains
    <2>3. NonePredates(wGenerations', wEvents')
      <3>1. \A e \in Transitions(events) : e.sources \subseteq inactive
        BY DEF IInv, Consistent, Explains
      <3> QED
        BY <3>1, <1>6, <1>7 DEF IInv, Consistent, NonePredates
    <2>4. Evidenced(wGenerations', wEvents')
      BY <1>6, <1>8 DEF IInv, Consistent, Evidenced, GenerationsOf
    <2> QED
      BY <2>1, <2>2, <2>3, <2>4 DEF Consistent
  <1>10. Extension'
    <2>1. \A k \in DOMAIN acc : \E g \in wGenerations' : g.key = k /\ g.at = acc[k]
      <3> SUFFICES ASSUME NEW k \in DOMAIN acc
                   PROVE  \E g \in wGenerations' : g.key = k /\ g.at = acc[k]
        OBVIOUS
      <3>1. NewGeneration(acc, k) \in wGenerations'
        BY DEF NewGenerations
      <3>2. NewGeneration(acc, k).key = k /\ NewGeneration(acc, k).at = acc[k]
        BY DEF NewGeneration
      <3> QED
        BY <3>1, <3>2
    <2>2. Transitions(wEvents' \ events) = {}
      BY DEF Transitions, ObservationEvent
    <2> QED
      BY <1>7, <1>8, <2>1, <2>2 DEF Extension, MayObserve
  <1> QED
    BY <1>5, <1>9, <1>10 DEF IInv

\* An admissible directive retires keys nothing retired before.
LEMMA ApplyDirectiveStep ==
  ASSUME IInv, NEW d \in Directive, ApplyDirective(d)
  PROVE  IInv'
  <1> USE DEF ApplyDirective, ledger
  <1>1. TypeOK /\ Extension /\ Consistent(wGenerations, wEvents, wInactive)
    BY DEF IInv
  <1>2. TransitionEvent(d) \in Transition
    BY DEF TransitionEvent, Transition, Directive, EventType
  <1>3. TypeOK'
    BY <1>1, <1>2 DEF TypeOK, Directive
  <1>4. /\ TransitionEvent(d).sources = d.sources
        /\ TransitionEvent(d).targets = d.targets
        /\ TransitionEvent(d).at = d.at
    BY DEF TransitionEvent
  <1>5. Transitions(wEvents') = Transitions(wEvents) \cup {TransitionEvent(d)}
    BY DEF Transitions, TransitionEvent, EventType
  <1>6. d.sources \cap wInactive = {}
    BY <1>1 DEF Admissible, Extension
  <1>7. d.sources \cup d.targets \subseteq Observed(wGenerations)
    <2>1. d.sources \subseteq Observed(wGenerations)
      BY <1>1 DEF Admissible, Extension
    <2>2. \A t \in d.targets : t \in Observed(wGenerations)
      BY <1>1 DEF Admissible, Extension, Observed
    <2> QED
      BY <2>1, <2>2
  <1>8. Consistent(wGenerations, wEvents, wInactive)'
    <2>1. Numbered(wGenerations')
      BY <1>1 DEF Consistent
    <2>2. Explains(wGenerations', wEvents', wInactive')
      <3>1. Explains(wGenerations, wEvents, wInactive)
        BY <1>1 DEF Consistent
      <3>2. wEvents' \ Transitions(wEvents') = wEvents \ Transitions(wEvents)
        BY DEF Transitions, TransitionEvent, EventType
      <3>3. wInactive' = UNION {e.sources : e \in Transitions(wEvents')}
        <4>1. UNION {e.sources : e \in Transitions(wEvents')}
                = (UNION {e.sources : e \in Transitions(wEvents)}) \cup TransitionEvent(d).sources
          BY <1>5
        <4> QED
          BY <4>1, <3>1, <1>4 DEF Explains
      <3>4. \A e \in Transitions(wEvents) : e.sources \subseteq wInactive
        BY <3>1 DEF Explains
      <3>5. \A e, f \in Transitions(wEvents') : e.sources \cap f.sources # {} => e = f
        BY <3>1, <3>4, <1>4, <1>5, <1>6 DEF Explains
      <3> QED
        BY <3>1, <3>2, <3>3, <3>5 DEF Explains
    <2>3. NonePredates(wGenerations', wEvents')
      BY <1>1, <1>4, <1>5 DEF Consistent, NonePredates, Admissible, NotPredating
    <2>4. Evidenced(wGenerations', wEvents')
      <3>1. \A t \in d.targets : \E g \in GenerationsOf(wGenerations, t) : g.at <= d.at
        BY <1>1 DEF Extension, Admissible, NotPredating, GenerationsOf
      <3> QED
        BY <3>1, <1>1, <1>4, <1>5, <1>7 DEF Consistent, Evidenced
    <2> QED
      BY <2>1, <2>2, <2>3, <2>4 DEF Consistent
  <1>9. Extension'
    <2>1. (d.sources \cup d.targets) \cap inactive = {}
      BY <1>1 DEF Admissible, Extension
    <2>2. active' \cap inactive = {} /\ active' \subseteq Observed(wGenerations)
      BY <2>1, <1>1, <1>7 DEF Extension
    <2>3. \A e \in Transitions(wEvents' \ events) : (e.sources \cup e.targets) \cap inactive = {}
      BY <2>1, <1>1, <1>4, <1>5 DEF Extension, Transitions
    <2> QED
      BY <2>2, <2>3, <1>1 DEF Extension
  <1> QED
    BY <1>3, <1>8, <1>9 DEF IInv

LEMMA NextIInv == IInv /\ [Next]_vars => IInv'
  <1> SUFFICES ASSUME IInv, [Next]_vars PROVE IInv'
    OBVIOUS
  <1>1. ASSUME NEW acc \in Acceptance, Observe(acc)
        PROVE  IInv'
    BY <1>1, ObserveStep
  <1>2. ASSUME NEW d \in Directive, ApplyDirective(d)
        PROVE  IInv'
    BY <1>2, ApplyDirectiveStep
  <1>3. NoAcceptance \in Acceptance
    BY DEF NoAcceptance, Acceptance
  <1>4. ASSUME NEW d \in Directive, RejectDirective(d)
        PROVE  IInv'
    BY <1>3, <1>4, EmptyConsistent DEF RejectDirective, IInv, TypeOK, ledger
  <1>5. CASE Return
    BY <1>3, <1>5, EmptyConsistent DEF Return, IInv, TypeOK
  <1>6. CASE UNCHANGED vars
    BY <1>6 DEF vars, ledger, work, IInv, TypeOK, Extension
  <1> QED
    BY <1>1, <1>2, <1>4, <1>5, <1>6 DEF Next

THEOREM SpecIInv == Spec => []IInv
  BY InitIInv, NextIInv, PTL DEF Spec

-----------------------------------------------------------------------------
(* The properties of the ledger *)

\* Every behaviour of the lifecycle keeps the types of its state.
THEOREM TypeCorrect == Spec => []TypeOK
  <1>1. IInv => TypeOK
    BY DEF IInv
  <1> QED
    BY SpecIInv, <1>1, PTL

\* Generations of every key are numbered 1, 2, 3, ... however acceptances and
\* transitions follow one another.
THEOREM GenerationsConsecutive == Spec => []ConsecutiveGenerations
  <1>1. IInv => ConsecutiveGenerations
    BY NumberedConsecutive DEF IInv, TypeOK, Consistent, ConsecutiveGenerations
  <1> QED
    BY SpecIInv, <1>1, PTL

\* The event log explains every generation and every inactive key of the ledger.
THEOREM LedgerExplained == Spec => []EventsExplainLedger
  <1>1. IInv => EventsExplainLedger
    BY DEF IInv, Consistent, EventsExplainLedger
  <1> QED
    BY SpecIInv, <1>1, PTL

\* No transition predates an observation of its sources.
THEOREM TransitionsOrdered == Spec => []NoTransitionPredatesSource
  <1>1. IInv => NoTransitionPredatesSource
    BY DEF IInv, Consistent, NoTransitionPredatesSource
  <1> QED
    BY SpecIInv, <1>1, PTL

\* Transitions refer to observed keys, and their targets to accepted evidence.
THEOREM TransitionsEvidenced == Spec => []TransitionsHaveEvidence
  <1>1. IInv => TransitionsHaveEvidence
    BY DEF IInv, Consistent, TransitionsHaveEvidence
  <1> QED
    BY SpecIInv, <1>1, PTL

\* No step discards a generation, an event or an inactive key.
THEOREM LedgerAppendOnly == Spec => AppendOnly
  <1>1. IInv /\ [Next]_vars =>
          [ /\ generations \subseteq generations'
            /\ events \subseteq events'
            /\ inactive \subseteq inactive' ]_ledger
    BY DEF IInv, Extension, Next, Observe, ApplyDirective, RejectDirective, Return, vars, ledger
  <1> QED
    BY SpecIInv, <1>1, PTL DEF Spec, AppendOnly

\* No advance observes, transitions or targets a key that was inactive before it.
THEOREM RetiredForGood == Spec => RetiredKeysStayRetired
  <1>1. IInv /\ [Next]_vars =>
          [ /\ \A g \in generations' \ generations : g.key \notin inactive
            /\ \A e \in Transitions(events' \ events) :
                 (e.sources \cup e.targets) \cap inactive = {} ]_ledger
    <2> SUFFICES ASSUME IInv, Return
                 PROVE  /\ \A g \in generations' \ generations : g.key \notin inactive
                        /\ \A e \in Transitions(events' \ events) :
                             (e.sources \cup e.targets) \cap inactive = {}
      BY DEF Next, Observe, ApplyDirective, RejectDirective, vars, ledger
    <2> QED
      BY DEF IInv, Extension, Return
  <1> QED
    BY SpecIInv, <1>1, PTL DEF Spec, RetiredKeysStayRetired
=============================================================================
