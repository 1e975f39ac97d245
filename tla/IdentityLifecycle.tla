-------------------------- MODULE IdentityLifecycle --------------------------
(***************************************************************************)
(* The append-only ledger of durable staging identities kept by            *)
(* twinforge.discovery.identity_lifecycle.  One call of                    *)
(* advance_identity_lifecycle is Observe (the loop over accepted           *)
(* identities), any number of ApplyDirective steps (the loop over operator *)
(* directives) and Return; a raised IdentityLifecycleError is              *)
(* RejectDirective, which drops the call's local copies.                   *)
(*                                                                         *)
(* Names, reviewers and rationales are abstracted away; an accepted        *)
(* identity is its latest review time.                                     *)
(***************************************************************************)
EXTENDS Integers, FiniteSets

CONSTANTS
  Keys,       \* durable identity keys an operator can assign
  MaxTime,    \* bound: review and directive times are 0 .. MaxTime
  MaxGenerations  \* bound: generations in the ledger

ASSUME TimeAssumption == MaxTime \in Nat
ASSUME GenAssumption == MaxGenerations \in Nat

VARIABLES
  generations,  \* IdentityLifecycleState.generations
  events,       \* IdentityLifecycleState.events
  inactive,     \* IdentityLifecycleState.inactive_identity_keys
  calling,      \* TRUE while an advance is being computed
  accepted,     \* acceptance.accepted_identities of that call
  wGenerations, wEvents, wInactive,   \* its working copies
  active, transitioned                \* its other local sets

ledger == <<generations, events, inactive>>
work == <<wGenerations, wEvents, wInactive, active, transitioned>>
vars == <<ledger, calling, accepted, work>>

Times == 0 .. MaxTime

(***************************************************************************)
(* Records.  An observation event carries the number of the generation it  *)
(* announces, which the code leaves out: it keeps two otherwise equal      *)
(* entries of the event tuple apart in the set that models the tuple.      *)
(***************************************************************************)
Generation == [key : Keys, number : Nat, at : Times]
Observation == [type : {"created", "observed"}, at : Times, key : Keys, number : Nat]
Transition == [type : {"superseded", "merged", "split"}, at : Times,
               sources : SUBSET Keys, targets : SUBSET Keys]
Directive == [transition : {"supersede", "merge", "split"}, at : Times,
              sources : SUBSET Keys, targets : SUBSET Keys]

\* accepted_identities: each accepted key with its latest review time.
Acceptance == UNION {[K -> Times] : K \in SUBSET Keys}
NoAcceptance == [k \in {} |-> 0]

GenerationsOf(G, k) == {g \in G : g.key = k}
NumbersOf(G, k) == {g.number : g \in GenerationsOf(G, k)}
Observed(G) == {g.key : g \in G}
Transitions(E) == {e \in E : e.type \in {"superseded", "merged", "split"}}

\* known_generations: the highest generation number of a key, 0 when unknown.
KnownGeneration(G, k) ==
  IF NumbersOf(G, k) = {} THEN 0
  ELSE CHOOSE n \in NumbersOf(G, k) : \A m \in NumbersOf(G, k) : m <= n

Init ==
  /\ generations = {} /\ events = {} /\ inactive = {}
  /\ calling = FALSE
  /\ accepted = NoAcceptance
  /\ wGenerations = {} /\ wEvents = {} /\ wInactive = {}
  /\ active = {} /\ transitioned = {}

(***************************************************************************)
(* The loop over accepted identities: every key gets its next generation   *)
(* and one created or observed event; a key already inactive raises.       *)
(***************************************************************************)
NewGeneration(acc, k) ==
  [key |-> k, number |-> KnownGeneration(generations, k) + 1,
   at |-> acc[k]]

ObservationEvent(g) ==
  [type |-> IF g.number = 1 THEN "created" ELSE "observed",
   at |-> g.at, key |-> g.key, number |-> g.number]

NewGenerations(acc) == {NewGeneration(acc, k) : k \in DOMAIN acc}

\* Mutant: the inactive-key check is missing.
ObserveAnything(acc) == TRUE

MayObserve(acc) == DOMAIN acc \cap inactive = {}

\* Mutant: the copies start empty instead of from the previous ledger.
ObserveAfresh(acc) ==
  /\ ~calling
  /\ MayObserve(acc)
  /\ calling' = TRUE
  /\ accepted' = acc
  /\ wGenerations' = NewGenerations(acc)
  /\ wEvents' = {ObservationEvent(g) : g \in NewGenerations(acc)}
  /\ wInactive' = inactive
  /\ active' = (Observed(generations) \cup DOMAIN acc) \ inactive
  /\ transitioned' = {}
  /\ UNCHANGED ledger

Observe(acc) ==
  /\ ~calling
  /\ MayObserve(acc)
  /\ calling' = TRUE
  /\ accepted' = acc
  /\ wGenerations' = generations \cup NewGenerations(acc)
  /\ wEvents' = events \cup {ObservationEvent(g) : g \in NewGenerations(acc)}
  /\ wInactive' = inactive
  /\ active' = (Observed(generations) \cup DOMAIN acc) \ inactive
  /\ transitioned' = {}
  /\ UNCHANGED ledger

(***************************************************************************)
(* The loop over directives.  A directive lists its keys without repeats,  *)
(* so its key tuples are sets.                                             *)
(***************************************************************************)
_validate_directive(d) ==
  /\ d.sources \cap d.targets = {}
  /\ \/ /\ d.transition = "supersede"
        /\ Cardinality(d.sources) = 1 /\ Cardinality(d.targets) = 1
     \/ /\ d.transition = "merge"
        /\ Cardinality(d.sources) >= 2 /\ Cardinality(d.targets) = 1
     \/ /\ d.transition = "split"
        /\ Cardinality(d.sources) = 1 /\ Cardinality(d.targets) >= 2

\* Mutant: only the targets are compared with the time of the transition.
NotPredatingTargets(d) == \A t \in d.targets : accepted[t] <= d.at
NotPredating(d) ==
  /\ \A g \in wGenerations : g.key \in d.sources => g.at <= d.at
  /\ \A t \in d.targets : accepted[t] <= d.at

\* Mutant: a key may transition more than once in one advance.
AdmissibleAgain(d) ==
  /\ _validate_directive(d)
  /\ d.sources \subseteq active
  /\ d.targets \subseteq DOMAIN accepted
  /\ NotPredating(d)

Admissible(d) ==
  /\ _validate_directive(d)
  /\ d.sources \subseteq active
  /\ d.sources \cap transitioned = {}
  /\ d.targets \subseteq DOMAIN accepted
  /\ NotPredating(d)

EventType(t) ==
  IF t = "supersede" THEN "superseded" ELSE IF t = "merge" THEN "merged" ELSE "split"

TransitionEvent(d) ==
  [type |-> EventType(d.transition), at |-> d.at,
   sources |-> d.sources, targets |-> d.targets]

ApplyDirective(d) ==
  /\ calling
  /\ Admissible(d)
  /\ transitioned' = transitioned \cup d.sources
  /\ wInactive' = wInactive \cup d.sources
  /\ active' = (active \ d.sources) \cup d.targets
  /\ wEvents' = wEvents \cup {TransitionEvent(d)}
  /\ UNCHANGED <<ledger, calling, accepted, wGenerations>>

\* The exception discards the locals; the caller still holds the old ledger.
RejectDirective(d) ==
  /\ calling
  /\ ~Admissible(d)
  /\ calling' = FALSE
  /\ accepted' = NoAcceptance
  /\ wGenerations' = {} /\ wEvents' = {} /\ wInactive' = {}
  /\ active' = {} /\ transitioned' = {}
  /\ UNCHANGED ledger

\* The new IdentityLifecycleState, built from the working copies.
Return ==
  /\ calling
  /\ generations' = wGenerations
  /\ events' = wEvents
  /\ inactive' = wInactive
  /\ calling' = FALSE
  /\ accepted' = NoAcceptance
  /\ wGenerations' = {} /\ wEvents' = {} /\ wInactive' = {}
  /\ active' = {} /\ transitioned' = {}

\* Bound: the ledger holds at most MaxGenerations generations.
WithinBound(acc) == Cardinality(generations) + Cardinality(DOMAIN acc) <= MaxGenerations

Next ==
  \/ \E acc \in Acceptance : WithinBound(acc) /\ Observe(acc)
  \/ \E d \in Directive : ApplyDirective(d)
  \/ \E d \in Directive : RejectDirective(d)
  \/ Return

Spec == Init /\ [][Next]_vars

------------------------------------------------------------------------------
(* Correctness *)

\* Every component of the ledger and of a running advance has its type.
TypeOK ==
  /\ generations \subseteq Generation /\ wGenerations \subseteq Generation
  /\ events \subseteq Observation \cup Transition
  /\ wEvents \subseteq Observation \cup Transition
  /\ inactive \subseteq Keys /\ wInactive \subseteq Keys
  /\ active \subseteq Keys /\ transitioned \subseteq Keys
  /\ calling \in BOOLEAN
  /\ accepted \in Acceptance

\* The numbers of a key's generations run 1, 2, 3 ... without a gap, each used
\* once: what DiscoveryStateFileStore demands of every ledger it saves.
Consecutive(G) ==
  \A g \in G :
    /\ g.number >= 1
    /\ \A m \in 1 .. g.number : m \in NumbersOf(G, g.key)
    /\ \A h \in G : h.key = g.key /\ h.number = g.number => h = g
ConsecutiveGenerations == Consecutive(generations)

\* The event log alone explains the ledger: each generation has its one created
\* (number 1) or observed event, and a key is inactive exactly when one, and only
\* one, transition event names it as a source.  Nothing retires a key silently,
\* and no key is retired twice.
Explains(G, E, I) ==
  /\ E \ Transitions(E) = {ObservationEvent(g) : g \in G}
  /\ I = UNION {e.sources : e \in Transitions(E)}
  /\ \A e, f \in Transitions(E) : e.sources \cap f.sources # {} => e = f
EventsExplainLedger == Explains(generations, events, inactive)

\* In the published ledger no transition predates any observation of its sources,
\* including observations that a later advance could have added.
NonePredates(G, E) ==
  \A e \in Transitions(E) : \A g \in G : g.key \in e.sources => g.at <= e.at
NoTransitionPredatesSource == NonePredates(generations, events)

\* Every source and target of a transition has been observed, and each target
\* has an accepted generation no later than the transition.
Evidenced(G, E) ==
  \A e \in Transitions(E) :
    /\ e.sources \cup e.targets \subseteq Observed(G)
    /\ \A t \in e.targets : \E g \in GenerationsOf(G, t) : g.at <= e.at
TransitionsHaveEvidence == Evidenced(generations, events)

\* The ledger only grows: no advance discards a generation, event or inactive key.
AppendOnly ==
  [][ /\ generations \subseteq generations'
      /\ events \subseteq events'
      /\ inactive \subseteq inactive' ]_ledger

\* An advance never observes, transitions or targets a key that was inactive when
\* the advance began.
RetiredKeysStayRetired ==
  [][ /\ \A g \in generations' \ generations : g.key \notin inactive
      /\ \A e \in Transitions(events' \ events) :
           (e.sources \cup e.targets) \cap inactive = {} ]_ledger

\* "Transitioned source keys become inactive and cannot later be reused
\* silently": no transition names as its target a key that the ledger already
\* holds as the source of an earlier transition, so following targets from a
\* retired key always arrives at an active one.
RetiredKeysHaveActiveSuccessor ==
  \A K \in SUBSET inactive :
    K # {} => \E e \in Transitions(events) :
                e.sources \cap K # {} /\ ~(e.targets \subseteq K)
==============================================================================
