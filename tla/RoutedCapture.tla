---------------------------- MODULE RoutedCapture ----------------------------
(***************************************************************************)
(* capture_routed_cip (discovery/routed_capture.py) over the permitted     *)
(* controller and chassis providers (cip_pycomm3_routed.py,                *)
(* cip_pycomm3_chassis.py, cip_pycomm3_slots.py).  Routes are numbers in   *)
(* key order; a controller is its route, a chassis the routes of its       *)
(* slots.  The providers outlive a capture: a second capture over the same *)
(* providers finds their budgets spent.                                    *)
(***************************************************************************)
EXTENDS Integers, Sequences, FiniteSetsExt, SequencesExt

CONSTANTS ControllerRoutes,  \* routes of controllers
          Chassis,           \* chassis, in key order
          Slots,             \* the slot routes of each chassis, in slot order
          MaxCalls

Routes == ControllerRoutes \cup UNION {ToSet(Slots[c]) : c \in Chassis}

VARIABLES
    plan,        \* CipRoutedCapturePlan: its controllers and its chassis
    allowed,     \* the controller provider's allowlist
    permit,      \* routes of the operator permit, {} without one that matches
    mapped,      \* the chassis the chassis provider has a route map for
    unencodable, \* slot routes pycomm3 cannot encode
    requested, captured,                        \* the providers' spent budgets
    phase, controllersTodo, chassisTodo, slot,  \* where the capture is
    slots,                                      \* outcomes of the chassis being read
    controllers, chassis, diagnostics,          \* the snapshot
    wire,        \* history: requests sent on each route
    calls

config == <<plan, allowed, permit, mapped, unencodable>>
snapshot == <<controllers, chassis, diagnostics>>
vars == <<config, requested, captured, phase, controllersTodo, chassisTodo, slot,
          slots, snapshot, wire, calls>>

Outcomes == {"populated", "empty", "no_response", "unsupported_route", "device_fault"}

Sent(r) == wire' = [wire EXCEPT ![r] = @ + 1]

Init ==
    /\ plan \in [controllers : SUBSET ControllerRoutes, chassis : SUBSET Chassis]
    /\ plan.controllers # {} \/ plan.chassis # {}
    /\ allowed \in SUBSET ControllerRoutes
    /\ permit \in SUBSET Routes
    /\ mapped \in Chassis /\ unencodable \in SUBSET ToSet(Slots[mapped])
    /\ requested = {} /\ captured = FALSE /\ phase = "idle"
    /\ controllersTodo = {} /\ chassisTodo = {} /\ slot = 0 /\ slots = <<>>
    /\ controllers = {} /\ chassis = {} /\ diagnostics = {}
    /\ wire = [r \in Routes |-> 0] /\ calls = 0

(***************************************************************************)
(* PermittedPycomm3RoutedControllerProvider.read_controller.               *)
(***************************************************************************)

Permitted(routes) == permit # {} /\ routes \subseteq permit

ControllerRefused(r) == r \notin allowed \/ ~Permitted({r}) \/ r \in requested

\* Mutant: only a successful read spends the route.
ControllerSpendsOnSuccess(r, ok) ==
    /\ Sent(r) /\ requested' = IF ok THEN requested \cup {r} ELSE requested

\* The budget is spent before the request, so a failed read spends it too.
ControllerSpends(r, ok) == Sent(r) /\ requested' = requested \cup {r}

ControllerDone(r) == controllersTodo' = controllersTodo \ {r}

ReadController ==
    /\ phase = "running" /\ controllersTodo # {}
    /\ LET r == Min(controllersTodo)
       IN  /\ IF ControllerRefused(r)
              THEN /\ diagnostics' = diagnostics \cup {<<"controller", r>>}
                   /\ UNCHANGED <<requested, wire, controllers>>
              ELSE \E ok \in BOOLEAN :
                     /\ ControllerSpends(r, ok)
                     /\ controllers' = IF ok THEN controllers \cup {r} ELSE controllers
                     /\ diagnostics' = IF ok THEN diagnostics
                                       ELSE diagnostics \cup {<<"controller", r>>}
           /\ ControllerDone(r)
    /\ UNCHANGED <<config, captured, phase, chassisTodo, slot, slots, chassis, calls>>

(***************************************************************************)
(* PermittedPycomm3ChassisProvider.read_chassis.                           *)
(***************************************************************************)

Reading == phase = "running" /\ controllersTodo = {} /\ chassisTodo # {}

\* The chassis being read: plan items are read in key order.
Current == Min(chassisTodo)

ChassisRefused(c) == c # mapped \/ ~Permitted(ToSet(Slots[c])) \/ captured

NextChassis == chassisTodo' = chassisTodo \ {Current} /\ slot' = 0 /\ slots' = <<>>

RefuseChassis ==
    /\ Reading /\ slot = 0 /\ ChassisRefused(Current)
    /\ diagnostics' = diagnostics \cup {<<"chassis", Current>>}
    /\ NextChassis
    /\ UNCHANGED <<config, requested, captured, phase, controllersTodo, controllers,
                   chassis, wire, calls>>

BeginChassis ==
    /\ Reading /\ slot = 0 /\ ~ChassisRefused(Current)
    /\ captured' = TRUE /\ slot' = 1
    /\ UNCHANGED <<config, requested, phase, controllersTodo, chassisTodo, slots,
                   snapshot, wire, calls>>

SlotRoute == Slots[Current][slot]

\* One slot gives an outcome.
ReadSlot ==
    /\ Reading /\ slot \in 1..Len(Slots[Current])
    /\ SlotRoute \notin unencodable
    /\ \E o \in Outcomes : slots' = Append(slots, o)
    /\ Sent(SlotRoute) /\ slot' = slot + 1
    /\ UNCHANGED <<config, requested, captured, phase, controllersTodo, chassisTodo,
                   snapshot, calls>>

\* A slot answers with a packet or an identity that cannot be decoded: the error
\* leaves read_chassis and the capture keeps a diagnostic.
SlotUndecodable ==
    /\ Reading /\ slot \in 1..Len(Slots[Current])
    /\ SlotRoute \notin unencodable
    /\ Sent(SlotRoute)
    /\ diagnostics' = diagnostics \cup {<<"chassis", Current>>}
    /\ NextChassis
    /\ UNCHANGED <<config, requested, captured, phase, controllersTodo, controllers,
                   chassis, calls>>

\* A slot route that cannot be encoded raises a ValueError, which is no provider
\* error: it leaves capture_routed_cip as well.
SlotUnencodable ==
    /\ Reading /\ slot \in 1..Len(Slots[Current])
    /\ SlotRoute \in unencodable
    /\ phase' = "raised"
    /\ UNCHANGED <<config, requested, captured, controllersTodo, chassisTodo, slot,
                   slots, snapshot, wire, calls>>

\* Mutant: the last slot is not waited for.
EndChassisPartial ==
    /\ Reading /\ slot >= Len(Slots[Current])
    /\ chassis' = chassis \cup {<<Current, slots>>}
    /\ NextChassis
    /\ UNCHANGED <<config, requested, captured, phase, controllersTodo, controllers,
                   diagnostics, wire, calls>>

EndChassis ==
    /\ Reading /\ slot > Len(Slots[Current])
    /\ chassis' = chassis \cup {<<Current, slots>>}
    /\ NextChassis
    /\ UNCHANGED <<config, requested, captured, phase, controllersTodo, controllers,
                   diagnostics, wire, calls>>

(***************************************************************************)
(* capture_routed_cip.                                                     *)
(***************************************************************************)

Begin ==
    /\ phase # "running" /\ calls < MaxCalls
    /\ phase' = "running" /\ calls' = calls + 1
    /\ controllersTodo' = plan.controllers
    /\ chassisTodo' = plan.chassis
    /\ slot' = 0 /\ slots' = <<>>
    /\ controllers' = {} /\ chassis' = {} /\ diagnostics' = {}
    /\ UNCHANGED <<config, requested, captured, wire>>

Return ==
    /\ phase = "running" /\ controllersTodo = {} /\ chassisTodo = {}
    /\ phase' = "done"
    /\ UNCHANGED <<config, requested, captured, controllersTodo, chassisTodo, slot,
                   slots, snapshot, wire, calls>>

Next == Begin \/ ReadController \/ RefuseChassis \/ BeginChassis \/ ReadSlot
        \/ SlotUndecodable \/ SlotUnencodable \/ EndChassis \/ Return

Spec == Init /\ [][Next]_vars

(***************************************************************************)
(* Properties.                                                             *)
(***************************************************************************)

\* The providers that may read a route; each keeps a budget of its own.
Readers(r) ==
    (IF r \in allowed THEN 1 ELSE 0) + (IF r \in ToSet(Slots[mapped]) THEN 1 ELSE 0)

\* Over any number of captures and failures, a route gets at most one request from
\* each provider that has it, in the allowlist or in the route map, and only a route
\* the permit names gets any: a controller in a slot of the chassis may get two.
OneRequestPerRoute ==
    \A r \in Routes : wire[r] > 0 => r \in permit /\ wire[r] <= Readers(r)

\* A returned snapshot answers for every plan item once: an observation or a
\* diagnostic, and a chassis observation has an outcome for each of its slots.
EveryItemAnswered ==
    phase = "done" =>
        /\ \A r \in plan.controllers : (r \in controllers) # (<<"controller", r>> \in diagnostics)
        /\ \A c \in plan.chassis :
              (\E o \in chassis : o[1] = c) # (<<"chassis", c>> \in diagnostics)
        /\ \A o \in chassis : Len(o[2]) = Len(Slots[o[1]])

\* "Every requested slot must produce exactly one evidence outcome": a slot that
\* was sent a request is in a chassis observation when the first capture is over.
RequestedSlotsHaveOutcomes ==
    phase \in {"done", "raised"} /\ calls = 1 =>
        \A r \in ToSet(Slots[mapped]) : wire[r] > 0 => \E o \in chassis : o[1] = mapped
=============================================================================
