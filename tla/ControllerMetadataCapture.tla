---------------------- MODULE ControllerMetadataCapture ----------------------
(***************************************************************************)
(* One-shot execution of a controller metadata plan                        *)
(* (discovery/controller_metadata_capture.py) or of an infrastructure plan *)
(* (cip_infrastructure_capture.py, the same loop without decoders), and    *)
(* the merge of the decoded values into a controller observation.          *)
(***************************************************************************)
EXTENDS Naturals, Sequences, SequencesExt

CONSTANTS Count,      \* requests are 1..Count in _ordered_requests order
          Fields,    \* ControllerMetadataField
          MaxCalls

None == "none"

Requests == 1..Count

VARIABLES
    semantic,     \* the field each request fills, None without a decoder
    permitted,    \* the permit names the plan's route and authorization
    executed, phase, next,
    evidence,     \* CipObjectEvidence so far: request and status
    values,       \* decoded fields and the request they came from
    received,     \* history: every response the transport returned
    observation,  \* the controller observation the capture is applied to
    calls

vars == <<semantic, permitted, executed, phase, next, evidence, values, received,
          observation, calls>>

Init ==
    /\ semantic \in {s \in [Requests -> Fields \cup {None}] :
                        \A a, b \in Requests : a # b /\ s[a] = s[b] => s[a] = None}
    /\ permitted \in BOOLEAN
    /\ executed = FALSE /\ phase = "idle" /\ next = 1 /\ evidence = <<>>
    /\ values = [f \in Fields |-> 0] /\ received = <<>> /\ calls = 0
    /\ observation = [fields |-> [f \in Fields |-> 0], evidence |-> <<>>]

Preflight == permitted /\ ~executed

Capture ==
    /\ phase # "running" /\ calls < MaxCalls /\ Preflight
    /\ executed' = TRUE /\ phase' = "running" /\ calls' = calls + 1
    /\ next' = 1 /\ evidence' = <<>> /\ values' = [f \in Fields |-> 0]
    /\ UNCHANGED <<semantic, permitted, received, observation>>

CaptureRefused ==
    /\ phase # "running" /\ calls < MaxCalls /\ ~Preflight
    /\ calls' = calls + 1
    /\ UNCHANGED <<semantic, permitted, executed, phase, next, evidence, values,
                   received, observation>>

\* Mutant: a value is decoded whatever the status.
DecodedAnyStatus(r, status) ==
    IF semantic[r] # None THEN [values EXCEPT ![semantic[r]] = r] ELSE values

\* The value of request r, decoded only from a success.
Decoded(r, status) ==
    IF status = 0 /\ semantic[r] # None THEN [values EXCEPT ![semantic[r]] = r]
    ELSE values

Respond ==
    /\ phase = "running" /\ next <= Count
    /\ \E status \in {0, 1} :
          /\ received' = Append(received, <<next, status>>)
          /\ evidence' = Append(evidence, <<next, status>>)
          /\ values' = Decoded(next, status)
    /\ next' = next + 1
    /\ UNCHANGED <<semantic, permitted, executed, phase, observation, calls>>

\* The decoder raises, or gives a value that is not text for a semantic field.
DecoderFails ==
    /\ phase = "running" /\ next <= Count /\ semantic[next] # None
    /\ received' = Append(received, <<next, 0>>) /\ phase' = "raised"
    /\ UNCHANGED <<semantic, permitted, executed, next, evidence, values, observation,
                   calls>>

\* No connection, no packet, or a packet too short for a status.
TransportFails ==
    /\ phase = "running" /\ next <= Count
    /\ phase' = "raised"
    /\ UNCHANGED <<semantic, permitted, executed, next, evidence, values, received,
                   observation, calls>>

\* The capture is returned and apply_controller_metadata merges it.
ReturnAndApply ==
    /\ phase = "running" /\ next > Count
    /\ phase' = "done"
    /\ observation' =
          [fields |-> [f \in Fields |-> IF values[f] # 0 THEN values[f]
                                        ELSE observation.fields[f]],
           evidence |-> observation.evidence \o evidence]
    /\ UNCHANGED <<semantic, permitted, executed, next, evidence, values, received,
                   calls>>

Next == Capture \/ CaptureRefused \/ Respond \/ DecoderFails \/ TransportFails
        \/ ReturnAndApply

Spec == Init /\ [][Next]_vars

(***************************************************************************)
(* Properties.                                                             *)
(***************************************************************************)

\* The observation's fields are those its own evidence decodes to: a field is
\* filled exactly when the evidence holds a success of the request mapped to it,
\* and a capture that raised, or ran a second time, leaves no value behind.
FieldsMatchEvidence ==
    \A f \in Fields, r \in Requests :
        semantic[r] = f =>
            (observation.fields[f] = r) = (<<r, 0>> \in ToSet(observation.evidence))

\* "Every response becomes CipObjectEvidence, including failed requests ... Unknown
\* and failed responses therefore remain available for later analysis."
ResponsesKept ==
    phase \in {"done", "raised"} => ToSet(received) \subseteq ToSet(observation.evidence)
=============================================================================
