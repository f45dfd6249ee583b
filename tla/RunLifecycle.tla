---------------------------- MODULE RunLifecycle ----------------------------
(***************************************************************************)
(* What a run promises its callers, without processes, files or crashes: a *)
(* published state that is running, paused on an escalation or over, one   *)
(* caller's disposition per escalation, and one answer per resume request. *)
(***************************************************************************)
EXTENDS Naturals

CONSTANTS Requests, NoRequest, MaxEscalations

VARIABLES
  published,    \* "running", "paused" or "over"
  escalation,   \* the escalation a paused run waits on, 0 otherwise
  disposition,  \* escalation -> the request accepted for it
  answer        \* request -> "none", "result" or "stale"

vars == <<published, escalation, disposition, answer>>

Escalations == 1 .. MaxEscalations
Accepted(r) == \E e \in Escalations : disposition[e] = r

Init ==
  /\ published = "running" /\ escalation = 0
  /\ disposition = [e \in Escalations |-> NoRequest]
  /\ answer = [r \in Requests |-> "none"]

(* A paused run leaves its escalation only with a disposition of it.        *)
MayProceed ==
  \/ published = "running"
  \/ published = "paused" /\ disposition[escalation] # NoRequest

Run ==
  /\ MayProceed
  /\ published' = "running" /\ escalation' = 0
  /\ UNCHANGED <<disposition, answer>>

(* A fresh escalation is later than any that was ever answered.             *)
Pause(e) ==
  /\ MayProceed
  /\ \A d \in Escalations : disposition[d] # NoRequest => d < e
  /\ published' = "paused" /\ escalation' = e
  /\ UNCHANGED <<disposition, answer>>

End ==
  /\ published # "over"
  /\ published' = "over" /\ escalation' = 0
  /\ UNCHANGED <<disposition, answer>>

(* The first disposition of the escalation the run is paused on is accepted.*)
Accept(r) ==
  /\ published = "paused" /\ disposition[escalation] = NoRequest
  /\ answer[r] = "none" /\ ~Accepted(r)
  /\ disposition' = [disposition EXCEPT ![escalation] = r]
  /\ UNCHANGED <<published, escalation, answer>>

(* An accepted request is answered with a result, any other as stale, once. *)
Answer(r) ==
  /\ answer[r] = "none"
  /\ answer' = [answer EXCEPT ![r] = IF Accepted(r) THEN "result" ELSE "stale"]
  /\ UNCHANGED <<published, escalation, disposition>>

Next ==
  \/ Run \/ End
  \/ \E e \in Escalations : Pause(e)
  \/ \E r \in Requests : Accept(r) \/ Answer(r)

Spec == Init /\ [][Next]_vars
=============================================================================
