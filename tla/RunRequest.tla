----------------------------- MODULE RunRequest -----------------------------
(***************************************************************************)
(* What one id of `manuvra run` promises: it belongs to one job, its run   *)
(* starts at most once, a run given up before it started never starts, and *)
(* the response recorded for it is final.                                  *)
(***************************************************************************)
EXTENDS Integers

CONSTANTS
  Jobs,       \* jobs callers may submit under the id
  NoJob,      \* "the id was never used"
  Responses,  \* terminal results a run may be answered with
  NoResponse  \* "no response recorded"

VARIABLES
  claim,      \* the job the id belongs to
  starts,     \* how many flows were started for it
  abandoned,  \* its run was given up before it started
  response    \* the response recorded for the id

vars == <<claim, starts, abandoned, response>>

Init == claim = NoJob /\ starts = 0 /\ abandoned = FALSE /\ response = NoResponse

Claim(job) ==
  /\ claim = NoJob /\ claim' = job
  /\ UNCHANGED <<starts, abandoned, response>>

Start ==
  /\ claim # NoJob /\ starts = 0 /\ ~abandoned /\ response = NoResponse
  /\ starts' = 1
  /\ UNCHANGED <<claim, abandoned, response>>

Abandon ==
  /\ claim # NoJob /\ starts = 0 /\ response = NoResponse
  /\ abandoned' = TRUE
  /\ UNCHANGED <<claim, starts, response>>

Respond(result) ==
  /\ claim # NoJob /\ ~abandoned /\ response = NoResponse
  /\ response' = result
  /\ UNCHANGED <<claim, starts, abandoned>>

Next ==
  \/ Start \/ Abandon
  \/ \E job \in Jobs : Claim(job)
  \/ \E result \in Responses : Respond(result)

Spec == Init /\ [][Next]_vars
=============================================================================
