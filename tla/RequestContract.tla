-------------------------- MODULE RequestContract --------------------------
(***************************************************************************)
(* What the driver promises the I/O manager about each request, whoever    *)
(* inside the driver gets to it first: it is completed once; it is         *)
(* cancelled only if that was asked for, or the volume goes away; the      *)
(* library's answer is accepted only while the volume is there, and then   *)
(* it is the answer the requester gets, even if the volume goes away       *)
(* meanwhile; and the effect on the file object (the cleanup, the          *)
(* completion or back-out of a create) happens at the completion, once, or *)
(* not at all.                                                             *)
(***************************************************************************)
EXTENDS Naturals, Sequences

CONSTANTS Irp, Kind

VARIABLES
  status,     \* what each request was completed with: nothing, or one status
  effect,     \* how often its effect happened
  cancelled,  \* its cancellation was asked for
  accepted,   \* the requests whose answer was accepted and is not yet given
  closing     \* the volume goes away

vars == <<status, effect, cancelled, accepted, closing>>

Init ==
  /\ status = [i \in Irp |-> <<>>]
  /\ effect = [i \in Irp |-> 0]
  /\ cancelled = [i \in Irp |-> FALSE]
  /\ accepted = {}
  /\ closing = FALSE

Cancel(i) ==
  /\ status[i] = <<>>
  /\ cancelled' = [cancelled EXCEPT ![i] = TRUE]
  /\ UNCHANGED <<status, effect, accepted, closing>>

Close ==
  /\ closing' = TRUE
  /\ UNCHANGED <<status, effect, cancelled, accepted>>

Accept(i) ==
  /\ status[i] = <<>>
  /\ ~closing
  /\ accepted' = accepted \cup {i}
  /\ UNCHANGED <<status, effect, cancelled, closing>>

\* When a status may be given to a request.
Allowed(i, s) ==
  \/ s = "ANSWER"
  \/ s = "CANCELLED" /\ (cancelled[i] \/ closing)
  \/ s = "NO_SUCH_DEVICE" /\ closing
  \/ s = "SUCCESS" /\ closing /\ Kind[i] = "cleanup"
  \/ s = "OPLOCK_FAILURE" /\ Kind[i] = "other"
  \/ s = "INSUFFICIENT_RESOURCES"

Complete(i, s) ==
  /\ status[i] = <<>>
  /\ Allowed(i, s)
  /\ i \in accepted <=> s = "ANSWER"
  /\ status' = [status EXCEPT ![i] = <<s>>]
  /\ \/ UNCHANGED effect
     \/ /\ effect[i] = 0
        /\ Kind[i] \in {"create", "cleanup"}
        /\ effect' = [effect EXCEPT ![i] = 1]
  /\ accepted' = accepted \ {i}
  /\ UNCHANGED <<cancelled, closing>>

Statuses == {"SUCCESS", "NO_SUCH_DEVICE", "INSUFFICIENT_RESOURCES", "CANCELLED",
             "OPLOCK_FAILURE", "ANSWER"}

Next ==
  \/ \E i \in Irp : Cancel(i) \/ Accept(i) \/ \E s \in Statuses : Complete(i, s)
  \/ Close

Spec == Init /\ [][Next]_vars
=============================================================================
