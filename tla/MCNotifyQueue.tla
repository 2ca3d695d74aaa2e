--------------------------- MODULE MCNotifyQueue ---------------------------
(* Instances of NotifyQueue for TLC, and the loop of PullEvents as the code *)
(* runs it, against which the closed form in NotifyQueue is compared.       *)
EXTENDS NotifyQueue

CONSTANTS e1, e2, e3, e4, e5

MixedSizes == [e \in Event |-> CASE e = e1 -> 1 [] e = e2 -> 2 [] e = e3 -> 3 [] OTHER -> 2]
EqualSizes == [e \in Event |-> 1]

\* The load never ends: another request produces an event that was delivered.
SendAnew(e) ==
  /\ e \in sent
  /\ e \notin Range(notifyEvent)
  /\ sent' = sent \ {e}
  /\ UNCHANGED <<notifyEvent, linked, pc, pulled, release>>

SustainedSpec ==
  Init /\ [][Next \/ \E e \in Event : SendAnew(e)]_vars /\ Fairness

\* One turn of the while loop of PullEvents per level; seen is
\* alreadySeenWorkItem, of which <<>> stands for NULL.
RECURSIVE PullWhile(_, _, _, _)
PullWhile(list, room, taken, seen) ==
  IF list = <<>> THEN [taken |-> taken, rest |-> list]
  ELSE LET item == Head(list)
           back == Append(Tail(list), item)
       IN IF room < Size[item]
          THEN IF seen = <<item>> THEN [taken |-> taken, rest |-> back]
               ELSE PullWhile(back, room, taken,
                              IF seen = <<>> THEN <<item>> ELSE seen)
          ELSE IF AllowIpcBatching
               THEN PullWhile(Tail(list), room - Size[item],
                              Append(taken, item), seen)
               ELSE [taken |-> Append(taken, item), rest |-> Tail(list)]

(* The closed form used by the specification and proved about is the loop  *)
(* of PullEvents: same events in the buffer, same order left in the list.  *)
PullEventsIsLoop ==
  LET loop == PullWhile(notifyEvent, Capacity, <<>>, <<>>)
  IN /\ loop.taken = PullLoop(notifyEvent).taken
     /\ loop.rest = Remaining(notifyEvent)
=============================================================================
