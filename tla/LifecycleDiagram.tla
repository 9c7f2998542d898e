-------------------------- MODULE LifecycleDiagram --------------------------
(***************************************************************************)
(* What the lifecycle of a service promises, seen from outside: every      *)
(* service carries one status, and a request moves it along an arrow of    *)
(* the state diagram in packages/io-services-cms-models/README.md. The     *)
(* arrow is chosen when the request is taken up, and followed when it is   *)
(* answered: requests that overlap can find the status elsewhere by then.  *)
(*                                                                         *)
(* ServiceLifecycle implements this specification; see                     *)
(* ServiceLifecycle!Diagram.                                               *)
(***************************************************************************)
CONSTANT ServiceId

VARIABLES
  status,        \* status[s]: "*" until the service is created
  asked          \* asked[s]: where the requests taken up and not answered lead

vars == <<status, asked>>

Arrow == [from : {"*", "draft", "submitted", "approved", "rejected"},
          to : {"draft", "submitted", "approved", "rejected", "deleted"}]

\* The arrows of the diagram, labels dropped.
Arrows == {a \in Arrow : <<a.from, a.to>> \in
             { <<"*", "draft">>,           <<"draft", "draft">>,
               <<"draft", "deleted">>,     <<"draft", "submitted">>,
               <<"submitted", "draft">>,   <<"submitted", "approved">>,
               <<"submitted", "rejected">>,
               <<"rejected", "deleted">>,  <<"rejected", "draft">>,
               <<"approved", "deleted">>,  <<"approved", "draft">> }}

Init == /\ status = [s \in ServiceId |-> "*"]
        /\ asked = [s \in ServiceId |-> {}]

\* A request is taken up: an arrow leaves the status of the moment.
Ask(s) == \E a \in Arrows :
            /\ status[s] = a.from
            /\ asked' = [asked EXCEPT ![s] = @ \cup {a.to}]
            /\ UNCHANGED status

\* Nothing is left of a request to that status, or another one leads there too.
Settle(s, to) ==
  asked' \in {asked, [asked EXCEPT ![s] = @ \ {to}]}

\* A request is answered: the service moves, whatever its status is by now.
Answer(s) == \E to \in asked[s] :
               /\ status' = [status EXCEPT ![s] = to]
               /\ Settle(s, to)

GiveUp(s) == \E to \in asked[s] : Settle(s, to) /\ UNCHANGED status

Next == \E s \in ServiceId : Ask(s) \/ Answer(s) \/ GiveUp(s)

Spec == Init /\ [][Next]_vars
=============================================================================
