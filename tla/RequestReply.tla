---------------------------- MODULE RequestReply ----------------------------
(***************************************************************************)
(* What a request made through RpcSocket::do_send_request promises its     *)
(* caller: the call ends once, with what the server answered to that very  *)
(* call, or with a timeout.  How ids, the pending table and the expiry     *)
(* timers achieve that is the business of RpcSocket.                       *)
(***************************************************************************)
CONSTANT
    Calls       \* the calls made during the life of the socket, each once

VARIABLES
    status,     \* where each call stands
    answer      \* what the server has answered to each call

vars == <<status, answer>>

\* How an answer ends the call that receives it, if it does.
Verdict(a) == CASE a = "result"                 -> "returned"
                [] a \in {"error", "badResult"} -> "failed"
                [] OTHER                        -> "none"

Init ==
    /\ status = [c \in Calls |-> "unsent"]
    /\ answer = [c \in Calls |-> "none"]

Send(c) ==
    /\ status[c] = "unsent"
    /\ status' = [status EXCEPT ![c] = "waiting"]
    /\ UNCHANGED answer

\* The server answers at most once, in time or not.
Answer(c) ==
    /\ status[c] # "unsent"
    /\ answer[c] = "none"
    /\ \E a \in {"result", "badResult", "error", "malformed", "lost"} :
          answer' = [answer EXCEPT ![c] = a]
    /\ UNCHANGED status

Complete(c) ==
    /\ status[c] = "waiting"
    /\ \E s \in {"timedOut", Verdict(answer[c])} \ {"none"} :
          status' = [status EXCEPT ![c] = s]
    /\ UNCHANGED answer

Next == \E c \in Calls : Send(c) \/ Answer(c) \/ Complete(c)

Spec == Init /\ [][Next]_vars /\ \A c \in Calls : WF_vars(Complete(c))
=============================================================================
