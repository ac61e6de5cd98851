--------------------------- MODULE CommandService ---------------------------
(***************************************************************************)
(* What the tasks of the demos take from the MQTT agent, without the pool, *)
(* the message queues, the connection and the phases of the agent task.    *)
(*                                                                         *)
(* A caller has one command in hand at most, and what it has in hand it    *)
(* can post: there is always room in line.  Commands are executed in the   *)
(* order they were posted, one at a time.  A command ends while it is      *)
(* executed or when its wait for an acknowledgment is over, and until then *)
(* asks for what its caller asked for.  It ends once; then it is free.     *)
(* The device may stop at any time, also in the callback of a command.     *)
(***************************************************************************)
EXTENDS Sequences

CONSTANTS Commands, Callers, Kinds, NoRequest

VARIABLES
    place,      \* where each command is
    request,    \* what it asks for, and who asks
    line,       \* the commands that were posted and are not executed yet
    stopped     \* the device has stopped

serviceVars == <<place, request, line, stopped>>

ServiceInit ==
    /\ place = [c \in Commands |-> "free"]
    /\ request = [c \in Commands |-> NoRequest]
    /\ line = <<>>
    /\ stopped = FALSE

Take(c, k, kind) ==
    /\ ~stopped
    /\ place[c] = "free"
    /\ \A d \in Commands : place[d] = "held" => request[d].by # k
    /\ place' = [place EXCEPT ![c] = "held"]
    /\ request' = [request EXCEPT ![c] = [kind |-> kind, by |-> k]]
    /\ UNCHANGED <<line, stopped>>

Post(c) ==
    /\ ~stopped
    /\ place[c] = "held"
    /\ place' = [place EXCEPT ![c] = "line"]
    /\ line' = Append(line, c)
    /\ UNCHANGED <<request, stopped>>

Execute ==
    /\ ~stopped
    /\ line # <<>>
    /\ \A c \in Commands : place[c] # "executed"
    /\ place' = [place EXCEPT ![Head(line)] = "executed"]
    /\ line' = Tail(line)
    /\ UNCHANGED <<request, stopped>>

Await(c) ==
    /\ ~stopped
    /\ place[c] = "executed"
    /\ place' = [place EXCEPT ![c] = "awaiting"]
    /\ UNCHANGED <<request, line, stopped>>

End(c) ==
    /\ ~stopped
    /\ place[c] \in {"executed", "awaiting"}
    /\ place' = [place EXCEPT ![c] = "free"]
    /\ request' = [request EXCEPT ![c] = NoRequest]
    /\ UNCHANGED <<line, stopped>>

Stop ==
    /\ ~stopped
    /\ stopped' = TRUE
    /\ UNCHANGED <<place, request, line>>

StopInCallback(c) ==
    /\ ~stopped
    /\ place[c] \in {"executed", "awaiting"}
    /\ place' = [place EXCEPT ![c] = "lost"]
    /\ stopped' = TRUE
    /\ UNCHANGED <<request, line>>

ServiceNext ==
    \/ \E c \in Commands :
         \/ \E k \in Callers, kind \in Kinds : Take(c, k, kind)
         \/ Post(c) \/ Await(c) \/ End(c) \/ StopInCallback(c)
    \/ Execute \/ Stop

ServiceSpec == ServiceInit /\ [][ServiceNext]_serviceVars
=============================================================================
