---------------------------- MODULE AbstractExec ----------------------------
(***************************************************************************)
(* What AsyncCmdChannel::exec promises its callers (src/rllm/src/iface.rs), *)
(* with the channels, the request ids and the dispatch thread abstracted    *)
(* away.  Each caller runs one exec at a time.  An exec either fails before *)
(* its command is sent (send returned Err) or, once the command is sent,    *)
(* returns the response to that very command.                               *)
(***************************************************************************)
EXTENDS Naturals

CONSTANTS
  Callers,      \* the async tasks that call exec
  MaxCalls      \* exec calls per caller

VARIABLES
  st,           \* st[c]: "idle" | "calling" (not yet sent) | "sent"
  n,            \* n[c]: exec calls caller c has started
  last          \* last[c]: the request whose response c's last exec returned

avars == <<st, n, last>>

NoReq == <<>>

Init ==
  /\ st = [c \in Callers |-> "idle"]
  /\ n = [c \in Callers |-> 0]
  /\ last = [c \in Callers |-> NoReq]

Call(c) ==
  /\ st[c] = "idle" /\ n[c] < MaxCalls
  /\ st' = [st EXCEPT ![c] = "calling"]
  /\ n' = [n EXCEPT ![c] = @ + 1]
  /\ UNCHANGED last

SendCmd(c) ==
  /\ st[c] = "calling"
  /\ st' = [st EXCEPT ![c] = "sent"]
  /\ UNCHANGED <<n, last>>

Fail(c) ==
  /\ st[c] = "calling"
  /\ st' = [st EXCEPT ![c] = "idle"]
  /\ UNCHANGED <<n, last>>

Return(c) ==
  /\ st[c] = "sent"
  /\ st' = [st EXCEPT ![c] = "idle"]
  /\ last' = [last EXCEPT ![c] = <<c, n[c]>>]
  /\ UNCHANGED n

Next == \E c \in Callers : Call(c) \/ SendCmd(c) \/ Fail(c) \/ Return(c)

(* A started exec sends or fails, and a sent one returns.  Starting one is *)
(* the caller's choice.                                                     *)
Spec ==
  /\ Init /\ [][Next]_avars
  /\ \A c \in Callers : WF_avars(SendCmd(c) \/ Fail(c)) /\ WF_avars(Return(c))

=============================================================================
