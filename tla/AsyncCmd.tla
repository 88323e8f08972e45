------------------------------ MODULE AsyncCmd ------------------------------
(***************************************************************************)
(* rllm's AsyncCmdChannel (src/rllm/src/iface.rs): async callers of exec   *)
(* share a pending_reqs map (request id -> oneshot sender) with a          *)
(* dispatch thread that reads aicirt's responses and routes each one to    *)
(* the sender registered under its "$rid".                                 *)
(*                                                                         *)
(* The aicirt server is outside src/; it is the environment here: it takes *)
(* commands off the command channel in order and answers each once, in any *)
(* order.  Each caller runs exec up to MaxCalls times, one after another.  *)
(* JSON encoding is abstracted: a message carries its "$rid" and, as a     *)
(* history field, the request (caller, call number) it was sent for.  A    *)
(* panic in any thread ends the process: start_aicirt installs a panic    *)
(* hook that kills aicirt and calls exit(100).                             *)
(***************************************************************************)
EXTENDS Naturals, Sequences, FiniteSets, TLC

CONSTANTS
  Callers,      \* the async tasks that call exec
  MaxCalls      \* exec calls per caller

VARIABLES
  pc,           \* pc[c]: "idle" | "inserted" (tx registered) | "waiting" (on rx.await)
  calls,        \* calls[c]: exec calls caller c has started
  pending,      \* pending_reqs: rid -> the request whose oneshot sender it holds
  rxLive,       \* requests whose oneshot receiver still exists
  cmdQ,         \* the command MessageChannel to aicirt (FIFO)
  served,       \* commands aicirt has read and not yet answered
  respQ,        \* the response MessageChannel from aicirt (FIFO)
  inbox,        \* inbox[c]: the value sent on c's oneshot, NoResp if none
  dispatch,     \* the dispatch thread: "recv" | "holding" (tx removed, not yet sent)
  held,         \* what the dispatch thread holds between remove and tx.send
  crashed,      \* a panic ran the panic hook: the process exited
  lastResp,     \* history: lastResp[c], the request whose response c's exec returned
  leaked        \* history: the requests whose exec returned at a failed send

vars == <<pc, calls, pending, rxLive, cmdQ, served, respQ, inbox, dispatch, held, crashed, lastResp, leaked>>

Reqs == Callers \X (1..MaxCalls)
NoResp == [rid |-> <<>>, req |-> <<>>]
NoHeld == [rid |-> <<>>, req |-> <<>>, to |-> <<>>]
Owner(req) == req[1]

(* Mutant: the id counts the caller's calls and is not unique across      *)
(* callers.                                                                *)
NewRidCounter(c, n) == <<"exec", n>>

(* uuid::Uuid::new_v4(): a fresh id for every exec call.                   *)
NewRid(c, n) == <<c, n>>

Rids == {NewRid(r[1], r[2]) : r \in Reqs}
Msgs == [rid : Rids, req : Reqs]

Init ==
  /\ pc = [c \in Callers |-> "idle"]
  /\ calls = [c \in Callers |-> 0]
  /\ pending = <<>>
  /\ rxLive = {}
  /\ cmdQ = <<>> /\ served = {} /\ respQ = <<>>
  /\ inbox = [c \in Callers |-> NoResp]
  /\ dispatch = "recv"
  /\ held = NoHeld
  /\ crashed = FALSE
  /\ lastResp = [c \in Callers |-> <<>>]
  /\ leaked = {}

(* exec up to the insert: a new rid, a oneshot channel, and its sender    *)
(* stored in pending_reqs (HashMap::insert replaces an entry of that rid). *)
Insert(c) ==
  /\ ~crashed /\ pc[c] = "idle" /\ calls[c] < MaxCalls
  /\ calls' = [calls EXCEPT ![c] = @ + 1]
  /\ pending' = (NewRid(c, calls[c] + 1) :> <<c, calls[c] + 1>>) @@ pending
  /\ rxLive' = rxLive \cup {<<c, calls[c] + 1>>}
  /\ pc' = [pc EXCEPT ![c] = "inserted"]
  /\ UNCHANGED <<cmdQ, served, respQ, inbox, dispatch, held, crashed, lastResp, leaked>>

(* exec: cmd_ch.lock().send(..)?.  On success the caller awaits rx; on an *)
(* error exec returns early, dropping rx and leaving its entry in          *)
(* pending_reqs.                                                           *)
Send(c) ==
  /\ ~crashed /\ pc[c] = "inserted"
  /\ \/ /\ cmdQ' = Append(cmdQ, [rid |-> NewRid(c, calls[c]), req |-> <<c, calls[c]>>])
        /\ pc' = [pc EXCEPT ![c] = "waiting"]
        /\ UNCHANGED <<rxLive, leaked>>
     \/ /\ pc' = [pc EXCEPT ![c] = "idle"]
        /\ rxLive' = rxLive \ {<<c, calls[c]>>}
        /\ leaked' = leaked \cup {<<c, calls[c]>>}
        /\ UNCHANGED cmdQ
  /\ UNCHANGED <<calls, pending, served, respQ, inbox, dispatch, held, crashed, lastResp>>

(* exec: rx.await returns the response; the rest of exec only parses it.  *)
Receive(c) ==
  /\ ~crashed /\ pc[c] = "waiting" /\ inbox[c] # NoResp
  /\ pc' = [pc EXCEPT ![c] = "idle"]
  /\ inbox' = [inbox EXCEPT ![c] = NoResp]
  /\ rxLive' = rxLive \ {<<c, calls[c]>>}
  /\ lastResp' = [lastResp EXCEPT ![c] = inbox[c].req]
  /\ UNCHANGED <<calls, pending, cmdQ, served, respQ, dispatch, held, crashed, leaked>>

(* The exec future is dropped while it awaits rx (its task is cancelled). *)
Cancel(c) ==
  /\ ~crashed /\ pc[c] = "waiting"
  /\ pc' = [pc EXCEPT ![c] = "idle"]
  /\ inbox' = [inbox EXCEPT ![c] = NoResp]
  /\ rxLive' = rxLive \ {<<c, calls[c]>>}
  /\ UNCHANGED <<calls, pending, cmdQ, served, respQ, dispatch, held, crashed, lastResp, leaked>>

(* aicirt reads a command, and later answers it.                           *)
ServerRecv ==
  /\ ~crashed /\ cmdQ # <<>>
  /\ cmdQ' = Tail(cmdQ)
  /\ served' = served \cup {Head(cmdQ)}
  /\ UNCHANGED <<pc, calls, pending, rxLive, respQ, inbox, dispatch, held, crashed, lastResp, leaked>>

ServerReply(m) ==
  /\ ~crashed
  /\ served' = served \ {m}
  /\ respQ' = Append(respQ, m)
  /\ UNCHANGED <<pc, calls, pending, rxLive, cmdQ, inbox, dispatch, held, crashed, lastResp, leaked>>

(* Mutant: the sender is looked up (get) and left in pending_reqs.        *)
DispatchRecvGet ==
  /\ ~crashed /\ dispatch = "recv" /\ respQ # <<>>
  /\ respQ' = Tail(respQ)
  /\ IF Head(respQ).rid \in DOMAIN pending
     THEN /\ held' = [rid |-> Head(respQ).rid, req |-> Head(respQ).req,
                      to |-> pending[Head(respQ).rid]]
          /\ dispatch' = "holding"
          /\ UNCHANGED <<crashed, pending>>
     ELSE /\ crashed' = TRUE
          /\ UNCHANGED <<held, pending, dispatch>>
  /\ UNCHANGED <<pc, calls, rxLive, cmdQ, served, inbox, lastResp, leaked>>

(* Dispatch loop, first half: recv, read "$rid", and                      *)
(* pending_reqs.lock().unwrap().remove(&rid).unwrap(): an unknown rid      *)
(* panics.                                                                 *)
DispatchRecv ==
  /\ ~crashed /\ dispatch = "recv" /\ respQ # <<>>
  /\ respQ' = Tail(respQ)
  /\ IF Head(respQ).rid \in DOMAIN pending
     THEN /\ held' = [rid |-> Head(respQ).rid, req |-> Head(respQ).req,
                      to |-> pending[Head(respQ).rid]]
          /\ pending' = [r \in DOMAIN pending \ {Head(respQ).rid} |-> pending[r]]
          /\ dispatch' = "holding"
          /\ UNCHANGED crashed
     ELSE /\ crashed' = TRUE
          /\ UNCHANGED <<held, pending, dispatch>>
  /\ UNCHANGED <<pc, calls, rxLive, cmdQ, served, inbox, lastResp, leaked>>

(* Mutant: sends the thread's whole held record, target included.         *)
DispatchSendWhole ==
  /\ ~crashed /\ dispatch = "holding"
  /\ IF held.to \in rxLive
     THEN /\ inbox' = [inbox EXCEPT ![Owner(held.to)] = held]
          /\ dispatch' = "recv"
          /\ held' = NoHeld
          /\ UNCHANGED crashed
     ELSE /\ crashed' = TRUE
          /\ UNCHANGED <<inbox, dispatch, held>>
  /\ UNCHANGED <<pc, calls, pending, rxLive, cmdQ, served, respQ, lastResp, leaked>>

(* Mutant: the thread body without its loop: it exits after one response. *)
DispatchSendOnce ==
  /\ ~crashed /\ dispatch = "holding"
  /\ IF held.to \in rxLive
     THEN /\ inbox' = [inbox EXCEPT ![Owner(held.to)] = [rid |-> held.rid, req |-> held.req]]
          /\ dispatch' = "exited"
          /\ held' = NoHeld
          /\ UNCHANGED crashed
     ELSE /\ crashed' = TRUE
          /\ UNCHANGED <<inbox, dispatch, held>>
  /\ UNCHANGED <<pc, calls, pending, rxLive, cmdQ, served, respQ, lastResp, leaked>>

(* Dispatch loop, second half: tx.send(resp).unwrap() panics when the     *)
(* receiver is gone.                                                       *)
DispatchSend ==
  /\ ~crashed /\ dispatch = "holding"
  /\ IF held.to \in rxLive
     THEN /\ inbox' = [inbox EXCEPT ![Owner(held.to)] = [rid |-> held.rid, req |-> held.req]]
          /\ dispatch' = "recv"
          /\ held' = NoHeld
          /\ UNCHANGED crashed
     ELSE /\ crashed' = TRUE
          /\ UNCHANGED <<inbox, dispatch, held>>
  /\ UNCHANGED <<pc, calls, pending, rxLive, cmdQ, served, respQ, lastResp, leaked>>

Next ==
  \/ \E c \in Callers : Insert(c) \/ Send(c) \/ Receive(c)
  \/ ServerRecv
  \/ \E m \in served : ServerReply(m)
  \/ DispatchRecv
  \/ DispatchSend

(* The dispatch thread loops forever; tokio polls a woken exec future; an *)
(* exec runs from insert to send without an await; aicirt answers every    *)
(* command it receives.  Starting an exec and cancelling one are the       *)
(* callers' choice and are not fair.                                       *)
Fairness ==
  /\ WF_vars(DispatchRecv) /\ WF_vars(DispatchSend)
  /\ WF_vars(ServerRecv) /\ WF_vars(\E m \in served : ServerReply(m))
  /\ \A c \in Callers : WF_vars(Send(c)) /\ WF_vars(Receive(c))

Spec == Init /\ [][Next]_vars /\ Fairness

(* Callers whose exec future may also be dropped while it awaits.         *)
NextWithCancel == Next \/ \E c \in Callers : Cancel(c)

SpecWithCancel == Init /\ [][NextWithCancel]_vars /\ Fairness

(******************************* properties ********************************)
TypeOK ==
  /\ pc \in [Callers -> {"idle", "inserted", "waiting"}]
  /\ calls \in [Callers -> 0..MaxCalls]
  /\ DOMAIN pending \subseteq Rids /\ \A r \in DOMAIN pending : pending[r] \in Reqs
  /\ rxLive \subseteq Reqs
  /\ cmdQ \in Seq(Msgs) /\ served \subseteq Msgs /\ respQ \in Seq(Msgs)
  /\ inbox \in [Callers -> Msgs \cup {NoResp}]
  /\ dispatch \in {"recv", "holding"}
  /\ held \in [rid : Rids, req : Reqs, to : Reqs] \cup {NoHeld}
  /\ crashed \in BOOLEAN
  /\ lastResp \in [Callers -> Reqs \cup {<<>>}] /\ leaked \subseteq Reqs

(* No unwrap of the dispatch thread fails (an unknown rid, a receiver     *)
(* that is gone), so the panic hook never ends the process.                *)
NoDispatchPanic == ~crashed

(* pending_reqs holds one sender for each exec in flight whose response  *)
(* the dispatch thread has not taken yet, and one for each exec that       *)
(* returned at a failed send (line 249: the leak), and nothing else: the   *)
(* map grows only by the failed sends.                                     *)
InFlight ==
  {<<c, calls[c]>> : c \in {d \in Callers : pc[d] # "idle" /\ inbox[d] = NoResp}} \ {held.to}

PendingAccounted ==
  ~crashed => {pending[r] : r \in DOMAIN pending} = InFlight \cup leaked
              /\ Cardinality(DOMAIN pending) = Cardinality(InFlight) + Cardinality(leaked)

(* Refinement: the callers see AbstractExec.  An exec that has inserted    *)
(* its sender is calling, one awaiting rx has sent; a step of the dispatch *)
(* thread or of aicirt is a stuttering step.                               *)
Exec == INSTANCE AbstractExec WITH
          st <- [c \in Callers |-> CASE pc[c] = "idle" -> "idle"
                                      [] pc[c] = "inserted" -> "calling"
                                      [] OTHER -> "sent"],
          n <- calls,
          last <- lastResp

(* Every exec returns the response to its own command, or fails before     *)
(* sending, and every sent exec eventually returns (AbstractExec!Spec).    *)
ExecRefined == Exec!Spec

=============================================================================
