----------------------------- MODULE CmdChannel -----------------------------
(***************************************************************************)
(* rllm's synchronous CmdChannel (src/rllm/src/iface.rs): exec is send     *)
(* then expect, and the cmd_pending flag asserts that the two alternate.   *)
(* One thread owns the channel (&mut self).  aicirt, outside src/, answers *)
(* each command in order.  MessageChannel::send and recv return a Result;  *)
(* with Faults they may fail, the way any call that returns a Result may. *)
(* A panic ends the process through start_aicirt's panic hook.             *)
(***************************************************************************)
EXTENDS Naturals, Sequences

CONSTANTS
  MaxExecs,     \* exec calls the owner makes
  Faults        \* whether send and recv may return an error

VARIABLES
  cmdPending,   \* CmdChannel::cmd_pending
  phase,        \* the owner: "idle" | "sent" (between send_bytes and expect)
  execs,        \* exec calls made so far
  cmdQ,         \* command channel to aicirt
  respQ,        \* response channel from aicirt
  panicked      \* an assert! failed

vars == <<cmdPending, phase, execs, cmdQ, respQ, panicked>>

(* CmdChannel::new                                                         *)
Init ==
  /\ cmdPending = FALSE /\ phase = "idle" /\ execs = 0
  /\ cmdQ = <<>> /\ respQ = <<>> /\ panicked = FALSE

(* exec -> send -> send_bytes: assert!(!cmd_pending), set it, then send;  *)
(* a failed send returns Err from exec with cmd_pending still set.         *)
SendBytes ==
  /\ ~panicked /\ phase = "idle" /\ execs < MaxExecs
  /\ execs' = execs + 1
  /\ IF cmdPending
     THEN /\ panicked' = TRUE
          /\ UNCHANGED <<cmdPending, phase, cmdQ>>
     ELSE /\ cmdPending' = TRUE
          /\ \/ /\ cmdQ' = Append(cmdQ, execs + 1) /\ phase' = "sent"
             \/ /\ Faults /\ phase' = "idle" /\ UNCHANGED cmdQ
          /\ UNCHANGED panicked
  /\ UNCHANGED respQ

(* exec -> expect: assert!(cmd_pending), recv (which may fail, leaving    *)
(* cmd_pending set), clear cmd_pending; a bad response only makes exec     *)
(* return Err.                                                             *)
Expect ==
  /\ ~panicked /\ phase = "sent"
  /\ phase' = "idle"
  /\ IF ~cmdPending
     THEN /\ panicked' = TRUE /\ UNCHANGED <<cmdPending, respQ>>
     ELSE \/ /\ respQ # <<>> /\ respQ' = Tail(respQ) /\ cmdPending' = FALSE
             /\ UNCHANGED panicked
          \/ /\ Faults /\ UNCHANGED <<cmdPending, respQ, panicked>>
  /\ UNCHANGED <<execs, cmdQ>>

(* aicirt answers the next command.                                        *)
ServerReply ==
  /\ ~panicked /\ cmdQ # <<>>
  /\ cmdQ' = Tail(cmdQ) /\ respQ' = Append(respQ, Head(cmdQ))
  /\ UNCHANGED <<cmdPending, phase, execs, panicked>>

Next == SendBytes \/ Expect \/ ServerReply

Spec == Init /\ [][Next]_vars

(* Neither assert! of send_bytes and expect fails, whatever the results   *)
(* of earlier exec calls were.                                             *)
NoAssertFail == ~panicked

=============================================================================
