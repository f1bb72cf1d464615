------------------------------ MODULE WorkerSlot ------------------------------
(***************************************************************************)
(* The single job slot of the worker (src/src/worker.c, struct `job`) and  *)
(* the operations on it.  Every operation runs in one critical section of  *)
(* the firmware (interrupts masked), so each is a pure function of the     *)
(* slot here and one atomic step wherever it is used.                      *)
(*                                                                         *)
(* A slot is a record:                                                     *)
(*   st   the job state                                                    *)
(*   cmd  the opcode that owns the slot, NoCmd when it is free             *)
(*   req  the request the job was submitted for (`job.req`)                *)
(*   seq  the byte of `job.req` that numbers the request, where it has one *)
(*   res  what the HAL body left (`job.result`, `job.err`), NoRes before   *)
(*                                                                         *)
(* `worker_reset` leaves `job.req` behind in the code.  No operation reads *)
(* it before the next submit overwrites it, so a free slot forgets it.     *)
(***************************************************************************)
CONSTANTS NoCmd, NoReq, NoRes

SlotStates == {"IDLE", "QUEUED", "RUNNING", "DONE", "ERR"}

FreeSlot == [st |-> "IDLE", cmd |-> NoCmd, req |-> NoReq, seq |-> 0,
              res |-> NoRes]

Terminal(s) == s.st \in {"DONE", "ERR"}

InFlight(s) == s.st \in {"QUEUED", "RUNNING"}

(* Only a free slot takes a job; otherwise the submit is refused. *)
worker_submit(s, cmd, req, seq) ==
    IF s.st = "IDLE"
    THEN [st |-> "QUEUED", cmd |-> cmd, req |-> req, seq |-> seq, res |-> NoRes]
    ELSE s

(* Variant for mutation: a foreign finished result reads as RUNNING.       *)
PollWedged(s, cmd) == IF s.cmd = cmd THEN s.st ELSE IF s.st = "IDLE" THEN "IDLE" ELSE "RUNNING"

(* What a poll for cmd reports ...                                         *)
worker_poll(s, cmd) ==
    IF s.cmd = cmd THEN s.st
    ELSE IF InFlight(s) THEN "RUNNING" ELSE "IDLE"

(* ... and what it does to the slot: the finished result of another opcode *)
(* is discarded, because nobody else would free the slot.                  *)
SlotAfterPoll(s, cmd) == IF s.cmd # cmd /\ Terminal(s) THEN FreeSlot ELSE s

(* worker_run_pending's critical section: a queued job becomes running.    *)
TakeJob(s) == [s EXCEPT !.st = "RUNNING"]

(* worker_execute's last critical section: the terminal state is published.*)
PublishJob(s, ok, res) == [s EXCEPT !.st = IF ok THEN "DONE" ELSE "ERR", !.res = res]

(* Variants for mutation: the state is not looked at; nothing is evicted.  *)
DiscardInFlightToo(s, cmd, seq) == IF s.cmd = cmd /\ s.seq # seq THEN FreeSlot ELSE s
DiscardNothing(s, cmd, seq) == s

(* The compare-and-reset helpers: each frees a finished job of one opcode. *)
worker_discard_stale_terminal(s, cmd, seq) ==
    IF s.cmd = cmd /\ Terminal(s) /\ s.seq # seq THEN FreeSlot ELSE s

worker_reclaim_matching_terminal(s, cmd, seq) ==
    IF s.cmd = cmd /\ Terminal(s) /\ s.seq = seq THEN FreeSlot ELSE s

worker_discard_stale_recv(s, recv) ==
    IF s.cmd = recv /\ Terminal(s) THEN FreeSlot ELSE s
===============================================================================
