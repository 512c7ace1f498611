------------------------------- MODULE BlockIO -------------------------------
(***************************************************************************)
(* The userspace block layer of bcachefs-tools: bio completion and bio     *)
(* chaining (linux/bio.c) and the aio-backed submission, the completion    *)
(* thread and its shutdown (linux/blkdev.c).                               *)
(*                                                                         *)
(* The main thread submits a parent bio with submit_bio_wait; child bios   *)
(* chained to it are submitted by other threads.  A bio ends (bio_endio)   *)
(* on whichever thread sees it finish: the submitter when the preflush or  *)
(* the flush is done synchronously, the aio completion thread otherwise.   *)
(* bio_endio of a child runs __bio_chain_endio, which copies the child's   *)
(* status into the parent when the parent has none, then continues with    *)
(* the parent; the parent's end_io wakes submit_bio_wait once its          *)
(* remaining count drops to zero.  At exit, blkdev_cleanup stops the       *)
(* completion thread with an iocb whose data is NULL.                      *)
(*                                                                         *)
(* bio_endio is split at the read and the write of parent->bi_status, the  *)
(* only two accesses to shared state it does without an atomic.           *)
(***************************************************************************)
EXTENDS Integers, FiniteSets

CONSTANTS
    Children,   \* child bios, each submitted by a thread of its own
    Parent,     \* the bio main submits with submit_bio_wait
    Main,       \* the main thread
    Aio,        \* aio_completion_thread
    NullIocb    \* the iocb blkdev_cleanup submits, with data = NULL

Bios == Children \cup {Parent}
Threads == Children \cup {Main, Aio}
Ops == {"read", "write", "flush"}
Status == {"OK", "IOERR"}

VARIABLES
    op,         \* bio_op(bio), and whether REQ_PREFLUSH is set
    status,     \* bio->bi_status
    remaining,  \* bio->__bi_remaining
    chained,    \* BIO_CHAIN in bio->bi_flags
    put,        \* bio_put has freed the bio
    aioq,       \* iocbs submitted to aio_ctx and not yet returned
    running,    \* running_requests
    th,         \* th[t]: pc, the bio bio_endio is at, the status it read
    done,       \* the completion submit_bio_wait waits on
    ret         \* submit_bio_wait's return value

vars == <<op, status, remaining, chained, put, aioq, running, th, done, ret>>

\* The bio a thread submits.
Mine(t) == IF t = Main THEN Parent ELSE t

\* Where a thread resumes when its bio_endio call returns.
Resume(t) == CASE t = Main -> "wait" [] t = Aio -> "dec" [] OTHER -> "idle"

EIO == 5

\* blk_status_to_errno over the statuses the model uses (blk_errors[]).
Errno(s) == IF s = "OK" THEN 0 ELSE -EIO

(***************************************************************************)
(* bio_endio(bio), from its again: label.                                  *)
(***************************************************************************)

\* Variant: the count is read instead of decremented.
RemainingDoneNoDec(b) ==
    IF ~chained[b] THEN [fin |-> TRUE, rem |-> remaining[b]]
    ELSE [fin |-> remaining[b] = 0, rem |-> remaining[b]]

\* Variant: the count is taken as done one completion early.
RemainingDoneEarly(b) ==
    IF ~chained[b] THEN [fin |-> TRUE, rem |-> remaining[b]]
    ELSE [fin |-> remaining[b] - 1 <= 1, rem |-> remaining[b] - 1]

\* bio_remaining_done: TRUE unless the bio is chained and the decrement
\* leaves other completions outstanding.
RemainingDone(b) ==
    IF ~chained[b] THEN [fin |-> TRUE, rem |-> remaining[b]]
    ELSE [fin |-> remaining[b] - 1 = 0, rem |-> remaining[b] - 1]

\* The again: step.  A child (bi_end_io == bio_chain_endio) reads its
\* parent's status; the parent's end_io is submit_bio_wait_endio.
EndioAgain(t) ==
    LET b == th[t].cur
        r == RemainingDone(b)
    IN /\ th[t].pc = "again"
       /\ remaining' = [remaining EXCEPT ![b] = r.rem]
       /\ chained' = [chained EXCEPT ![b] = chained[b] /\ ~r.fin]
       /\ IF ~r.fin
             THEN th' = [th EXCEPT ![t] = [pc |-> Resume(t), cur |-> b, ok |-> FALSE]]
                  /\ UNCHANGED done
          ELSE IF b \in Children
             THEN th' = [th EXCEPT ![t] = [pc |-> "chainw", cur |-> b,
                                           ok |-> status[Parent] = "OK"]]
                  /\ UNCHANGED done
          ELSE th' = [th EXCEPT ![t] = [pc |-> Resume(t), cur |-> b, ok |-> FALSE]]
               /\ done' = TRUE
       /\ UNCHANGED <<op, status, put, aioq, running, ret>>

\* The rest of __bio_chain_endio: the write of the parent's status when it
\* read none, bio_put of the child, and goto again with the parent.
ChainWrite(t) ==
    LET b == th[t].cur IN
    /\ th[t].pc = "chainw"
    /\ status' = IF th[t].ok THEN [status EXCEPT ![Parent] = status[b]] ELSE status
    /\ put' = [put EXCEPT ![b] = TRUE]
    /\ th' = [th EXCEPT ![t] = [pc |-> "again", cur |-> Parent, ok |-> FALSE]]
    /\ UNCHANGED <<op, remaining, chained, aioq, running, done, ret>>

(***************************************************************************)
(* generic_make_request(bio) by the thread that submits it.                *)
(***************************************************************************)

\* fdatasync for REQ_PREFLUSH fails: BLK_STS_IOERR and bio_endio.
GmrPreflushFail(t) ==
    LET b == Mine(t) IN
    /\ th[t].pc = "submit" /\ op[b].preflush
    /\ status' = [status EXCEPT ![b] = "IOERR"]
    /\ th' = [th EXCEPT ![t] = [pc |-> "again", cur |-> b, ok |-> FALSE]]
    /\ UNCHANGED <<op, remaining, chained, put, aioq, running, done, ret>>

\* Variant: the iocb submitted without counting it in running_requests.
GmrAioNoInc(t) ==
    LET b == Mine(t) IN
    /\ th[t].pc = "submit" /\ op[b].op \in {"read", "write"}
    /\ aioq' = aioq \cup {b}
    /\ th' = [th EXCEPT ![t].pc = Resume(t)]
    /\ UNCHANGED <<op, status, remaining, chained, put, running, done, ret>>

\* A read or write: running_requests++ and io_submit of one iocb.
GmrAio(t) ==
    LET b == Mine(t) IN
    /\ th[t].pc = "submit" /\ op[b].op \in {"read", "write"}
    /\ running' = running + 1
    /\ aioq' = aioq \cup {b}
    /\ th' = [th EXCEPT ![t].pc = Resume(t)]
    /\ UNCHANGED <<op, status, remaining, chained, put, done, ret>>

\* REQ_OP_FLUSH: fsync, then bio_endio on the submitter's thread.
GmrFlush(t) ==
    LET b == Mine(t) IN
    /\ th[t].pc = "submit" /\ op[b].op = "flush"
    /\ th' = [th EXCEPT ![t] = [pc |-> "again", cur |-> b, ok |-> FALSE]]
    /\ UNCHANGED <<op, status, remaining, chained, put, aioq, running, done, ret>>

(***************************************************************************)
(* The main thread: submit_bio_wait, then exit and blkdev_cleanup.         *)
(***************************************************************************)

\* Variant: submit_bio used where the caller needed submit_bio_wait.
SubmitBioWaitNoWait ==
    /\ th[Main].pc = "wait"
    /\ ret' = Errno(status[Parent])
    /\ th' = [th EXCEPT ![Main].pc = "exit"]
    /\ UNCHANGED <<op, status, remaining, chained, put, aioq, running, done>>

\* wait_for_completion(&done), then blk_status_to_errno(bio->bi_status).
SubmitBioWait ==
    /\ th[Main].pc = "wait" /\ done
    /\ ret' = Errno(status[Parent])
    /\ th' = [th EXCEPT ![Main].pc = "exit"]
    /\ UNCHANGED <<op, status, remaining, chained, put, aioq, running, done>>

\* blkdev_cleanup: wake the completion thread with a NULL-data iocb.
Cleanup ==
    /\ th[Main].pc = "exit"
    /\ aioq' = aioq \cup {NullIocb}
    /\ th' = [th EXCEPT ![Main].pc = "stop"]
    /\ UNCHANGED <<op, status, remaining, chained, put, running, done, ret>>

\* kthread_stop: wait for the completion thread to return.
KthreadStop ==
    /\ th[Main].pc = "stop" /\ th[Aio].pc = "stopped"
    /\ th' = [th EXCEPT ![Main].pc = "exited"]
    /\ UNCHANGED <<op, status, remaining, chained, put, aioq, running, done, ret>>

(***************************************************************************)
(* aio_completion_thread: one event of io_getevents at a time.             *)
(***************************************************************************)

\* The NULL event: BUG_ON(running_requests != 0), then stop.
AioStop ==
    /\ th[Aio].pc = "wait" /\ NullIocb \in aioq
    /\ aioq' = aioq \ {NullIocb}
    /\ th' = [th EXCEPT ![Aio].pc = IF running # 0 THEN "bug" ELSE "stopped"]
    /\ UNCHANGED <<op, status, remaining, chained, put, running, done, ret>>

\* A bio's event: BLK_STS_IOERR when ev->res is short, then bio_endio.
AioEvent(b) ==
    /\ th[Aio].pc = "wait" /\ b \in aioq
    /\ aioq' = aioq \ {b}
    /\ \E short \in BOOLEAN :
          status' = IF short THEN [status EXCEPT ![b] = "IOERR"] ELSE status
    /\ th' = [th EXCEPT ![Aio] = [pc |-> "again", cur |-> b, ok |-> FALSE]]
    /\ UNCHANGED <<op, remaining, chained, put, running, done, ret>>

\* atomic_dec(&running_requests) after bio_endio returns.
AioDec ==
    /\ th[Aio].pc = "dec"
    /\ running' = running - 1
    /\ th' = [th EXCEPT ![Aio].pc = "wait"]
    /\ UNCHANGED <<op, status, remaining, chained, put, aioq, done, ret>>

(***************************************************************************)
(* The children are chained to the parent (bio_chain: BIO_CHAIN set and   *)
(* one more remaining count per child) before anything is submitted, and   *)
(* the completion thread is waiting (blkdev_init).                         *)
(***************************************************************************)
Init ==
    /\ op \in [Bios -> [op : Ops, preflush : BOOLEAN]]
    /\ status = [b \in Bios |-> "OK"]
    /\ remaining = [b \in Bios |-> IF b = Parent THEN 1 + Cardinality(Children) ELSE 1]
    /\ chained = [b \in Bios |-> b = Parent]
    /\ put = [b \in Bios |-> FALSE]
    /\ aioq = {}
    /\ running = 0
    /\ th = [t \in Threads |->
                [pc |-> IF t = Aio THEN "wait" ELSE "submit", cur |-> Parent, ok |-> FALSE]]
    /\ done = FALSE
    /\ ret = 0

Endio(t) == EndioAgain(t) \/ ChainWrite(t)

Submit(t) == GmrPreflushFail(t) \/ GmrAio(t) \/ GmrFlush(t)

Step(t) ==
    \/ Endio(t) \/ Submit(t)
    \/ t = Main /\ (SubmitBioWait \/ Cleanup \/ KthreadStop)
    \/ t = Aio /\ (AioStop \/ \E b \in Bios : AioEvent(b) \/ AioDec)

Next == \E t \in Threads : Step(t)

\* Every runnable thread is eventually scheduled, and the kernel completes
\* every iocb it was given, so io_getevents returns.
Fairness == \A t \in Threads : WF_vars(Step(t))

Spec == Init /\ [][Next]_vars /\ Fairness

(***************************************************************************)
(* Properties.                                                             *)
(***************************************************************************)

TypeOK ==
    /\ op \in [Bios -> [op : Ops, preflush : BOOLEAN]]
    /\ status \in [Bios -> Status]
    /\ remaining \in [Bios -> 0 .. 1 + Cardinality(Children)]
    /\ chained \in [Bios -> BOOLEAN] /\ put \in [Bios -> BOOLEAN]
    /\ aioq \subseteq Bios \cup {NullIocb}
    /\ running \in 0 .. Cardinality(Bios)
    /\ \A t \in Threads : th[t].pc \in
          {"submit", "again", "chainw", "idle", "wait", "dec", "exit", "stop",
           "exited", "stopped", "bug"}
    /\ done \in BOOLEAN /\ ret \in {0, -EIO}

\* The completion thread never hits BUG_ON(running_requests != 0) at
\* shutdown: when main has waited for its bio, no request is left in
\* flight (blkdev.c 258-259).
ShutdownSafe == th[Aio].pc # "bug"

\* submit_bio_wait is woken only by the step that ends the last child:
\* the parent's end_io runs after every chained child has gone through
\* __bio_chain_endio and been put.
CompletionAfterChildren ==
    [][~done /\ done' => \A c \in Children : put'[c]]_vars

Terminates == <>(th[Main].pc = "exited")

=============================================================================
