----------------------------- MODULE CameraNode -----------------------------
(***************************************************************************)
(* The camera node of src/dataset_gen/pi: the zero-copy frame pipeline     *)
(* between libcamera's completion thread and the main (encoder) thread,    *)
(* driven by the GPIO trigger signal and stopped by SIGINT/SIGTERM.        *)
(*                                                                         *)
(*   camera_handler_t::queue_request     (run from the SIGUSR1 handler)    *)
(*   camera_handler_t::request_complete  (libcamera's completion thread)   *)
(*   main's while (running) loop         (sem_wait, dequeue, encode)       *)
(*   capture_signal_handler              (SIGUSR1 and SIGINT/SIGTERM)      *)
(*   ~camera_handler_t                   (static destruction after main)   *)
(*                                                                         *)
(* Buffer i and request i are identified by the cookie i in 0..N-1.        *)
(* A signal handler runs on some thread of the process (its "host"): the   *)
(* main thread, the completion thread or another libcamera thread.  While  *)
(* it runs, its host makes no step, and if it interrupts the main thread   *)
(* blocked in sem_wait, sem_wait returns EINTR (no SA_RESTART is set).     *)
(***************************************************************************)
EXTENDS Integers, Sequences, Functions

CONSTANTS
    N,            \* DMA_BUFFERS: buffers, requests and frame_queue capacity
    MaxTriggers,  \* bound on the SIGUSR1 trigger signals delivered
    HwLimit       \* captures still in flight when a trigger arrives

ASSUME NAssumption == N \in Nat \ {0}
ASSUME MaxTriggersAssumption == MaxTriggers \in Nat
ASSUME HwLimitAssumption == HwLimit \in Nat

Req == 0 .. N - 1          \* cookies of requests_ and mmap_buffers_
NoReq == -1
Hosts == {"main", "cb", "other"}

VARIABLES
    running,     \* volatile sig_atomic_t running
    mainPc,      \* where the main thread is
    held,        \* buffer the main thread dequeued and is encoding
    sem,         \* value of the semaphore queue_counter
    frameQueue,  \* lock_free_queue_t frame_queue: buffer cookies, FIFO
    hw,          \* requests queued to the camera, in completion order
    cbPc,        \* where the completion callback is
    cbReq,       \* the request the callback is handling
    cursor,      \* next_req_idx_
    trigPc,      \* "idle" or "submit": the SIGUSR1 handler in queue_request
    trigHost,    \* the thread the SIGUSR1 handler interrupted
    trigVal,     \* enqueued_bufs read by sem_getvalue
    triggers,    \* trigger signals delivered so far
    stopReq,     \* a SIGINT/SIGTERM has been handled
    aborted      \* std::terminate ended the process

vars == <<running, mainPc, held, sem, frameQueue, hw, cbPc, cbReq,
          cursor, trigPc, trigHost, trigVal, triggers, stopReq, aborted>>

MainPcs == {"start", "top", "wait", "deq", "encode", "exited", "gone"}
CbPcs == {"idle", "enq", "post", "reuse"}

TypeOK ==
    /\ running \in BOOLEAN
    /\ mainPc \in MainPcs
    /\ held \in Req \cup {NoReq}
    /\ sem \in Nat
    /\ frameQueue \in Seq(Req)
    /\ hw \in Seq(Req)
    /\ cbPc \in CbPcs
    /\ cbReq \in Req \cup {NoReq}
    /\ cursor \in Req
    /\ trigPc \in {"idle", "submit"}
    /\ trigHost \in Hosts
    /\ trigVal \in Nat
    /\ triggers \in 0 .. MaxTriggers
    /\ stopReq \in BOOLEAN
    /\ aborted \in BOOLEAN

-----------------------------------------------------------------------------
(* The process is over: main returned and the statics were destroyed, or   *)
(* an exception escaped a handler on a thread with no catch.               *)
Halted == aborted \/ mainPc = "gone"

(* A thread makes no step while a signal handler runs on top of it.        *)
Suspended(t) == trigPc = "submit" /\ trigHost = t

(* A handler that returns to the main thread blocked in sem_wait makes     *)
(* sem_wait fail with EINTR; main then goes on to frame_queue.dequeue().   *)
Interrupt(host) ==
    IF host = "main" /\ mainPc = "wait" /\ sem = 0
    THEN mainPc' = "deq"
    ELSE mainPc' = mainPc

(* Requests the camera or the callback have not yet handed back.           *)
InFlight == Len(hw) + (IF cbPc = "idle" THEN 0 ELSE 1)

-----------------------------------------------------------------------------
(* main: running = 1 after the handlers are installed (lines 69-72).       *)
Start ==
    /\ mainPc = "start" /\ ~Halted /\ ~Suspended("main")
    /\ running' = TRUE
    /\ mainPc' = "top"
    /\ UNCHANGED <<held, sem, frameQueue, hw, cbPc, cbReq, cursor,
                   trigPc, trigHost, trigVal, triggers, stopReq, aborted>>

(* while (running) { arm_timer(); ... }; leaving the loop leaves the try   *)
(* block, destroying the local frame_queue, and main returns.              *)
LoopTop ==
    /\ mainPc = "top" /\ ~Halted /\ ~Suspended("main")
    /\ mainPc' = IF running THEN "wait" ELSE "exited"
    /\ UNCHANGED <<running, held, sem, frameQueue, hw, cbPc, cbReq,
                   cursor, trigPc, trigHost, trigVal, triggers, stopReq, aborted>>

(* sem_wait(&queue_counter) returning 0.                                   *)
SemWait ==
    /\ mainPc = "wait" /\ ~Halted /\ ~Suspended("main")
    /\ sem > 0
    /\ sem' = sem - 1
    /\ mainPc' = "deq"
    /\ UNCHANGED <<running, held, frameQueue, hw, cbPc, cbReq, cursor,
                   trigPc, trigHost, trigVal, triggers, stopReq, aborted>>

(* void* frame = frame_queue.dequeue(); if (!frame) continue;              *)
Dequeue ==
    /\ mainPc = "deq" /\ ~Halted /\ ~Suspended("main")
    /\ IF frameQueue = <<>>
       THEN /\ mainPc' = "top"
            /\ UNCHANGED <<held, frameQueue>>
       ELSE /\ held' = Head(frameQueue)
            /\ frameQueue' = Tail(frameQueue)
            /\ mainPc' = "encode"
    /\ UNCHANGED <<running, sem, hw, cbPc, cbReq, cursor,
                   trigPc, trigHost, trigVal, triggers, stopReq, aborted>>

(* encoder.encode_frame(frame, stream_pkt, conn): reads the DMA buffer.    *)
Encode ==
    /\ mainPc = "encode" /\ ~Halted /\ ~Suspended("main")
    /\ held' = NoReq
    /\ mainPc' = "top"
    /\ UNCHANGED <<running, sem, frameQueue, hw, cbPc, cbReq, cursor,
                   trigPc, trigHost, trigVal, triggers, stopReq, aborted>>

(* After main returns, the global cam is destroyed: camera_->stop()        *)
(* cancels the requests still queued (their callbacks return at once),     *)
(* then the process ends.                                                  *)
Teardown ==
    /\ mainPc = "exited" /\ ~Halted
    /\ mainPc' = "gone"
    /\ hw' = <<>>
    /\ UNCHANGED <<running, held, sem, frameQueue, cbPc, cbReq, cursor,
                   trigPc, trigHost, trigVal, triggers, stopReq, aborted>>

-----------------------------------------------------------------------------
(* request_complete on libcamera's thread, for the oldest queued request   *)
(* (its status is not RequestCancelled while the camera runs), then        *)
(* frame_queue.enqueue(mmap_buffers_[cookie]), sem_post, request->reuse.   *)
(* Variant with the status test inverted: every completed request is      *)
(* taken for a cancelled one and dropped.                                  *)
RequestCompleteDropped ==
    /\ cbPc = "idle" /\ hw # <<>> /\ ~Halted /\ ~Suspended("cb")
    /\ hw' = Tail(hw)
    /\ UNCHANGED <<running, mainPc, held, sem, frameQueue, cbPc, cbReq, cursor,
                   trigPc, trigHost, trigVal, triggers, stopReq, aborted>>

RequestComplete ==
    /\ cbPc = "idle" /\ hw # <<>> /\ ~Halted /\ ~Suspended("cb")
    /\ cbReq' = Head(hw)
    /\ hw' = Tail(hw)
    /\ cbPc' = "enq"
    /\ UNCHANGED <<running, mainPc, held, sem, frameQueue, cursor,
                   trigPc, trigHost, trigVal, triggers, stopReq, aborted>>

(* enqueue's result is ignored: a full queue drops the pointer.            *)
CbEnqueue ==
    /\ cbPc = "enq" /\ ~Halted /\ ~Suspended("cb")
    /\ frameQueue' = IF Len(frameQueue) < N
                     THEN Append(frameQueue, cbReq) ELSE frameQueue
    /\ cbPc' = "post"
    /\ UNCHANGED <<running, mainPc, held, sem, hw, cbReq, cursor,
                   trigPc, trigHost, trigVal, triggers, stopReq, aborted>>

CbPost ==
    /\ cbPc = "post" /\ ~Halted /\ ~Suspended("cb")
    /\ sem' = sem + 1
    /\ cbPc' = "reuse"
    /\ UNCHANGED <<running, mainPc, held, frameQueue, hw, cbReq, cursor,
                   trigPc, trigHost, trigVal, triggers, stopReq, aborted>>

CbReuse ==
    /\ cbPc = "reuse" /\ ~Halted /\ ~Suspended("cb")
    /\ cbPc' = "idle"
    /\ cbReq' = NoReq
    /\ UNCHANGED <<running, mainPc, held, sem, frameQueue, hw, cursor,
                   trigPc, trigHost, trigVal, triggers, stopReq, aborted>>

-----------------------------------------------------------------------------
(* A GPIO edge delivers SIGUSR1 to a thread of the process.  The kernel    *)
(* driver fires at the configured frame cadence: HwLimit bounds the        *)
(* captures not yet handed back when the next edge comes.                  *)
(* capture_signal_handler: if running, queue_request() reads               *)
(* sem_getvalue(&queue_counter); otherwise the handler does nothing.       *)
CaptureSignal ==
    /\ trigPc = "idle" /\ ~Halted
    /\ triggers < MaxTriggers
    /\ InFlight <= HwLimit
    /\ triggers' = triggers + 1
    /\ \E host \in Hosts :
         /\ trigHost' = host
         /\ IF running
            THEN /\ trigPc' = "submit"
                 /\ trigVal' = sem
                 /\ mainPc' = mainPc
            ELSE /\ UNCHANGED <<trigPc, trigVal>>
                 /\ Interrupt(host)
    /\ UNCHANGED <<running, held, sem, frameQueue, hw, cbPc, cbReq,
                   cursor, stopReq, aborted>>

(* queue_request: if enqueued_bufs > dma_frame_buffers_ - 2 it throws      *)
(* ("Buffer is not ready for requeuing") out of the signal handler: on the *)
(* main thread main's catch returns 1, leaving the try block; elsewhere    *)
(* nothing catches it and std::terminate aborts the process.  Otherwise    *)
(* camera_->queueRequest(requests_[next_req_idx_]) and advance the cursor. *)
(* Variant with the margin off by one (dma_frame_buffers_ - 1).            *)
BufferNotReadyMargin1(v) == v > N - 1

BufferNotReady(v) == v > N - 2

(* Variant without the wrap-around (next_req_idx_ %= requests_.size()).     *)
NextReqIdxNoWrap(i) == i + 1

NextReqIdx(i) == (i + 1) % N

QueueRequest ==
    /\ trigPc = "submit" /\ ~Halted
    /\ trigPc' = "idle"
    /\ IF BufferNotReady(trigVal)
       THEN /\ IF trigHost = "main"
               THEN mainPc' = "exited" /\ aborted' = aborted
               ELSE mainPc' = mainPc /\ aborted' = TRUE
            /\ UNCHANGED <<hw, cursor>>
       ELSE /\ hw' = Append(hw, cursor)
            /\ cursor' = NextReqIdx(cursor)
            /\ Interrupt(trigHost)
            /\ aborted' = aborted
    /\ UNCHANGED <<running, held, sem, frameQueue, cbPc, cbReq,
                   trigHost, trigVal, triggers, stopReq>>

(* capture_signal_handler for SIGINT/SIGTERM: running = 0, close the       *)
(* socket, sem_destroy(&queue_counter).  No sem_post.  glibc's sem_destroy *)
(* leaves the semaphore usable, so later sem_wait/sem_post behave as       *)
(* before (POSIX leaves this undefined).                                   *)
Shutdown ==
    /\ ~stopReq /\ ~Halted
    /\ stopReq' = TRUE
    /\ running' = FALSE
    /\ \E host \in Hosts :
         IF Suspended(host) THEN UNCHANGED mainPc ELSE Interrupt(host)
    /\ UNCHANGED <<held, sem, frameQueue, hw, cbPc, cbReq, cursor,
                   trigPc, trigHost, trigVal, triggers, aborted>>

-----------------------------------------------------------------------------
Init ==
    /\ running = FALSE
    /\ mainPc = "start"
    /\ held = NoReq
    /\ sem = 0
    /\ frameQueue = <<>>
    /\ hw = <<>>
    /\ cbPc = "idle"
    /\ cbReq = NoReq
    /\ cursor = 0
    /\ trigPc = "idle"
    /\ trigHost = "other"
    /\ trigVal = 0
    /\ triggers = 0
    /\ stopReq = FALSE
    /\ aborted = FALSE

MainThread == Start \/ LoopTop \/ SemWait \/ Dequeue \/ Encode \/ Teardown
CompletionThread == RequestComplete \/ CbEnqueue \/ CbPost \/ CbReuse
Signals == CaptureSignal \/ QueueRequest \/ Shutdown

Next == MainThread \/ CompletionThread \/ Signals

(* The main thread (SCHED_FIFO, pinned), libcamera's completion thread and *)
(* a running signal handler all make progress; the camera completes what   *)
(* is queued.  Signal delivery itself is left to the environment.          *)
Fairness ==
    /\ WF_vars(MainThread)
    /\ WF_vars(CompletionThread)
    /\ WF_vars(QueueRequest)

Spec == Init /\ [][Next]_vars
FairSpec == Spec /\ Fairness

-----------------------------------------------------------------------------
(* PROPERTIES                                                              *)

(* Each DMA buffer has at most one owner: the camera (a queued request),   *)
(* the callback about to enqueue it, frame_queue, or the encoder.  This is *)
(* what queue_request's "dma_frame_buffers_ - 2" check is for: a request   *)
(* is never resubmitted while its buffer is still queued or being encoded, *)
(* so the camera never writes into a frame the encoder reads.              *)
BufferExclusive ==
    LET inHw == Range(hw)
        inQueue == Range(frameQueue)
    IN /\ IsInjective(hw)
       /\ IsInjective(frameQueue)
       /\ inHw \cap inQueue = {}
       /\ held \notin inHw \cup inQueue
       /\ cbPc = "enq" => cbReq \notin inHw \cup inQueue \cup {held}

(* The comment in queue_request (and the spec's invariant 2) says that     *)
(* queue_counter lags the number of enqueued buffers by at most one: the   *)
(* main thread between sem_wait and dequeue.                               *)
SemLagAtMostOne == sem >= Len(frameQueue) - 1

(* Every frame the camera is asked for reaches the encoder, unless the     *)
(* process ends first: the completion callback hands the buffer on, its    *)
(* sem_post wakes the main loop, and no EINTR or lagging counter leaves    *)
(* the main thread asleep in sem_wait with the frame still queued.         *)
FramesDelivered ==
    \A r \in Req : (r \in Range(hw)) ~> (held = r \/ Halted)

(* Spec section 5: once shutdown is observed no further capture requests   *)
(* are queued (capture_signal_handler tests running before queue_request). *)
NoSubmitAfterShutdown == [][stopReq => Len(hw') <= Len(hw)]_vars

NoEnqueueAfterExit ==
    [][(mainPc \in {"exited", "gone"}) => (frameQueue' = frameQueue)]_vars
=============================================================================
