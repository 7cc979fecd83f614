-------------------------- MODULE CameraNodeProofs --------------------------
(***************************************************************************)
(* Proofs about the camera node's frame pipeline (module CameraNode).      *)
(*                                                                         *)
(* 1. Type correctness of every state the pipeline reaches.                *)
(* 2. Buffer exclusivity when every capture is handed back before the next *)
(*    trigger (HwLimit = 0), for every number N of DMA buffers.  The       *)
(*    argument: the buffers in use form a window of consecutive cookies    *)
(*    (mod N) that ends just before next_req_idx_, ordered oldest first:   *)
(*    the encoder's buffer, frame_queue, the callback's buffer, the        *)
(*    requests in the camera.  queue_request's margin keeps the window no  *)
(*    longer than N, so no cookie occurs in it twice.  The margin works    *)
(*    because the semaphore lags the queue by at most one while the        *)
(*    callback is not between enqueue and sem_post, and a trigger is only  *)
(*    taken when that callback has finished.                               *)
(***************************************************************************)
EXTENDS CameraNode, TLAPS

(* The completion callback always holds a request while it is busy.        *)
TypeInv ==
    /\ TypeOK
    /\ cbPc # "idle" => cbReq \in Req

-----------------------------------------------------------------------------
(* The strengthening of BufferExclusive.                                   *)

(* 1 if the encoder holds a buffer.                                        *)
HeldCount == IF held = NoReq THEN 0 ELSE 1
(* 1 if the callback holds a buffer it has not enqueued yet.               *)
EnqCount == IF cbPc = "enq" THEN 1 ELSE 0
(* 1 if the callback has enqueued but not yet posted.                      *)
PostCount == IF cbPc = "post" THEN 1 ELSE 0
(* 1 if the main thread may have consumed a count without its frame:      *)
(* between sem_wait and dequeue, or gone from there out of main.           *)
LagCount == IF \/ mainPc = "deq"
               \/ mainPc \in {"exited", "gone"} /\ held = NoReq
            THEN 1 ELSE 0

(* Number of buffers in use.                                               *)
PipeLen == HeldCount + Len(frameQueue) + EnqCount + Len(hw)

(* The cookie k places after cookie b, wrapping around once: the same as   *)
(* (b + k) % N for b \in Req and k \in 0 .. N.                             *)
Cookie(b, k) == IF b + k < N THEN b + k ELSE b + k - N

(* The buffers in use, oldest first, are the cookies b, b+1, ... (mod N),  *)
(* and next_req_idx_ is the one after the last.                            *)
Window(b) ==
    /\ held # NoReq => held = b
    /\ \A i \in 1 .. Len(frameQueue) :
          frameQueue[i] = Cookie(b, HeldCount + i - 1)
    /\ cbPc = "enq" => cbReq = Cookie(b, HeldCount + Len(frameQueue))
    /\ \A i \in 1 .. Len(hw) :
          hw[i] = Cookie(b, HeldCount + Len(frameQueue) + EnqCount + i - 1)
    /\ mainPc # "gone" => cursor = Cookie(b, PipeLen)

(* The encoder holds a buffer exactly between dequeue and the next loop.   *)
HeldLink ==
    /\ held # NoReq => mainPc \in {"encode", "exited", "gone"}
    /\ mainPc = "encode" => held # NoReq

(* queue_counter lags frame_queue by at most the main thread's window      *)
(* between sem_wait and dequeue plus the callback's between enqueue and    *)
(* sem_post.                                                               *)
SemAccount == Len(frameQueue) <= sem + LagCount + PostCount

(* While a trigger handler is between sem_getvalue and queueRequest the    *)
(* camera and callback are idle and the value it read still bounds the     *)
(* buffers in frame_queue and in the encoder.                              *)
TriggerBound ==
    trigPc = "submit" =>
       /\ hw = <<>>
       /\ cbPc = "idle"
       /\ Len(frameQueue) + HeldCount <= trigVal + 1

IInv ==
    /\ TypeInv
    /\ HeldLink
    /\ SemAccount
    /\ TriggerBound
    /\ PipeLen <= N
    /\ \E b \in Req : Window(b)

-----------------------------------------------------------------------------

(* The initial state is well typed.                                       *)
LEMMA TypeInvInit == Init => TypeInv
<1> SUFFICES ASSUME Init PROVE TypeInv
  OBVIOUS
<1>1. <<>> \in Seq(Req)
  OBVIOUS
<1>2. 0 \in Req /\ 0 \in 0 .. MaxTriggers
  BY NAssumption, MaxTriggersAssumption DEF Req
<1> QED
  BY <1>1, <1>2 DEF Init, TypeInv, TypeOK, NoReq, Hosts, MainPcs, CbPcs

(* Every step of the pipeline preserves the types.                        *)
LEMMA TypeInvNext == TypeInv /\ [Next]_vars => TypeInv'
<1> SUFFICES ASSUME TypeInv, [Next]_vars PROVE TypeInv'
  OBVIOUS
<1> USE NAssumption, MaxTriggersAssumption DEF TypeInv, TypeOK, Req, NoReq,
        Hosts, MainPcs, CbPcs
<1>1. CASE Start
  BY <1>1 DEF Start
<1>2. CASE LoopTop
  BY <1>2 DEF LoopTop
<1>3. CASE SemWait
  BY <1>3 DEF SemWait
<1>4. CASE Dequeue
  <2>1. CASE frameQueue = <<>>
    BY <1>4, <2>1 DEF Dequeue
  <2>2. CASE frameQueue # <<>>
    <3>1. Head(frameQueue) \in Req /\ Tail(frameQueue) \in Seq(Req)
      BY <2>2
    <3> QED
      BY <1>4, <2>2, <3>1 DEF Dequeue
  <2> QED
    BY <2>1, <2>2
<1>5. CASE Encode
  BY <1>5 DEF Encode
<1>6. CASE Teardown
  BY <1>6 DEF Teardown
<1>7. CASE RequestComplete
  BY <1>7 DEF RequestComplete
<1>8. CASE CbEnqueue
  <2>1. Append(frameQueue, cbReq) \in Seq(Req)
    BY <1>8 DEF CbEnqueue
  <2> QED
    BY <1>8, <2>1 DEF CbEnqueue
<1>9. CASE CbPost
  BY <1>9 DEF CbPost
<1>10. CASE CbReuse
  BY <1>10 DEF CbReuse
<1>11. CASE CaptureSignal
  BY <1>11 DEF CaptureSignal, Interrupt
<1>12. CASE QueueRequest
  <2>1. CASE BufferNotReady(trigVal)
    BY <1>12, <2>1 DEF QueueRequest
  <2>2. CASE ~BufferNotReady(trigVal)
    <3>1. NextReqIdx(cursor) \in Req
      BY DEF NextReqIdx
    <3>2. Append(hw, cursor) \in Seq(Req)
      OBVIOUS
    <3>3. mainPc' \in MainPcs
      BY <1>12, <2>2 DEF QueueRequest, Interrupt
    <3>4. /\ hw' = Append(hw, cursor) /\ cursor' = NextReqIdx(cursor)
          /\ aborted' = aborted /\ trigPc' = "idle"
          /\ UNCHANGED <<running, held, sem, frameQueue, cbPc, cbReq,
                         trigHost, trigVal, triggers, stopReq>>
      BY <1>12, <2>2 DEF QueueRequest
    <3> QED
      BY <3>1, <3>2, <3>3, <3>4
  <2> QED
    BY <2>1, <2>2
<1>13. CASE Shutdown
  BY <1>13 DEF Shutdown, Interrupt, Suspended
<1>14. CASE UNCHANGED vars
  BY <1>14 DEF vars
<1> QED
  BY <1>1, <1>2, <1>3, <1>4, <1>5, <1>6, <1>7, <1>8, <1>9, <1>10, <1>11,
     <1>12, <1>13, <1>14 DEF Next, MainThread, CompletionThread, Signals

(* Type correctness: every reachable state of the pipeline has the types   *)
(* TypeOK gives, in particular next_req_idx_ stays a valid index of        *)
(* requests_ after queue_request's increment and wrap-around.             *)
THEOREM TypeCorrect == Spec => []TypeOK
<1>1. TypeInv => TypeOK
  BY DEF TypeInv
<1> QED
  BY TypeInvInit, TypeInvNext, <1>1, PTL DEF Spec

-----------------------------------------------------------------------------

(* The remainder of a = n * q + r with 0 <= r < n is r.                    *)
LEMMA ModUnique ==
    ASSUME NEW n \in Nat \ {0}, NEW a \in Int, NEW q \in Int,
           NEW r \in 0 .. n - 1, a = n * q + r
    PROVE  a % n = r
  OBVIOUS

(* next_req_idx_ = (next_req_idx_ + 1) % size wraps to 0 after size - 1.   *)
LEMMA ModSucc ==
    ASSUME NEW n \in Nat \ {0}, NEW c \in 0 .. n - 1
    PROVE  (c + 1) % n = IF c + 1 < n THEN c + 1 ELSE 0
<1>1. CASE c + 1 < n
  <2>1. c + 1 = n * 0 + (c + 1)
    OBVIOUS
  <2> QED
    BY <1>1, <2>1, ModUnique
<1>2. CASE c + 1 = n
  <2>1. c + 1 = n * 1 + 0
    BY <1>2
  <2> QED
    BY <1>2, <2>1, ModUnique
<1> QED
  BY <1>1, <1>2

(* A step that leaves every buffer where it was keeps the window.          *)
LEMMA PipeStable ==
    ASSUME NEW b \in Req, Window(b),
           held' = held, frameQueue' = frameQueue, hw' = hw, cursor' = cursor,
           (cbPc' = "enq") <=> (cbPc = "enq"),
           cbPc = "enq" => cbReq' = cbReq,
           (mainPc' = "gone") <=> (mainPc = "gone")
    PROVE  /\ HeldCount' = HeldCount
           /\ EnqCount' = EnqCount
           /\ PipeLen' = PipeLen
           /\ Window(b)'
<1>1. HeldCount' = HeldCount /\ EnqCount' = EnqCount
  BY Zenon DEF HeldCount, EnqCount
<1>2. PipeLen' = PipeLen
  BY <1>1, Zenon DEF PipeLen
<1> QED
  BY <1>1, <1>2, Zenon DEF Window

(* A signal handler returning to the main thread at most turns a blocked   *)

(* sem_wait into EINTR.                                                    *)
LEMMA InterruptCases ==
    ASSUME NEW host, Interrupt(host)
    PROVE  \/ mainPc' = mainPc
           \/ mainPc = "wait" /\ mainPc' = "deq"
  BY DEF Interrupt

(* Initially nothing is in use and the window is empty at cookie 0.        *)
LEMMA IInvInit == Init => IInv
<1> SUFFICES ASSUME Init PROVE IInv
  OBVIOUS
<1>1. TypeInv
  BY TypeInvInit
<1>2. HeldCount = 0 /\ EnqCount = 0 /\ PostCount = 0 /\ LagCount = 0
  BY DEF Init, HeldCount, EnqCount, PostCount, LagCount, NoReq
<1>3. PipeLen = 0
  BY <1>2 DEF Init, PipeLen
<1>4. 0 \in Req /\ Window(0)
  BY <1>2, <1>3, NAssumption DEF Init, Window, Cookie, Req, NoReq
<1> QED
  BY <1>1, <1>2, <1>3, <1>4, NAssumption
     DEF Init, IInv, HeldLink, SemAccount, TriggerBound, NoReq

(* A handler that at most interrupts sem_wait keeps the main thread's     *)

(* bookkeeping: the lag can only grow, and nobody reaches "gone".          *)
LEMMA LagInterrupt ==
    ASSUME held' = held,
           \/ mainPc' = mainPc
           \/ mainPc = "wait" /\ mainPc' = "deq"
    PROVE  /\ LagCount' >= LagCount
           /\ HeldLink => HeldLink'
           /\ (mainPc' = "gone") <=> (mainPc = "gone")
  BY DEF LagCount, HeldLink

(* With every capture handed back before the next trigger, each step of   *)

(* the pipeline preserves the window invariant.                            *)
LEMMA IInvNext ==
    ASSUME HwLimit = 0
    PROVE  IInv /\ [Next]_vars => IInv'
<1> SUFFICES ASSUME IInv, [Next]_vars PROVE IInv'
  OBVIOUS
<1> USE NAssumption DEF NoReq
<1>0. TypeInv'
  BY TypeInvNext DEF IInv
<1>a. /\ TypeInv /\ HeldLink /\ SemAccount /\ TriggerBound /\ PipeLen <= N
  BY DEF IInv
<1> PICK b \in Req : Window(b)
  BY DEF IInv
<1>b. /\ HeldCount \in 0 .. 1 /\ EnqCount \in 0 .. 1
      /\ PostCount \in 0 .. 1 /\ LagCount \in 0 .. 1
      /\ LagCount + HeldCount <= 1
      /\ Len(frameQueue) \in Nat /\ Len(hw) \in Nat /\ sem \in Nat
      /\ trigVal \in Nat /\ PipeLen \in Nat
  <2>1. /\ HeldCount \in 0 .. 1 /\ EnqCount \in 0 .. 1
        /\ PostCount \in 0 .. 1 /\ LagCount \in 0 .. 1
        /\ LagCount + HeldCount <= 1
    BY <1>a DEF HeldCount, EnqCount, PostCount, LagCount, HeldLink
  <2>2. Len(frameQueue) \in Nat /\ Len(hw) \in Nat /\ sem \in Nat /\ trigVal \in Nat
    BY <1>a DEF TypeInv, TypeOK
  <2> QED
    BY <2>1, <2>2 DEF PipeLen
<1>c. /\ HeldCount' \in 0 .. 1 /\ EnqCount' \in 0 .. 1
      /\ PostCount' \in 0 .. 1 /\ LagCount' \in 0 .. 1
      /\ Len(frameQueue') \in Nat /\ Len(hw') \in Nat /\ PipeLen' \in Nat
  <2>1. /\ HeldCount' \in 0 .. 1 /\ EnqCount' \in 0 .. 1
        /\ PostCount' \in 0 .. 1 /\ LagCount' \in 0 .. 1
    BY DEF HeldCount, EnqCount, PostCount, LagCount
  <2>2. Len(frameQueue') \in Nat /\ Len(hw') \in Nat
    BY <1>0 DEF TypeInv, TypeOK
  <2> QED
    BY <2>1, <2>2 DEF PipeLen
(* The parts of the invariant that only count buffers.                     *)
<1> DEFINE Counting == HeldLink /\ SemAccount /\ TriggerBound /\ PipeLen <= N
<1>q. ASSUME Counting', NEW c \in Req, Window(c)' PROVE IInv'
  BY <1>0, <1>q DEF IInv
<1>1. CASE Start
  <2>1. held = NoReq /\ held' = NoReq /\ mainPc' = "top"
    BY <1>1, <1>a DEF Start, HeldLink
  <2>2. LagCount' = 0 /\ LagCount = 0 /\ PostCount' = PostCount
    BY <1>1, <2>1 DEF Start, LagCount, PostCount
  <2>3. HeldCount' = HeldCount /\ PipeLen' = PipeLen /\ Window(b)'
    BY <1>1, PipeStable DEF Start
  <2>4. Counting'
    BY <1>1, <1>a, <1>b, <2>1, <2>2, <2>3
       DEF Start, HeldLink, SemAccount, TriggerBound
  <2> QED
    BY <2>3, <2>4, <1>q
<1>2. CASE LoopTop
  <2>1. held = NoReq /\ held' = NoReq /\ mainPc' \in {"wait", "exited"}
    BY <1>2, <1>a DEF LoopTop, HeldLink
  <2>2. LagCount = 0 /\ LagCount' \in 0 .. 1 /\ PostCount' = PostCount
    BY <1>2, <2>1 DEF LoopTop, LagCount, PostCount
  <2>3. HeldCount' = HeldCount /\ PipeLen' = PipeLen /\ Window(b)'
    BY <1>2, <2>1, PipeStable DEF LoopTop
  <2>4. Counting'
    BY <1>2, <1>a, <1>b, <2>1, <2>2, <2>3
       DEF LoopTop, HeldLink, SemAccount, TriggerBound
  <2> QED
    BY <2>3, <2>4, <1>q
<1>3. CASE SemWait
  <2>1. held = NoReq /\ held' = NoReq /\ mainPc' = "deq"
    BY <1>3, <1>a DEF SemWait, HeldLink
  <2>2. LagCount = 0 /\ LagCount' = 1 /\ PostCount' = PostCount
    BY <1>3, <2>1 DEF SemWait, LagCount, PostCount
  <2>3. HeldCount' = HeldCount /\ PipeLen' = PipeLen /\ Window(b)'
    BY <1>3, <2>1, PipeStable DEF SemWait
  <2>4. Counting'
    BY <1>3, <1>a, <1>b, <2>1, <2>2, <2>3
       DEF SemWait, HeldLink, SemAccount, TriggerBound
  <2> QED
    BY <2>3, <2>4, <1>q
<1>4. CASE Dequeue
  <2>1. held = NoReq /\ LagCount = 1 /\ HeldCount = 0
    BY <1>4, <1>a DEF Dequeue, HeldLink, LagCount, HeldCount
  <2>2. CASE frameQueue = <<>>
    <3>1. held' = NoReq /\ mainPc' = "top" /\ LagCount' = 0
          /\ PostCount' = PostCount
      BY <1>4, <2>1, <2>2 DEF Dequeue, LagCount, PostCount
    <3>2. HeldCount' = HeldCount /\ PipeLen' = PipeLen /\ Window(b)'
      BY <1>4, <2>1, <2>2, <3>1, PipeStable DEF Dequeue
    <3>3. Counting'
      BY <1>4, <1>a, <1>b, <2>1, <2>2, <3>1, <3>2
         DEF Dequeue, HeldLink, SemAccount, TriggerBound
    <3> QED
      BY <3>2, <3>3, <1>q
  <2>3. CASE frameQueue # <<>>
    <3>1. /\ held' = frameQueue[1]
          /\ frameQueue' = Tail(frameQueue)
          /\ mainPc' = "encode"
          /\ sem' = sem /\ hw' = hw /\ cbPc' = cbPc /\ cbReq' = cbReq
          /\ cursor' = cursor /\ trigPc' = trigPc /\ trigVal' = trigVal
      BY <1>4, <2>3 DEF Dequeue
    <3>2. /\ held' \in Req
          /\ Len(frameQueue') = Len(frameQueue) - 1
          /\ \A i \in 1 .. Len(frameQueue') : frameQueue'[i] = frameQueue[i + 1]
      BY <2>3, <3>1, <1>a DEF TypeInv, TypeOK
    <3>3. HeldCount' = 1 /\ LagCount' = 0 /\ EnqCount' = EnqCount
          /\ PostCount' = PostCount
      BY <3>1, <3>2 DEF HeldCount, LagCount, EnqCount, PostCount, Req
    <3>4. PipeLen' = PipeLen
      BY <2>1, <3>1, <3>2, <3>3, <1>b, <1>c, SMTT(20) DEF PipeLen
    <3>5. Counting'
      BY <1>a, <1>b, <2>1, <3>1, <3>2, <3>3, <3>4
         DEF HeldLink, SemAccount, TriggerBound, Req
    <3>6. Window(b)'
      <4> USE DEF Req
      <4>1. held' = b
        BY <2>1, <2>3, <3>1, <1>b DEF Window, Cookie
      <4>2. \A i \in 1 .. Len(frameQueue') :
               frameQueue'[i] = Cookie(b, HeldCount' + i - 1)
        BY <2>1, <3>2, <3>3, <1>b DEF Window
      <4>3. cbPc' = "enq" => cbReq' = Cookie(b, HeldCount' + Len(frameQueue'))
        BY <2>1, <3>1, <3>2, <3>3, <1>b DEF Window
      <4>4. \A i \in 1 .. Len(hw') :
               hw'[i] = Cookie(b, HeldCount' + Len(frameQueue') + EnqCount' + i - 1)
        BY <2>1, <3>1, <3>2, <3>3, <1>b DEF Window
      <4>5. mainPc' # "gone" => cursor' = Cookie(b, PipeLen')
        BY <1>4, <3>1, <3>4 DEF Window, Dequeue
      <4> QED
        BY <4>1, <4>2, <4>3, <4>4, <4>5 DEF Window
    <3> QED
      BY <3>5, <3>6, <1>q
  <2> QED
    BY <2>2, <2>3
<1>5. CASE Encode
  <2>1. /\ held # NoReq /\ held' = NoReq /\ mainPc' = "top"
        /\ sem' = sem /\ frameQueue' = frameQueue /\ hw' = hw
        /\ cbPc' = cbPc /\ cbReq' = cbReq /\ cursor' = cursor
        /\ trigPc' = trigPc /\ trigVal' = trigVal
    BY <1>5, <1>a DEF Encode, HeldLink
  <2>2. /\ HeldCount = 1 /\ HeldCount' = 0 /\ LagCount = 0 /\ LagCount' = 0
        /\ EnqCount' = EnqCount /\ PostCount' = PostCount
    BY <1>5, <2>1 DEF Encode, HeldCount, LagCount, EnqCount, PostCount
  <2>3. PipeLen' = PipeLen - 1
    BY <2>1, <2>2, <1>b DEF PipeLen
  <2>4. Counting'
    <3>1. HeldLink'
      BY <2>1 DEF HeldLink
    <3>2. SemAccount'
      BY <1>a, <1>b, <2>1, <2>2 DEF SemAccount
    <3>3. TriggerBound'
      BY <1>a, <1>b, <2>1, <2>2 DEF TriggerBound
    <3>4. PipeLen' <= N
      BY <1>a, <1>b, <2>3
    <3> QED
      BY <3>1, <3>2, <3>3, <3>4
  <2>5. Cookie(b, 1) \in Req /\ Window(Cookie(b, 1))'
    <3> DEFINE c == Cookie(b, 1)
    <3> USE DEF Req
    <3>1. c \in Req
      BY <1>a, <1>b, <2>2 DEF Cookie, PipeLen
    <3>2. \A i \in 1 .. Len(frameQueue') :
             frameQueue'[i] = Cookie(c, HeldCount' + i - 1)
      BY <1>a, <1>b, <2>1, <2>2 DEF Window, Cookie, PipeLen
    <3>3. cbPc' = "enq" => cbReq' = Cookie(c, HeldCount' + Len(frameQueue'))
      BY <1>a, <1>b, <2>1, <2>2 DEF Window, Cookie, PipeLen, EnqCount
    <3>0. Len(frameQueue) + EnqCount + Len(hw) <= N - 1
      BY <1>a, <1>b, <2>2 DEF PipeLen
    <3>4. \A i \in 1 .. Len(hw') :
             hw'[i] = Cookie(c, HeldCount' + Len(frameQueue') + EnqCount' + i - 1)
      <4> SUFFICES ASSUME NEW i \in 1 .. Len(hw)
                   PROVE  hw[i] = Cookie(c, Len(frameQueue) + EnqCount + i - 1)
        BY <2>1, <2>2
      <4>1. hw[i] = Cookie(b, 1 + Len(frameQueue) + EnqCount + i - 1)
        BY <2>2 DEF Window
      <4> QED
        BY <4>1, <3>0, <1>b DEF Cookie
    <3>5. mainPc' # "gone" => cursor' = Cookie(c, PipeLen')
      <4>1. cursor = Cookie(b, PipeLen)
        BY <1>5 DEF Window, Encode
      <4> QED
        BY <4>1, <1>a, <1>b, <2>1, <2>2, <2>3 DEF Cookie, PipeLen
    <3> QED
      BY <2>1, <3>1, <3>2, <3>3, <3>4, <3>5, Zenon DEF Window
  <2> QED
    BY <2>4, <2>5, <1>q
<1>6. CASE Teardown
  <2>1. /\ mainPc = "exited" /\ mainPc' = "gone" /\ hw' = <<>>
        /\ held' = held /\ sem' = sem /\ frameQueue' = frameQueue
        /\ cbPc' = cbPc /\ cbReq' = cbReq /\ cursor' = cursor
        /\ trigPc' = trigPc /\ trigVal' = trigVal
    BY <1>6 DEF Teardown
  <2>2. /\ HeldCount' = HeldCount /\ EnqCount' = EnqCount
        /\ PostCount' = PostCount /\ LagCount' = LagCount
    BY <2>1 DEF HeldCount, EnqCount, PostCount, LagCount
  <2>3. PipeLen' = PipeLen - Len(hw)
    BY <2>1, <2>2, <1>b DEF PipeLen
  <2>4. Counting'
    <3>1. HeldLink'
      BY <2>1 DEF HeldLink
    <3>2. SemAccount' /\ TriggerBound'
      BY <1>a, <1>b, <2>1, <2>2 DEF SemAccount, TriggerBound
    <3> QED
      BY <3>1, <3>2, <2>3, <1>a, <1>b
  <2>5. Window(b)'
    <3>1. \A i \in 1 .. Len(hw') :
             hw'[i] = Cookie(b, HeldCount' + Len(frameQueue') + EnqCount' + i - 1)
      BY <2>1
    <3> QED
      BY <2>1, <2>2, <3>1, Zenon DEF Window
  <2> QED
    BY <2>4, <2>5, <1>q
<1>7. CASE RequestComplete
  <2>1. /\ cbPc = "idle" /\ hw # <<>> /\ cbPc' = "enq"
        /\ cbReq' = Head(hw) /\ hw' = Tail(hw)
        /\ held' = held /\ mainPc' = mainPc /\ sem' = sem
        /\ frameQueue' = frameQueue /\ cursor' = cursor
        /\ trigPc' = trigPc /\ trigVal' = trigVal
    BY <1>7 DEF RequestComplete
  <2>2. /\ Len(hw') = Len(hw) - 1 /\ cbReq' = hw[1]
        /\ \A i \in 1 .. Len(hw') : hw'[i] = hw[i + 1]
    BY <2>1, <1>a DEF TypeInv, TypeOK
  <2>3. /\ HeldCount' = HeldCount /\ EnqCount = 0 /\ EnqCount' = 1
        /\ PostCount' = PostCount /\ LagCount' = LagCount
    BY <2>1 DEF HeldCount, EnqCount, PostCount, LagCount
  <2>4. PipeLen' = PipeLen
    BY <2>2, <2>3, <2>1, <1>b DEF PipeLen
  <2>5. Counting'
    <3>1. trigPc # "submit"
      BY <2>1, <1>a DEF TriggerBound
    <3> QED
      BY <3>1, <1>a, <1>b, <2>1, <2>3, <2>4 DEF HeldLink, SemAccount, TriggerBound
  <2>6. Window(b)'
    <3>1. cbReq' = Cookie(b, HeldCount' + Len(frameQueue'))
      BY <2>1, <2>2, <2>3, <1>b DEF Window
    <3>2. \A i \in 1 .. Len(hw') :
             hw'[i] = Cookie(b, HeldCount' + Len(frameQueue') + EnqCount' + i - 1)
      <4> SUFFICES ASSUME NEW i \in 1 .. Len(hw')
                   PROVE  hw[i + 1] = Cookie(b, HeldCount + Len(frameQueue) + 1 + i - 1)
        BY <2>1, <2>2, <2>3
      <4>1. i + 1 \in 1 .. Len(hw)
        BY <2>2, <1>b
      <4>2. hw[i + 1] = Cookie(b, HeldCount + Len(frameQueue) + EnqCount + (i + 1) - 1)
        BY <4>1 DEF Window
      <4> QED
        BY <4>2, <2>3, <1>b
    <3>3. mainPc' # "gone" => cursor' = Cookie(b, PipeLen')
      BY <2>1, <2>4 DEF Window
    <3> QED
      BY <2>1, <2>3, <3>1, <3>2, <3>3, Zenon DEF Window
  <2> QED
    BY <2>5, <2>6, <1>q
<1>8. CASE CbEnqueue
  <2>1. /\ cbPc = "enq" /\ cbPc' = "post"
        /\ held' = held /\ mainPc' = mainPc /\ sem' = sem /\ hw' = hw
        /\ cbReq' = cbReq /\ cursor' = cursor
        /\ trigPc' = trigPc /\ trigVal' = trigVal
    BY <1>8 DEF CbEnqueue
  <2>2. /\ EnqCount = 1 /\ EnqCount' = 0 /\ PostCount = 0 /\ PostCount' = 1
        /\ HeldCount' = HeldCount /\ LagCount' = LagCount
    BY <2>1 DEF HeldCount, EnqCount, PostCount, LagCount
  <2>3. /\ frameQueue' = Append(frameQueue, cbReq)
        /\ Len(frameQueue') = Len(frameQueue) + 1
        /\ \A i \in 1 .. Len(frameQueue) : frameQueue'[i] = frameQueue[i]
        /\ frameQueue'[Len(frameQueue) + 1] = cbReq
    <3>1. Len(frameQueue) < N
      BY <1>a, <1>b, <2>2 DEF PipeLen
    <3> QED
      BY <1>8, <3>1, <2>1, <1>a DEF CbEnqueue, TypeInv, TypeOK
  <2>4. PipeLen' = PipeLen
    BY <2>1, <2>2, <2>3, <1>b DEF PipeLen
  <2>5. Counting'
    <3>1. trigPc # "submit"
      BY <2>1, <1>a DEF TriggerBound
    <3> QED
      BY <3>1, <1>a, <1>b, <2>1, <2>2, <2>3, <2>4
         DEF HeldLink, SemAccount, TriggerBound
  <2>6. Window(b)'
    <3>1. \A i \in 1 .. Len(frameQueue') :
             frameQueue'[i] = Cookie(b, HeldCount' + i - 1)
      BY <2>1, <2>2, <2>3 DEF Window
    <3>2. \A i \in 1 .. Len(hw') :
             hw'[i] = Cookie(b, HeldCount' + Len(frameQueue') + EnqCount' + i - 1)
      BY <2>1, <2>2, <2>3, <1>b DEF Window
    <3>3. mainPc' # "gone" => cursor' = Cookie(b, PipeLen')
      BY <2>1, <2>4 DEF Window
    <3> QED
      BY <2>1, <2>2, <3>1, <3>2, <3>3, Zenon DEF Window
  <2> QED
    BY <2>5, <2>6, <1>q
<1>9. CASE CbPost
  <2>1. /\ cbPc = "post" /\ cbPc' = "reuse" /\ sem' = sem + 1
        /\ held' = held /\ mainPc' = mainPc /\ frameQueue' = frameQueue
        /\ hw' = hw /\ cbReq' = cbReq /\ cursor' = cursor
        /\ trigPc' = trigPc /\ trigVal' = trigVal
    BY <1>9 DEF CbPost
  <2>2. PostCount = 1 /\ PostCount' = 0 /\ LagCount' = LagCount
    BY <2>1 DEF PostCount, LagCount
  <2>3. HeldCount' = HeldCount /\ PipeLen' = PipeLen /\ Window(b)'
    BY <2>1, PipeStable
  <2>4. Counting'
    <3>1. trigPc # "submit"
      BY <2>1, <1>a DEF TriggerBound
    <3> QED
      BY <3>1, <1>a, <1>b, <2>1, <2>2, <2>3
         DEF HeldLink, SemAccount, TriggerBound
  <2> QED
    BY <2>3, <2>4, <1>q
<1>10. CASE CbReuse
  <2>1. /\ cbPc = "reuse" /\ cbPc' = "idle"
        /\ held' = held /\ mainPc' = mainPc /\ sem' = sem
        /\ frameQueue' = frameQueue /\ hw' = hw /\ cursor' = cursor
        /\ trigPc' = trigPc /\ trigVal' = trigVal
    BY <1>10 DEF CbReuse
  <2>2. PostCount = 0 /\ PostCount' = 0 /\ LagCount' = LagCount
    BY <2>1 DEF PostCount, LagCount
  <2>3. HeldCount' = HeldCount /\ PipeLen' = PipeLen /\ Window(b)'
    BY <2>1, PipeStable
  <2>4. Counting'
    <3>1. trigPc # "submit"
      BY <2>1, <1>a DEF TriggerBound
    <3> QED
      BY <3>1, <1>a, <1>b, <2>1, <2>2, <2>3
         DEF HeldLink, SemAccount, TriggerBound
  <2> QED
    BY <2>3, <2>4, <1>q
<1>11. CASE CaptureSignal
  <2>1. /\ trigPc = "idle" /\ hw = <<>> /\ cbPc = "idle"
        /\ held' = held /\ sem' = sem /\ frameQueue' = frameQueue
        /\ hw' = hw /\ cbPc' = cbPc /\ cbReq' = cbReq /\ cursor' = cursor
    BY <1>11, <1>b, HwLimit = 0 DEF CaptureSignal, InFlight
  <2>2. /\ \/ mainPc' = mainPc
           \/ mainPc = "wait" /\ mainPc' = "deq"
        /\ \/ trigPc' = "submit" /\ trigVal' = sem /\ mainPc' = mainPc
           \/ trigPc' = trigPc /\ trigVal' = trigVal
    BY <1>11, InterruptCases DEF CaptureSignal
  <2>3. /\ LagCount' >= LagCount /\ HeldLink'
        /\ (mainPc' = "gone") <=> (mainPc = "gone")
    BY <2>1, <2>2, <1>a, LagInterrupt
  <2>4. /\ HeldCount' = HeldCount /\ PostCount' = PostCount
        /\ PostCount = 0 /\ PipeLen' = PipeLen /\ Window(b)'
    BY <2>1, <2>3, PipeStable DEF PostCount
  <2>5. Counting'
    BY <1>a, <1>b, <1>c, <2>1, <2>2, <2>3, <2>4 DEF SemAccount, TriggerBound
  <2> QED
    BY <2>4, <2>5, <1>q
<1>12. CASE QueueRequest
  <2>1. /\ trigPc = "submit" /\ trigPc' = "idle" /\ mainPc # "gone"
        /\ hw = <<>> /\ cbPc = "idle"
        /\ Len(frameQueue) + HeldCount <= trigVal + 1
        /\ held' = held /\ sem' = sem /\ frameQueue' = frameQueue
        /\ cbPc' = cbPc /\ cbReq' = cbReq /\ trigVal' = trigVal
    BY <1>12, <1>a DEF QueueRequest, TriggerBound, Halted
  <2>2. HeldCount' = HeldCount /\ EnqCount' = EnqCount /\ EnqCount = 0
        /\ PostCount' = PostCount /\ PostCount = 0
    BY <2>1 DEF HeldCount, EnqCount, PostCount
  <2>3. CASE BufferNotReady(trigVal)
    \* The exception leaves main's try block (or aborts the process).
    <3>1. /\ hw' = hw /\ cursor' = cursor
          /\ \/ mainPc' = "exited"
             \/ mainPc' = mainPc
      BY <1>12, <2>3 DEF QueueRequest
    <3>2. LagCount' >= LagCount
      <4>1. CASE mainPc' = "exited"
        BY <1>b, <2>1, <4>1 DEF LagCount, HeldCount
      <4>2. CASE mainPc' = mainPc
        BY <2>1, <4>2 DEF LagCount
      <4> QED
        BY <3>1, <4>1, <4>2
    <3>3. HeldLink'
      BY <1>a, <2>1, <3>1 DEF HeldLink
    <3>4. PipeLen' = PipeLen /\ Window(b)'
      BY <2>1, <3>1, PipeStable
    <3>5. Counting'
      BY <1>a, <1>b, <1>c, <2>1, <2>2, <3>2, <3>3, <3>4 DEF SemAccount, TriggerBound
    <3> QED
      BY <3>4, <3>5, <1>q
  <2>4. CASE ~BufferNotReady(trigVal)
    \* camera_->queueRequest(requests_[next_req_idx_]) and advance the cursor.
    <3>1. /\ hw' = <<cursor>>
          /\ cursor' = (cursor + 1) % N
          /\ \/ mainPc' = mainPc
             \/ mainPc = "wait" /\ mainPc' = "deq"
      BY <1>12, <2>1, <2>4, InterruptCases DEF QueueRequest, NextReqIdx
    <3>2. /\ LagCount' >= LagCount /\ HeldLink'
          /\ (mainPc' = "gone") <=> (mainPc = "gone")
      BY <2>1, <3>1, <1>a, LagInterrupt
    <3>3. trigVal <= N - 2
      BY <2>4, <1>b DEF BufferNotReady
    <3>4. PipeLen = HeldCount + Len(frameQueue) /\ PipeLen' = PipeLen + 1
      BY <2>1, <2>2, <3>1, <1>b DEF PipeLen
    <3>5. Counting'
      BY <1>a, <1>b, <1>c, <2>1, <2>2, <3>2, <3>3, <3>4 DEF SemAccount, TriggerBound
    <3>6. Window(b)'
      <4>1. cursor = Cookie(b, PipeLen)
        BY <2>1 DEF Window
      <4>2. cursor \in Req /\ (cursor + 1) % N = IF cursor + 1 < N THEN cursor + 1 ELSE 0
        BY <1>a, ModSucc DEF TypeInv, TypeOK, Req
      <4>3. cursor' = Cookie(b, PipeLen')
        <5>1. cursor' = IF cursor + 1 < N THEN cursor + 1 ELSE 0
          BY <3>1, <4>2, Zenon
        <5> QED
          BY <1>b, <2>1, <3>3, <3>4, <4>1, <5>1 DEF Cookie, Req
      <4>4. \A i \in 1 .. Len(hw') :
               hw'[i] = Cookie(b, HeldCount' + Len(frameQueue') + EnqCount' + i - 1)
        BY <2>1, <2>2, <3>1, <3>4, <4>1
      <4> QED
        BY <2>1, <2>2, <3>2, <4>3, <4>4, Zenon DEF Window
    <3> QED
      BY <3>5, <3>6, <1>q
  <2> QED
    BY <2>3, <2>4
<1>13. CASE Shutdown
  <2>1. /\ held' = held /\ sem' = sem /\ frameQueue' = frameQueue
        /\ hw' = hw /\ cbPc' = cbPc /\ cbReq' = cbReq /\ cursor' = cursor
        /\ trigPc' = trigPc /\ trigVal' = trigVal
        /\ \/ mainPc' = mainPc
           \/ mainPc = "wait" /\ mainPc' = "deq"
    BY <1>13, InterruptCases DEF Shutdown
  <2>2. /\ LagCount' >= LagCount /\ HeldLink'
        /\ (mainPc' = "gone") <=> (mainPc = "gone")
    BY <2>1, <1>a, LagInterrupt
  <2>3. /\ HeldCount' = HeldCount /\ PostCount' = PostCount
        /\ PipeLen' = PipeLen /\ Window(b)'
    BY <2>1, <2>2, PipeStable DEF PostCount
  <2>4. Counting'
    BY <1>a, <1>b, <1>c, <2>1, <2>2, <2>3 DEF SemAccount, TriggerBound
  <2> QED
    BY <2>3, <2>4, <1>q
<1>14. CASE UNCHANGED vars
  <2>1. /\ held' = held /\ mainPc' = mainPc /\ sem' = sem
        /\ frameQueue' = frameQueue /\ hw' = hw /\ cbPc' = cbPc
        /\ cbReq' = cbReq /\ cursor' = cursor
        /\ trigPc' = trigPc /\ trigVal' = trigVal
    BY <1>14 DEF vars
  <2>2. HeldCount' = HeldCount /\ PipeLen' = PipeLen /\ Window(b)'
    BY <2>1, PipeStable
  <2>3. Counting'
    BY <1>a, <2>1, <2>2, Zenon
       DEF HeldLink, SemAccount, TriggerBound, LagCount, PostCount
  <2> QED
    BY <2>2, <2>3, <1>q
<1> QED
  BY <1>1, <1>2, <1>3, <1>4, <1>5, <1>6, <1>7, <1>8, <1>9, <1>10, <1>11,
     <1>12, <1>13, <1>14 DEF Next, MainThread, CompletionThread, Signals

(* Cookies at distinct offsets below N from the same start are distinct.   *)
LEMMA CookieInjective ==
    ASSUME NEW b \in Req, NEW x \in 0 .. N - 1, NEW y \in 0 .. N - 1,
           Cookie(b, x) = Cookie(b, y)
    PROVE  x = y
  BY NAssumption DEF Cookie, Req

(* A window no longer than N holds each buffer once: the encoder's buffer, *)

(* frame_queue, the callback's buffer and the camera's requests are        *)
(* pairwise distinct.                                                      *)
LEMMA IInvExclusive == IInv => BufferExclusive
<1> SUFFICES ASSUME IInv PROVE BufferExclusive
  OBVIOUS
<1> USE NAssumption DEF NoReq
<1> PICK b \in Req : Window(b)
  BY DEF IInv
<1> DEFINE H == HeldCount
           Lq == Len(frameQueue)
           E == EnqCount
<1>1. /\ H \in 0 .. 1 /\ E \in 0 .. 1 /\ Lq \in Nat /\ Len(hw) \in Nat
      /\ H + Lq + E + Len(hw) <= N
      /\ frameQueue \in Seq(Req) /\ hw \in Seq(Req)
      /\ held \in Req \cup {NoReq} /\ cbReq \in Req \cup {NoReq}
      /\ (held # NoReq <=> H = 1) /\ (cbPc = "enq" <=> E = 1)
  <2>1. /\ frameQueue \in Seq(Req) /\ hw \in Seq(Req)
        /\ held \in Req \cup {NoReq} /\ cbReq \in Req \cup {NoReq}
    BY DEF IInv, TypeInv, TypeOK
  <2>2. (held # NoReq <=> H = 1) /\ (cbPc = "enq" <=> E = 1)
    BY DEF HeldCount, EnqCount
  <2>3. H \in 0 .. 1 /\ E \in 0 .. 1 /\ Lq \in Nat /\ Len(hw) \in Nat
    BY <2>1 DEF HeldCount, EnqCount
  <2>4. H + Lq + E + Len(hw) <= N
    BY DEF IInv, PipeLen
  <2> QED
    BY <2>1, <2>2, <2>3, <2>4
<1>2. \A i \in 1 .. Lq : frameQueue[i] = Cookie(b, H + i - 1)
  BY DEF Window
<1>3. \A i \in 1 .. Len(hw) : hw[i] = Cookie(b, H + Lq + E + i - 1)
  BY DEF Window
<1>4. held # NoReq => held = Cookie(b, 0)
  BY DEF Window, Cookie, Req
<1>5. cbPc = "enq" => cbReq = Cookie(b, H + Lq)
  BY DEF Window
<1>6. IsInjective(hw)
  <2> SUFFICES ASSUME NEW i \in 1 .. Len(hw), NEW j \in 1 .. Len(hw),
                      hw[i] = hw[j]
               PROVE  i = j
    BY <1>1 DEF IsInjective
  <2> QED
    BY <1>1, <1>3, CookieInjective
<1>7. IsInjective(frameQueue)
  <2> SUFFICES ASSUME NEW i \in 1 .. Lq, NEW j \in 1 .. Lq,
                      frameQueue[i] = frameQueue[j]
               PROVE  i = j
    BY <1>1 DEF IsInjective
  <2> QED
    BY <1>1, <1>2, CookieInjective
<1>8. Range(hw) \cap Range(frameQueue) = {}
  <2> SUFFICES ASSUME NEW i \in 1 .. Len(hw), NEW j \in 1 .. Lq,
                      hw[i] = frameQueue[j]
               PROVE  FALSE
    BY <1>1 DEF Range
  <2> QED
    BY <1>1, <1>2, <1>3, CookieInjective
<1>9. held \notin Range(hw) \cup Range(frameQueue)
  <2>1. CASE held = NoReq
    BY <2>1, <1>1 DEF Range, Req
  <2>2. CASE held # NoReq
    <3>1. \A i \in 1 .. Len(hw) : hw[i] # held
      BY <2>2, <1>1, <1>3, <1>4, CookieInjective
    <3>2. \A j \in 1 .. Lq : frameQueue[j] # held
      BY <2>2, <1>1, <1>2, <1>4, CookieInjective
    <3> QED
      BY <3>1, <3>2, <1>1 DEF Range
  <2> QED
    BY <2>1, <2>2
<1>10. cbPc = "enq" => cbReq \notin Range(hw) \cup Range(frameQueue) \cup {held}
  <2> SUFFICES ASSUME cbPc = "enq"
               PROVE  cbReq \notin Range(hw) \cup Range(frameQueue) \cup {held}
    OBVIOUS
  <2>1. \A i \in 1 .. Len(hw) : hw[i] # cbReq
    BY <1>1, <1>3, <1>5, CookieInjective
  <2>2. \A j \in 1 .. Lq : frameQueue[j] # cbReq
    BY <1>1, <1>2, <1>5, CookieInjective
  <2>3. cbReq # held
    <3>1. CASE held = NoReq
      BY <3>1, <1>1, <1>5 DEF Cookie, Req
    <3>2. CASE held # NoReq
      BY <3>2, <1>1, <1>4, <1>5, CookieInjective
    <3> QED
      BY <3>1, <3>2
  <2> QED
    BY <2>1, <2>2, <2>3, <1>1 DEF Range
<1> QED
  BY <1>6, <1>7, <1>8, <1>9, <1>10 DEF BufferExclusive

(* Buffer exclusivity (the run camera_pipeline checks it for N = 3): when  *)

(* every capture is handed back before the next GPIO trigger, no DMA       *)
(* buffer is ever owned twice - queue_request never resubmits a request    *)
(* whose buffer is queued or being encoded - for every number of buffers.  *)
THEOREM BufferExclusiveInvariant ==
    ASSUME HwLimit = 0
    PROVE  Spec => []BufferExclusive
<1>1. IInv /\ [Next]_vars => IInv'
  BY IInvNext
<1> QED
  BY IInvInit, <1>1, IInvExclusive, PTL DEF Spec

====
