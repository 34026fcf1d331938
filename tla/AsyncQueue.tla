----------------------------- MODULE AsyncQueue -----------------------------
(* async_queue_maybe_better (common/concurrent_async_queue.h): the queue     *)
(* between everyone who sends a request and the coroutine of an http         *)
(* connection that writes them.  Values live in a ring buffer and, when that *)
(* is full, in m_overflow; consumers that find nothing are kept on a stack.  *)
(* What happens under m_mut is one step; a waiter is resumed after m_mut is  *)
(* released, in a step of its own.  Values are numbered in push order.       *)
EXTENDS Integers, Sequences

CONSTANTS
    Producers, Consumers,
    RingSize,       \* ring_size
    MaxPushes,      \* bound: pushes in a behaviour
    MaxCancels      \* bound: calls of cancel_all

ASSUME QueueAssumption ==
    /\ RingSize \in Nat /\ RingSize > 1
    /\ MaxPushes \in Nat /\ MaxCancels \in Nat

None == 0           \* no value
Canceled == -1      \* the exception that cancel_all leaves in an awaiter

VARIABLES
    ring, head, tail,   \* m_ring_buffer: m_data, m_head, m_tail
    overflow,           \* m_overflow
    stack,              \* m_waiter and its links, newest first
    thing,              \* thing[c]: the result in the awaiter of consumer c
    at,                 \* at[c]: "running", "parked" or "stopped"
    resuming,           \* resuming[p]: the consumers whose handles push returned
    canceling,          \* the waiters that cancel_all has still to resume
    pushes, cancels,    \* the number of pushes, and of calls of cancel_all
    taken               \* history: the values in the order consumers got them

queueVars == <<ring, head, tail, overflow, stack, thing, at, resuming, canceling,
          pushes, cancels, taken>>

QueueTypeOK ==
    /\ ring \in [0..RingSize - 1 -> 0..MaxPushes]
    /\ head \in 0..RingSize - 1 /\ tail \in 0..RingSize - 1
    /\ overflow \in Seq(1..MaxPushes)
    /\ stack \in Seq(Consumers)
    /\ thing \in [Consumers -> -1..MaxPushes]
    /\ at \in [Consumers -> {"running", "parked", "stopped"}]
    /\ resuming \in [Producers -> SUBSET Consumers]
    /\ canceling \in Seq(Consumers)
    /\ pushes \in 0..MaxPushes /\ cancels \in 0..MaxCancels
    /\ taken \in Seq(1..MaxPushes)

QueueInit ==
    /\ ring = [i \in 0..RingSize - 1 |-> None] /\ head = 0 /\ tail = 0
    /\ overflow = <<>> /\ stack = <<>>
    /\ thing = [c \in Consumers |-> None]
    /\ at = [c \in Consumers |-> "running"]
    /\ resuming = [p \in Producers |-> {}]
    /\ canceling = <<>>
    /\ pushes = 0 /\ cancels = 0
    /\ taken = <<>>
-----------------------------------------------------------------------------
Succ(i) == (i + 1) % RingSize
IsEmpty == head = tail
IsFullNever == FALSE    \* a mutant
IsFull == Succ(head) = tail

MayPush(p) == pushes < MaxPushes /\ resuming[p] = {}

PopNoRefill(c) ==       \* a mutant: the overflow is not moved up
    /\ at[c] = "running" /\ ~IsEmpty
    /\ taken' = Append(taken, ring[head])
    /\ head' = Succ(head)
    /\ UNCHANGED <<ring, tail, overflow, stack, thing, at, resuming, canceling, pushes, cancels>>

-----------------------------------------------------------------------------
(* push, somebody waits: the value goes into the newest waiter's awaiter.    *)
PushToWaiter(p) ==
    /\ MayPush(p) /\ stack # <<>>
    /\ pushes' = pushes + 1
    /\ taken' = Append(taken, pushes + 1)
    /\ thing' = [thing EXCEPT ![Head(stack)] = pushes + 1]
    /\ resuming' = [resuming EXCEPT ![p] = {Head(stack)}]
    /\ stack' = Tail(stack)
    /\ UNCHANGED <<ring, head, tail, overflow, at, canceling, cancels>>

PushToRing(p) ==
    /\ MayPush(p) /\ stack = <<>> /\ ~IsFull
    /\ pushes' = pushes + 1
    /\ ring' = [ring EXCEPT ![tail] = pushes + 1]
    /\ tail' = Succ(tail)
    /\ UNCHANGED <<head, overflow, stack, thing, at, resuming, canceling, cancels, taken>>

PushToOverflow(p) ==
    /\ MayPush(p) /\ stack = <<>> /\ IsFull
    /\ pushes' = pushes + 1
    /\ overflow' = Append(overflow, pushes + 1)
    /\ UNCHANGED <<ring, head, tail, stack, thing, at, resuming, canceling, cancels, taken>>

(* coro_to_resume.resume(), after the lock: the consumer takes the value out *)
(* of its awaiter and goes on.                                               *)
Resume(p) ==
    \E c \in resuming[p] :
        /\ resuming' = [resuming EXCEPT ![p] = {}]
        /\ at' = [at EXCEPT ![c] = "running"]
        /\ thing' = [thing EXCEPT ![c] = None]
        /\ UNCHANGED <<ring, head, tail, overflow, stack, canceling, pushes, cancels, taken>>

(* await_suspend with something in the ring: pop_1, which also moves the     *)
(* first value of the overflow into the ring.                                *)
PopRing(c) ==
    /\ at[c] = "running" /\ ~IsEmpty
    /\ taken' = Append(taken, ring[head])
    /\ head' = Succ(head)
    /\ IF overflow # <<>> /\ Succ(Succ(head)) # tail
       THEN /\ ring' = [ring EXCEPT ![tail] = Head(overflow)]
            /\ tail' = Succ(tail)
       ELSE UNCHANGED <<ring, tail>>
    /\ overflow' = IF overflow = <<>> THEN <<>> ELSE Tail(overflow)
    /\ UNCHANGED <<stack, thing, at, resuming, canceling, pushes, cancels>>

(* await_suspend with nothing there: the awaiter goes on top of the stack.   *)
Park(c) ==
    /\ at[c] = "running" /\ IsEmpty
    /\ at' = [at EXCEPT ![c] = "parked"]
    /\ stack' = <<c>> \o stack
    /\ UNCHANGED <<ring, head, tail, overflow, thing, resuming, canceling, pushes, cancels, taken>>

(* cancel_all detaches the stack under the lock, then resumes each with an   *)
(* exception, which ends the consumer (start_sending does not catch it).     *)
CancelAll ==
    /\ cancels < MaxCancels /\ canceling = <<>>
    /\ cancels' = cancels + 1
    /\ canceling' = stack
    /\ stack' = <<>>
    /\ UNCHANGED <<ring, head, tail, overflow, thing, at, resuming, pushes, taken>>

CancelNext ==
    /\ canceling # <<>>
    /\ canceling' = Tail(canceling)
    /\ thing' = [thing EXCEPT ![Head(canceling)] = Canceled]
    /\ at' = [at EXCEPT ![Head(canceling)] = "stopped"]
    /\ UNCHANGED <<ring, head, tail, overflow, stack, resuming, pushes, cancels, taken>>

Push(p) == PushToWaiter(p) \/ PushToRing(p) \/ PushToOverflow(p)
Consume(c) == PopRing(c) \/ Park(c)

QueueNext ==
    \/ \E p \in Producers : Push(p) \/ Resume(p)
    \/ \E c \in Consumers : Consume(c)
    \/ CancelAll \/ CancelNext

QueueSpec == QueueInit /\ [][QueueNext]_queueVars

(* Whoever got a handle resumes it, and a consumer loops over pop.           *)
QueueFairSpec ==
    /\ QueueSpec
    /\ \A p \in Producers : WF_queueVars(Resume(p))
    /\ \A c \in Consumers : WF_queueVars(Consume(c))
    /\ WF_queueVars(CancelNext)
-----------------------------------------------------------------------------
(* What the two stores hold, oldest first: the ring from head to tail, then  *)
(* the overflow.                                                             *)
RingCount == (tail - head) % RingSize
Contents == [i \in 1..RingCount |-> ring[(head + i - 1) % RingSize]] \o overflow

(* First in, first out, over both stores: what was taken and what is still   *)
(* held are all the values pushed, once each, in push order.  A request is   *)
(* neither lost, nor sent twice, nor overtaken in the queue.                 *)
Fifo == taken \o Contents = [i \in 1..pushes |-> i]

(* The comment at the end of the simpler queues: a waiter means no data.     *)
WaiterMeansNoData == stack # <<>> => Contents = <<>>

(* Every value pushed reaches a consumer, unless all consumers are stopped.  *)
EveryValueTaken ==
    \A n \in 1..MaxPushes :
        pushes >= n ~> (Len(taken) >= n \/ \A c \in Consumers : at[c] = "stopped")
=============================================================================
