----------------------------- MODULE AsyncQueue -----------------------------
(***************************************************************************)
(* AsyncQueue<T> of src/utils/asyncqueue.hpp: the queue that joins the     *)
(* coroutines of the proxy (listener to inbound, inbound to application,   *)
(* socket reader to DNS code).  put() never suspends; get() suspends on a  *)
(* steady_timer that never expires and that complete() cancels.  All       *)
(* coroutines run on one io_context thread, so the code between two        *)
(* suspension points is one step: put() is a step, get() up to its wait is *)
(* a step, and the resumption of a cancelled wait is a step, run at any    *)
(* later time.                                                             *)
(***************************************************************************)
EXTENDS Sequences, Naturals, Functions

CONSTANTS Values,     \* the objects put (move-only: no object is put twice)
          Consumers,  \* the coroutines that call get(), one call at a time
          NoValue     \* the empty std::optional of a waiter

ASSUME NoValueAssumption == NoValue \notin Values

VARIABLES queue_,       \* std::deque<T>
          get_waiters_, \* std::deque<shared_ptr<GetWaiter>>; a waiter is named by its consumer
          timer,        \* timer[c]: the waiter's steady_timer
          done,         \* done[c]: the waiter's flag
          value,        \* value[c]: the waiter's std::optional<T>
          puts,         \* history: every value put, in order
          handed,       \* history: every value given to a consumer or to its waiter, in order
          got           \* history: got[c] is what the calls of get() returned to c

vars == <<queue_, get_waiters_, timer, done, value, puts, handed, got>>

Init == /\ queue_ = <<>>
        /\ get_waiters_ = <<>>
        /\ timer = [c \in Consumers |-> "none"]
        /\ done = [c \in Consumers |-> FALSE]
        /\ value = [c \in Consumers |-> NoValue]
        /\ puts = <<>>
        /\ handed = <<>>
        /\ got = [c \in Consumers |-> <<>>]

-----------------------------------------------------------------------------
(* Mutant: the waiter is marked done but its timer is not cancelled. *)
completeSilently(w) == /\ done' = [done EXCEPT ![w] = TRUE]
                       /\ UNCHANGED timer

(* GetWaiter::complete: cancelling completes the pending wait, if there is *)
(* one; a timer nobody waits on yet is not remembered as cancelled.        *)
complete(w) ==
  IF done[w]
  THEN UNCHANGED <<done, timer>>
  ELSE /\ done' = [done EXCEPT ![w] = TRUE]
       /\ timer' = [timer EXCEPT ![w] = IF @ = "waiting" THEN "cancelled" ELSE @]

(* Mutants: the waiter is completed without its value; the waiter is left  *)
(* in the deque.                                                           *)
PutToWaiterEmpty(v) ==
  /\ get_waiters_ # <<>>
  /\ complete(Head(get_waiters_))
  /\ get_waiters_' = Tail(get_waiters_)
  /\ handed' = Append(handed, v)
  /\ UNCHANGED <<queue_, value, got>>

PutToWaiterNoPop(v) ==
  /\ get_waiters_ # <<>>
  /\ LET w == Head(get_waiters_)
     IN  /\ value' = [value EXCEPT ![w] = v]
         /\ complete(w)
  /\ handed' = Append(handed, v)
  /\ UNCHANGED <<queue_, get_waiters_, got>>

(* put() with a waiter: the value bypasses the deque. *)
PutToWaiter(v) ==
  /\ get_waiters_ # <<>>
  /\ LET w == Head(get_waiters_)
     IN  /\ value' = [value EXCEPT ![w] = v]
         /\ complete(w)
  /\ get_waiters_' = Tail(get_waiters_)
  /\ handed' = Append(handed, v)
  /\ UNCHANGED <<queue_, got>>

(* Mutant: the deque is used beside a waiter. *)
PutToQueueAlways(v) ==
  /\ queue_' = Append(queue_, v)
  /\ UNCHANGED <<get_waiters_, timer, done, value, handed, got>>

(* put() with no waiter. *)
PutToQueue(v) ==
  /\ get_waiters_ = <<>>
  /\ queue_' = Append(queue_, v)
  /\ UNCHANGED <<get_waiters_, timer, done, value, handed, got>>

put(v) == /\ v \notin Range(puts)
          /\ puts' = Append(puts, v)
          /\ PutToWaiter(v) \/ PutToQueue(v)

(* get() with something in the deque: returns without suspending. *)
GetNow(c) ==
  /\ timer[c] = "none"
  /\ queue_ # <<>>
  /\ queue_' = Tail(queue_)
  /\ handed' = Append(handed, Head(queue_))
  /\ got' = [got EXCEPT ![c] = Append(@, Head(queue_))]
  /\ UNCHANGED <<get_waiters_, timer, done, value, puts>>

(* get() with an empty deque: a fresh waiter, and its wait is started      *)
(* before anything else runs.                                              *)
GetWait(c) ==
  /\ timer[c] = "none"
  /\ queue_ = <<>>
  /\ get_waiters_' = Append(get_waiters_, c)
  /\ timer' = [timer EXCEPT ![c] = "waiting"]
  /\ done' = [done EXCEPT ![c] = FALSE]
  /\ value' = [value EXCEPT ![c] = NoValue]
  /\ UNCHANGED <<queue_, puts, handed, got>>

get(c) == GetNow(c) \/ GetWait(c)

(* The cancelled wait resumes get(), which moves the value out; the waiter *)
(* dies with the call.                                                     *)
Resume(c) ==
  /\ timer[c] = "cancelled"
  /\ got' = [got EXCEPT ![c] = Append(@, value[c])]
  /\ timer' = [timer EXCEPT ![c] = "none"]
  /\ done' = [done EXCEPT ![c] = FALSE]
  /\ value' = [value EXCEPT ![c] = NoValue]
  /\ UNCHANGED <<queue_, get_waiters_, puts, handed>>

Next == \/ \E v \in Values : put(v)
        \/ \E c \in Consumers : get(c) \/ Resume(c)

Spec == Init /\ [][Next]_vars

(* Every user of the queue calls get() again in an endless loop, and the   *)
(* io_context runs every handler that is ready.                            *)
Fairness == \A c \in Consumers : WF_vars(get(c)) /\ WF_vars(Resume(c))

FairSpec == Spec /\ Fairness

-----------------------------------------------------------------------------
TypeOK ==
  /\ queue_ \in Seq(Values)
  /\ get_waiters_ \in Seq(Consumers)
  /\ timer \in [Consumers -> {"none", "waiting", "cancelled"}]
  /\ done \in [Consumers -> BOOLEAN]
  /\ value \in [Consumers -> Values \cup {NoValue}]
  /\ puts \in Seq(Values)
  /\ handed \in Seq(Values)
  /\ got \in [Consumers -> Seq(Values)]

(* put() and get() never leave a value in the deque while a consumer       *)
(* sleeps: the value would stay there until the next put().                *)
NoValueBesideWaiter == queue_ = <<>> \/ get_waiters_ = <<>>

(* What was put is what was handed over followed by what is queued:        *)
(* nothing is lost, invented or reordered on either path of put().         *)
Fifo == puts = handed \o queue_

(* get() moves the optional's value out unchecked on resumption: a waiter  *)
(* is woken with its value, and one that is still asleep has none, is      *)
(* queued for one, and can still be woken.                                 *)
WokenWithValue ==
  \A c \in Consumers :
    /\ timer[c] = "cancelled" => value[c] \in Values /\ c \notin Range(get_waiters_)
    /\ timer[c] = "waiting" => value[c] = NoValue /\ ~done[c] /\ c \in Range(get_waiters_)

(* What a woken consumer has been given and has not yet returned. *)
Pending(c) == IF timer[c] = "cancelled" THEN <<value[c]>> ELSE <<>>

(* A value that was put is eventually returned by some get(): no wake-up   *)
(* is lost.                                                                *)
EveryPutIsGot ==
  \A v \in Values : (v \in Range(puts)) ~> (\E c \in Consumers : v \in Range(got[c]))

-----------------------------------------------------------------------------
(* The queue implements the channel; a value is assigned when it is        *)
(* handed to the consumer's waiter, before the consumer runs.              *)
Chan == INSTANCE Channel WITH sent <- puts, delivered <- handed,
                              inbox <- [c \in Consumers |-> got[c] \o Pending(c)]
ChannelSpec == Chan!Spec
=============================================================================
