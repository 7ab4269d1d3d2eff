---------------------------- MODULE EffectQueue ----------------------------
(***************************************************************************)
(* The part of Effect's Queue that the client relies on: a bounded buffer  *)
(* that a callback offers to, that can be failed with an error or shut     *)
(* down, and that a stream takes from.  The queue is a value; an operation *)
(* is an operator that returns the next value.                             *)
(*                                                                         *)
(*   "open"      offers are taken                                          *)
(*   "closing"   failed while messages were buffered: they are still       *)
(*               delivered, then the reader sees the failure               *)
(*   "failed"    done, the reader sees the failure                         *)
(*   "shutdown"  done, the reader is interrupted                           *)
(***************************************************************************)
EXTENDS Integers, Sequences

QueueStates == {"open", "closing", "failed", "shutdown"}

QueueOf(Messages) == [state : QueueStates, buffer : Seq(Messages)]

\* What BufferPolicy (OpcuaSubscription.ts) can ask for; "latest" is Sliding(1).
Sliding(n)  == [tag |-> "Sliding", capacity |-> n]
Dropping(n) == [tag |-> "Dropping", capacity |-> n]

EmptyQueue == [state |-> "open", buffer |-> <<>>]

Size(q) == Len(q.buffer)

IsDone(q) == q.state \in {"failed", "shutdown"}

\* Mutant: every policy is given a dropping queue.
AcceptsDropping(q, policy) == q.state = "open" /\ Size(q) < policy.capacity

\* Does offerUnsafe return true?
Accepts(q, policy) ==
  /\ q.state = "open"
  /\ policy.tag = "Dropping" => Size(q) < policy.capacity

\* The queue after offerUnsafe(m): a full sliding queue evicts its oldest.
Offer(q, policy, m) ==
  IF ~Accepts(q, policy) THEN q
  ELSE [ state  |-> "open",
         buffer |-> Append(IF Size(q) < policy.capacity THEN q.buffer ELSE Tail(q.buffer), m) ]

\* Queue.fail: the first failure wins, what is buffered stays readable.
Fail(q) ==
  IF q.state # "open" THEN q
  ELSE [ state  |-> IF q.buffer = <<>> THEN "failed" ELSE "closing",
         buffer |-> q.buffer ]

\* Taking the last message of a failed queue completes it.
Take(q) ==
  [ state  |-> IF q.state = "closing" /\ Size(q) = 1 THEN "failed" ELSE q.state,
    buffer |-> Tail(q.buffer) ]

\* Queue.shutdown drops what is buffered; an earlier failure is kept.
Shutdown(q) ==
  [ state  |-> IF q.state = "open" THEN "shutdown"
               ELSE IF q.state = "closing" THEN "failed" ELSE q.state,
    buffer |-> <<>> ]
=============================================================================
