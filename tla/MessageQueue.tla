---------------------------- MODULE MessageQueue ----------------------------
(***************************************************************************)
(* The message queues of windows (kernel/wm/message_queue.cpp) and the     *)
(* wait list each of them embeds (kernel/task/wait_list.cpp). A queue is   *)
(* the number of its pending messages: the scheduler's part of the story   *)
(* only depends on whether it is empty or full.                            *)
(***************************************************************************)
EXTENDS Naturals, Sequences

CONSTANTS Window,                \* the windows, each with its message queue
          NoWindow,              \* no window
          MAX_PENDING_MESSAGES   \* capacity of a queue

ASSUME NoWindowAssumption == NoWindow \notin Window
ASSUME MaxPendingAssumption == MAX_PENDING_MESSAGES \in Nat \ {0}

VARIABLES m_pending_count,   \* messages pending, per window
          m_wait_list        \* tasks blocked until the queue is not empty, per window

is_empty(w) == m_pending_count[w] = 0
is_full(w) == m_pending_count[w] = MAX_PENDING_MESSAGES

\* Mutant of enqueue: the test for a full queue is off by one, the wake-up happens all the same.
enqueue_one_less(w) ==
  m_pending_count' = [m_pending_count EXCEPT ![w] = IF @ + 1 = MAX_PENDING_MESSAGES THEN @ ELSE @ + 1]

\* The counters of enqueue(): a full queue drops the message. The wake-ups are WakeWaiter's.
enqueue(w) ==
  m_pending_count' = [m_pending_count EXCEPT ![w] = IF is_full(w) THEN @ ELSE @ + 1]

\* dequeue(), when it returns true.
dequeue(w) == m_pending_count' = [m_pending_count EXCEPT ![w] = @ - 1]

\* The list part of WaitList::add().
wait_list_add(w, t) == m_wait_list' = [m_wait_list EXCEPT ![w] = Append(@, t)]

\* One iteration of WaitList::wake_all(): the list is walked in order and cleared.
wait_list_next(w) == m_wait_list' = [m_wait_list EXCEPT ![w] = Tail(@)]
=============================================================================
