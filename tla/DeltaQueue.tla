----------------------------- MODULE DeltaQueue -----------------------------
(***************************************************************************)
(* The queue of sleeping tasks of kernel/task/delta_queue.cpp. An item     *)
(* holds the ticks that separate its task's wake-up from the wake-up of    *)
(* the item in front of it, so a tick only touches the first item.         *)
(***************************************************************************)
EXTENDS Naturals, Sequences, SequencesExt

VARIABLE m_items    \* sequence of records [task, remaining_ticks]

Item(t, n) == [task |-> t, remaining_ticks |-> n]

\* elapsed_time of add_task's loop after i items: the ticks until item i wakes.
elapsed_time(items) ==
  LET sum[i \in 0 .. Len(items)] ==
        IF i = 0 THEN 0 ELSE sum[i - 1] + items[i].remaining_ticks
  IN sum

\* The items that wake strictly after `ticks` ticks.
later(items, ticks) == {i \in 1 .. Len(items) : elapsed_time(items)[i] > ticks}

\* Mutant of insert: the item behind the new one keeps its whole delay.
insert_no_charge(items, t, ticks) ==
  IF later(items, ticks) = {}
  THEN Append(items, Item(t, ticks - elapsed_time(items)[Len(items)]))
  ELSE LET i == CHOOSE k \in later(items, ticks) : \A j \in later(items, ticks) : k <= j
       IN InsertAt(items, i, Item(t, ticks - elapsed_time(items)[i - 1]))

(***************************************************************************)
(* add_task(sleepy, ticks): in front of the first item that wakes later,   *)
(* which is charged with what is left of its delay, or at the end.         *)
(***************************************************************************)
insert(items, t, ticks) ==
  IF later(items, ticks) = {}
  THEN Append(items, Item(t, ticks - elapsed_time(items)[Len(items)]))
  ELSE LET i == CHOOSE k \in later(items, ticks) : \A j \in later(items, ticks) : k <= j
           remaining_time == ticks - elapsed_time(items)[i - 1]
       IN InsertAt([items EXCEPT ![i].remaining_ticks = @ - remaining_time],
                   i, Item(t, remaining_time))

delta_add_task(t, ticks) == m_items' = insert(m_items, t, ticks)

\* Mutant of delta_count_down: the item is not decremented.
delta_count_none == m_items' = m_items

\* The first statements of tick(): nothing when empty, otherwise --remaining_ticks of the head.
delta_count_down ==
  m_items' = IF m_items = <<>> THEN m_items
             ELSE [m_items EXCEPT ![1].remaining_ticks = @ - 1]

\* The condition of tick()'s wake-up loop.
delta_due == m_items # <<>> /\ m_items[1].remaining_ticks = 0

\* pop_front() of tick()'s wake-up loop.
delta_pop_front == m_items' = Tail(m_items)
-----------------------------------------------------------------------------
\* The tasks in the queue.
sleepers == {m_items[i].task : i \in 1 .. Len(m_items)}

\* The ticks until task t, which is in the queue, wakes up.
ticks_left(t) ==
  elapsed_time(m_items)[CHOOSE i \in 1 .. Len(m_items) : m_items[i].task = t]

\* No task has two items.
SleepsOnce == \A i, j \in 1 .. Len(m_items) : m_items[i].task = m_items[j].task => i = j
=============================================================================
