------------------------------- MODULE Pipe -------------------------------
(***************************************************************************)
(* Pipes: class PipeResource of kernel/task/pipe.cpp, a ring buffer with   *)
(* two wait lists, and the system calls on it (pika_syscalls.cpp, with the *)
(* bookkeeping of task.cpp). One name and the pipe it denotes are          *)
(* modelled, for any number of tasks that run in any order.                *)
(*                                                                         *)
(* A pipe is closed by its parent only, and in the same call it leaves the *)
(* parent's m_open_pipes and is freed: a closed pipe is never found by a   *)
(* system call, so the branches of wait_read, wait_write, read and write   *)
(* for a closed pipe are not reached and not modelled.                     *)
(***************************************************************************)
EXTENDS Naturals, Sequences

CONSTANTS PipeTask,    \* the tasks
          NoTask,      \* no task
          Byte,        \* the values of a byte
          m_capacity,  \* capacity of the ring buffer, in bytes
          MaxCount     \* bound: the largest count a system call asks for

ASSUME CapacityAssumption == m_capacity \in Nat \ {0}
ASSUME MaxCountAssumption == MaxCount \in Nat
ASSUME NoTaskAssumption == NoTask \notin PipeTask

VARIABLES m_parent,          \* the task that created the pipe; NoTask: there is no pipe
          m_buffer,          \* the ring buffer, indexed from 0
          m_size,            \* bytes in it
          m_read_index,
          m_write_index,
          m_open_pipes,      \* the tasks whose m_open_pipes holds the pipe
          m_ref_count,       \* Resource::m_ref_count
          m_read_wait_list,  \* the tasks blocked in SYS_PIPE_READ
          m_write_wait_list, \* the tasks blocked in SYS_PIPE_WRITE
          handle,            \* the tasks that hold the pipe's address
          refused,           \* the tasks whose call on an existing pipe got SYS_ERR_INVALID_PIPE
          user_buffer        \* the bytes the last call moved from or to the caller's buffer

ringVars == <<m_buffer, m_size, m_read_index, m_write_index>>
listVars == <<m_read_wait_list, m_write_wait_list>>
ownVars == <<m_parent, m_open_pipes, m_ref_count>>
pipeVars == <<ownVars, ringVars, listVars, handle, refused, user_buffer>>

Index == 0 .. m_capacity - 1

PipeTypeOK ==
  /\ m_parent \in PipeTask \cup {NoTask}
  /\ m_buffer \in [Index -> Byte]
  /\ m_size \in 0 .. m_capacity
  /\ m_read_index \in Index /\ m_write_index \in Index
  /\ m_open_pipes \subseteq PipeTask
  /\ m_ref_count \in 0 .. 1
  /\ m_read_wait_list \in Seq(PipeTask) /\ m_write_wait_list \in Seq(PipeTask)
  /\ handle \subseteq PipeTask /\ refused \subseteq PipeTask
  /\ user_buffer \in Seq(Byte)

PipeInit ==
  /\ m_parent = NoTask
  /\ m_buffer \in [Index -> Byte]
  /\ m_size = 0 /\ m_read_index = 0 /\ m_write_index = 0
  /\ m_open_pipes = {} /\ m_ref_count = 0
  /\ m_read_wait_list = <<>> /\ m_write_wait_list = <<>>
  /\ handle = {} /\ refused = {}
  /\ user_buffer = <<>>
-----------------------------------------------------------------------------
can_read == m_size > 0
can_write == m_size < m_capacity

Smaller(a, b) == IF a < b THEN a ELSE b

\* The index after index i and count bytes: read() and write() subtract the capacity once.
advance(i, count) == IF i + count >= m_capacity THEN i + count - m_capacity ELSE i + count

\* Mutant of copy_in: the part that wraps around is not copied.
copy_in_no_wrap(data) ==
  LET first_part == Smaller(Len(data), m_capacity - m_write_index)
  IN [i \in Index |-> IF i \in m_write_index .. m_write_index + first_part - 1
                      THEN data[i - m_write_index + 1] ELSE m_buffer[i]]

\* The memcpy()s of write(): the data, cut at the end of the buffer and continued at its start.
copy_in(data) ==
  LET count == Len(data)
      first_part == m_capacity - m_write_index
  IN [i \in Index |->
        IF i >= m_write_index /\ i - m_write_index < count THEN data[i - m_write_index + 1]
        ELSE IF m_write_index + count > m_capacity /\ i < count - first_part THEN data[first_part + i + 1]
        ELSE m_buffer[i]]

\* The memcpy()s of read(): count bytes from m_read_index on, in one part or in two.
copy_out(count) ==
  LET first_part == m_capacity - m_read_index
  IN [i \in 1 .. count |->
        IF i <= first_part THEN m_buffer[m_read_index + i - 1] ELSE m_buffer[i - first_part - 1]]

\* PipeResource::write(): as much of the data as fits.
write(data) ==
  LET count == Smaller(Len(data), m_capacity - m_size)
  IN /\ user_buffer' = SubSeq(data, 1, count)
     /\ m_buffer' = copy_in(SubSeq(data, 1, count))
     /\ m_write_index' = advance(m_write_index, count)
     /\ m_size' = m_size + count
     /\ m_read_wait_list' = IF count = 0 THEN m_read_wait_list ELSE <<>>
     /\ UNCHANGED <<m_read_index, m_write_wait_list>>

\* Mutant of read: the read index stays where it is.
read_again(size) ==
  LET count == Smaller(size, m_size)
  IN /\ user_buffer' = copy_out(count)
     /\ m_read_index' = m_read_index
     /\ m_size' = m_size - count
     /\ m_write_wait_list' = IF count = 0 THEN m_write_wait_list ELSE <<>>
     /\ UNCHANGED <<m_buffer, m_write_index, m_read_wait_list>>

\* PipeResource::read(): as much as there is, up to size.
read(size) ==
  LET count == Smaller(size, m_size)
  IN /\ user_buffer' = copy_out(count)
     /\ m_read_index' = advance(m_read_index, count)
     /\ m_size' = m_size - count
     /\ m_write_wait_list' = IF count = 0 THEN m_write_wait_list ELSE <<>>
     /\ UNCHANGED <<m_buffer, m_write_index, m_read_wait_list>>
-----------------------------------------------------------------------------
Waits(list, t) == \E i \in 1 .. Len(list) : list[i] = t

\* The task runs: it is not blocked in one of the wait lists.
Runs(t) == ~Waits(m_read_wait_list, t) /\ ~Waits(m_write_wait_list, t)

\* SYS_PIPE_OPEN: create_pipe() and register_pipe(). For a name the task
\* uses already the answer is a null pointer.
PipeOpen(t) ==
  /\ Runs(t) /\ m_parent = NoTask
  /\ m_parent' = t
  /\ m_buffer' \in [Index -> Byte]   \* new uint8_t[capacity] is not initialised
  /\ m_open_pipes' = m_open_pipes \cup {t}
  /\ m_ref_count' = 1
  /\ handle' = {t}
  /\ UNCHANGED <<m_size, m_read_index, m_write_index, listVars, refused, user_buffer>>

\* SYS_PIPE_GET: the address of another task's pipe. The pipe is not registered with the caller.
PipeGet(t) ==
  /\ Runs(t) /\ m_parent # NoTask
  /\ handle' = handle \cup {t}
  /\ UNCHANGED <<ownVars, ringVars, listVars, refused, user_buffer>>

\* A call on a pipe that is not in the caller's m_open_pipes: SYS_ERR_INVALID_PIPE.
PipeRefused(t) ==
  /\ Runs(t) /\ t \in handle \ m_open_pipes
  /\ refused' = refused \cup {t}
  /\ UNCHANGED <<ownVars, ringVars, listVars, handle, user_buffer>>

\* unregister_pipe() of the parent: close() wakes everybody, unref() deletes the pipe.
unregister_pipe(t) ==
  /\ t = m_parent
  /\ m_parent' = NoTask
  /\ m_size' = 0 /\ m_read_index' = 0 /\ m_write_index' = 0
  /\ m_read_wait_list' = <<>> /\ m_write_wait_list' = <<>>
  /\ m_open_pipes' = m_open_pipes \ {t}
  /\ m_ref_count' = m_ref_count - 1
  /\ handle' = {}
  /\ UNCHANGED m_buffer

\* SYS_PIPE_CLOSE, and the end of the task (free_resources).
PipeClose(t) ==
  /\ Runs(t) /\ t \in m_open_pipes
  /\ unregister_pipe(t)
  /\ UNCHANGED <<refused, user_buffer>>

\* SYS_PIPE_READ: an empty pipe blocks the caller, which steps back to issue the call again.
PipeRead(t, size) ==
  /\ Runs(t) /\ t \in m_open_pipes
  /\ IF can_read THEN read(size)
     ELSE /\ m_read_wait_list' = Append(m_read_wait_list, t)
          /\ UNCHANGED <<ringVars, m_write_wait_list, user_buffer>>
  /\ UNCHANGED <<ownVars, handle, refused>>

\* SYS_PIPE_WRITE: a full pipe blocks the caller.
PipeWrite(t, data) ==
  /\ Runs(t) /\ t \in m_open_pipes
  /\ IF can_write THEN write(data)
     ELSE /\ m_write_wait_list' = Append(m_write_wait_list, t)
          /\ UNCHANGED <<ringVars, m_read_wait_list, user_buffer>>
  /\ UNCHANGED <<ownVars, handle, refused>>

Data == UNION {[1 .. n -> Byte] : n \in 0 .. MaxCount}

OpenSome == \E t \in PipeTask : PipeOpen(t)
GetSome == \E t \in PipeTask : PipeGet(t) \/ PipeRefused(t)
CloseSome == \E t \in PipeTask : PipeClose(t)
ReadSome == \E t \in PipeTask, n \in 0 .. MaxCount : PipeRead(t, n)
WriteSome == \E t \in PipeTask, data \in Data : PipeWrite(t, data)

PipeNext == OpenSome \/ GetSome \/ CloseSome \/ ReadSome \/ WriteSome

PipeSpec == PipeInit /\ [][PipeNext]_pipeVars
-----------------------------------------------------------------------------
\* The bytes between the two indices of the ring, oldest first.
contents == copy_out(m_size)

Channel == INSTANCE ByteChannel WITH channel <- contents, moved <- user_buffer,
                                     Capacity <- m_capacity

\* read() and write() together are a channel of bytes: across every wrap-around of the indices,
\* bytes come out once each, in the order they went in, and never more than there are.
ChannelSpec == Channel!Spec

\* The write index is m_size bytes ahead of the read index; the pipe has one reference, its
\* parent's, or is gone.
RingInv ==
  /\ m_write_index = advance(m_read_index, m_size)
  /\ m_ref_count = IF m_parent = NoTask THEN 0 ELSE 1
  /\ m_open_pipes = {m_parent} \ {NoTask}
  /\ m_parent = NoTask => m_size = 0

\* A task blocked in a read waits for an empty pipe, one blocked in a write for a full one.
BlockedForAReason ==
  /\ m_read_wait_list # <<>> => m_size = 0
  /\ m_write_wait_list # <<>> => m_size = m_capacity

\* After every sequence of calls the indices, the count, the references and the wait lists of a pipe
\* agree with each other: nobody sleeps although there is something to read or room to write, and
\* a pipe is freed once, by its parent (pipe.cpp read(), write(), close()).
PipeInv == PipeTypeOK /\ RingInv /\ BlockedForAReason
-----------------------------------------------------------------------------
\* pipe.hpp: "One task can write to it whereas another task can read from it." A task that got
\* the pipe with SYS_PIPE_GET is not refused.
OtherTaskMayUse == refused = {}
=============================================================================
