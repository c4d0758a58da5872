----------------------------- MODULE OpenFiles -----------------------------
(***************************************************************************)
(* Files and directories: the system calls on them (pika_syscalls.cpp),    *)
(* the lists of open ones that a task keeps (task.cpp) and the classes     *)
(* FileSystem, File and Dir (kernel/fs) over FatFs, which is external: a   *)
(* read-only disk of files and directories. A program may pass any address *)
(* as a handle, also one it has closed or one of another program, and the  *)
(* allocator may hand an address out again at once.                        *)
(***************************************************************************)
EXTENDS Naturals, Sequences, FiniteSets, SequencesExt

CONSTANTS FileTask,     \* the tasks
          Address,      \* where a File or a Dir can be allocated
          file_size,    \* the files of the disk: path |-> size
          dir_size,     \* its directories: path |-> number of entries
          Counts        \* bound: how many bytes a read asks for

Paths == DOMAIN file_size \cup DOMAIN dir_size

VARIABLES opened,       \* the Files and Dirs: address |-> [kind, path, fptr, opener]; opener observes
          m_open_files, m_open_dirs,   \* of each task, sequences of addresses
          file_answer        \* what the last system call has answered

fileVars == <<opened, m_open_files, m_open_dirs, file_answer>>

FileInit ==
  /\ opened = <<>>
  /\ m_open_files = [t \in FileTask |-> <<>>] /\ m_open_dirs = [t \in FileTask |-> <<>>]
  /\ file_answer = <<"none", 0>>

\* The error and the value of a system call.
answers(error, value) == file_answer' = <<error, value>>

\* Mutant of own_file: anything that is open will do.
own_file_any(t, a) == a \in DOMAIN opened

own_file(t, a) == Contains(m_open_files[t], a)
own_dir(t, a) == Contains(m_open_dirs[t], a)

register_file(t, a) == m_open_files' = [m_open_files EXCEPT ![t] = Append(@, a)]
unregister_file(t, a) == m_open_files' = [m_open_files EXCEPT ![t] = RemoveFirst(@, a)]
register_dir(t, a) == m_open_dirs' = [m_open_dirs EXCEPT ![t] = Append(@, a)]
unregister_dir(t, a) == m_open_dirs' = [m_open_dirs EXCEPT ![t] = RemoveFirst(@, a)]

\* f_open(), f_opendir(): a new object stands at the beginning.
Object(kind, path, t) == [kind |-> kind, path |-> path, fptr |-> 0, opener |-> t]

\* The objects without, and with, the one at an address.
without(a) == [b \in DOMAIN opened \ {a} |-> opened[b]]
with(a, object) == [b \in DOMAIN opened \cup {a} |-> IF b = a THEN object ELSE opened[b]]

\* File::read(): what is left of the file, up to the count.
read_bytes(a, count) ==
  LET left == file_size[opened[a].path] - opened[a].fptr IN IF count < left THEN count ELSE left

\* Dir::read() finds no entry behind the last one.
dir_at_end(a) == opened[a].fptr = dir_size[opened[a].path]
-----------------------------------------------------------------------------
\* SYS_OPEN_FILE: a File is allocated, and deleted again when it cannot be opened. Writing is not
\* supported, the mode does not matter.
OpenFile(t, path, a) ==
  /\ a \notin DOMAIN opened
  /\ IF path \in DOMAIN file_size
     THEN /\ opened' = with(a, Object("file", path, t))
          /\ register_file(t, a)
          /\ answers("OK", a)
     ELSE answers("nullptr", 0) /\ UNCHANGED <<opened, m_open_files>>
  /\ UNCHANGED m_open_dirs

\* SYS_CLOSE_FILE.
CloseFile(t, a) ==
  /\ IF own_file(t, a)
     THEN /\ opened' = without(a)
          /\ unregister_file(t, a)
          /\ answers("OK", 0)
     ELSE answers("INVALID_FILE", 0) /\ UNCHANGED <<opened, m_open_files>>
  /\ UNCHANGED m_open_dirs

\* SYS_READ_FILE.
ReadFile(t, a, count) ==
  /\ IF own_file(t, a)
     THEN /\ opened' = [opened EXCEPT ![a].fptr = @ + read_bytes(a, count)]
          /\ answers("OK", read_bytes(a, count))
     ELSE answers("INVALID_FILE", 0) /\ UNCHANGED opened
  /\ UNCHANGED <<m_open_files, m_open_dirs>>

\* SYS_GET_FILE_SIZE.
GetFileSize(t, a) ==
  /\ IF own_file(t, a) THEN answers("OK", file_size[opened[a].path]) ELSE answers("INVALID_FILE", 0)
  /\ UNCHANGED <<opened, m_open_files, m_open_dirs>>

\* SYS_OPEN_DIR, SYS_CLOSE_DIR.
OpenDir(t, path, a) ==
  /\ a \notin DOMAIN opened
  /\ IF path \in DOMAIN dir_size
     THEN /\ opened' = with(a, Object("dir", path, t))
          /\ register_dir(t, a)
          /\ answers("OK", a)
     ELSE answers("nullptr", 0) /\ UNCHANGED <<opened, m_open_dirs>>
  /\ UNCHANGED m_open_files

CloseDir(t, a) ==
  /\ IF own_dir(t, a)
     THEN /\ opened' = without(a)
          /\ unregister_dir(t, a)
          /\ answers("OK", 0)
     ELSE answers("INVALID_DIR", 0) /\ UNCHANGED <<opened, m_open_dirs>>
  /\ UNCHANGED m_open_files

\* SYS_READ_DIR: an entry, or SYS_ERR_GENERIC behind the last one.
ReadDir(t, a) ==
  /\ IF ~own_dir(t, a) THEN answers("INVALID_DIR", 0) /\ UNCHANGED opened
     ELSE IF dir_at_end(a) THEN answers("GENERIC", 0) /\ UNCHANGED opened
     ELSE /\ opened' = [opened EXCEPT ![a].fptr = @ + 1]
          /\ answers("OK", 0)
  /\ UNCHANGED <<m_open_files, m_open_dirs>>

\* free_resources() at the end of a task: both lists are closed and cleared.
FreeFiles(t) ==
  /\ opened' = [a \in DOMAIN opened \ (ToSet(m_open_files[t]) \cup ToSet(m_open_dirs[t])) |-> opened[a]]
  /\ m_open_files' = [m_open_files EXCEPT ![t] = <<>>]
  /\ m_open_dirs' = [m_open_dirs EXCEPT ![t] = <<>>]
  /\ answers("none", 0)

FileNext ==
  \E t \in FileTask :
    \/ \E path \in Paths, a \in Address : OpenFile(t, path, a) \/ OpenDir(t, path, a)
    \/ \E a \in Address : CloseFile(t, a) \/ GetFileSize(t, a) \/ CloseDir(t, a) \/ ReadDir(t, a)
    \/ \E a \in Address, count \in Counts : ReadFile(t, a, count)
    \/ FreeFiles(t)

FileSpec == FileInit /\ [][FileNext]_fileVars
-----------------------------------------------------------------------------
\* A handle works for the task that opened what is open at its address now, in calls of its kind, and
\* for nobody else, also when the address was that of another task's file before; each object is in
\* one list, once, so that it is closed once, at the latest with its task (task.cpp own_file(),
\* register_file(), unregister_file(), free_resources()).
HandlesAreSafe ==
  /\ \A a \in Address, t \in FileTask :
       /\ own_file(t, a) <=> a \in DOMAIN opened /\ opened[a].kind = "file" /\ opened[a].opener = t
       /\ own_dir(t, a) <=> a \in DOMAIN opened /\ opened[a].kind = "dir" /\ opened[a].opener = t
  /\ \A t \in FileTask : IsInjective(m_open_files[t]) /\ IsInjective(m_open_dirs[t])
  /\ DOMAIN opened \subseteq Address
=============================================================================
