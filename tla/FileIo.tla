------------------------------- MODULE FileIo -------------------------------
(***************************************************************************)
(* Files and directories as a process sees them: stdio and dirent of libc  *)
(* (libc/stdio/file.c, libc/dirent/dirent.c), its system calls             *)
(* (libc/sys/api/vfs.c), the task's table of file descriptors              *)
(* (system/api/vfs.c, system/task/task.c) and the file system at the other *)
(* end (libfs/fs.c, libfs/pseudo.c).  One message carries less than a      *)
(* caller may ask for, and pipes are created while a directory is listed.  *)
(***************************************************************************)
EXTENDS Integers, Sequences, FiniteSets

CONSTANTS
  Threads,    \* threads of the process, each with a file
  FileSize,   \* FileSize[f]: the length of file f
  Missing,    \* a name no file has
  MaxFiles,   \* max_num_files
  MaxData,    \* the bytes of a file that fit in a message
  ItemSizes, ItemCounts, Offsets,   \* what fread and fseek are called with
  First,      \* the nodes the directory has at first
  Pipes,      \* the nodes that are created in it
  DentSize,   \* DentSize[n]: the bytes of the entry of node n
  DirBuf,     \* __DIR_BUF_SIZE, the bytes of entries a reader asks for
  MsgRoom     \* and the bytes of them that fit in a message

VARIABLES
  fds,    \* fds[i]: the file behind descriptor i, "free" if not in use
  file,   \* file[t]: the FILE of thread t and the call t is in
  node,   \* the children of the directory, the newest first
  dir     \* the DIR of the reader, and what it was given

fileVars == <<fds, file, node, dir>>

Files == DOMAIN FileSize
Lesser(a, b) == IF a <= b THEN a ELSE b

-----------------------------------------------------------------------------
\* Reading a file.


pseudo_fs_read_data(f, count, offset) ==
  [count |-> IF offset < FileSize[f] THEN Lesser(FileSize[f] - offset, count) ELSE 0,
   more |-> offset < FileSize[f] /\ FileSize[f] - offset > count]

\* The file system answers with no more than a message holds.
dispatch_file_read(f, size, offset) ==
  pseudo_fs_read_data(f, Lesser(size, MaxData), offset)

\* The bytes, each named by its place in the file.
RECURSIVE sys_api_file_read(_, _, _)
sys_api_file_read(f, count, offset) ==
  LET r == dispatch_file_read(f, count, offset) IN
  [i \in 1..r.count |-> offset + i - 1] \o
  IF r.more /\ count > r.count
  THEN sys_api_file_read(f, count - r.count, offset + r.count)
  ELSE <<>>

\* fread without its buffer, which is always empty: what is left of an item
\* that is not whole is read again by the next call.
fread(t) ==
  \E size \in ItemSizes, count \in ItemCounts :
    LET fl == file[t]
        bytes == sys_api_file_read(fds[fl.fd], size * count, fl.pos)
        items == Len(bytes) \div size
    IN /\ fl.at = "open"
       /\ file' = [file EXCEPT ![t] =
            IF fl.eof
            THEN [fl EXCEPT !.call = [from |-> fl.pos, size |-> size, count |-> count],
                            !.ret = [items |-> 0, bytes |-> <<>>]]
            ELSE [fl EXCEPT !.pos = @ + items * size,
                            !.eof = bytes = <<>>,
                            !.call = [from |-> fl.pos, size |-> size, count |-> count],
                            !.ret = [items |-> items, bytes |-> bytes]]]
       /\ UNCHANGED <<fds, node, dir>>

NoCall == [from |-> 0, size |-> 0, count |-> 0]
NoRet == [items |-> 0, bytes |-> <<>>]

fseek(t) ==
  \E offset \in Offsets :
    /\ file[t].at = "open"
    /\ file' = [file EXCEPT ![t].pos = offset, ![t].call = NoCall, ![t].ret = NoRet]
    /\ UNCHANGED <<fds, node, dir>>

rewind(t) ==
  /\ file[t].at = "open"
  /\ file' = [file EXCEPT ![t].pos = 0, ![t].eof = FALSE,
                          ![t].call = NoCall, ![t].ret = NoRet]
  /\ UNCHANGED <<fds, node, dir>>

Closed == [at |-> "closed", name |-> Missing, fd |-> 0, pos |-> 0, eof |-> FALSE,
           call |-> NoCall, ret |-> NoRet]

\* fopen.  vfs_api_acquire answers an error for a name that is not there but
\* goes on, and a descriptor is taken all the same.  With all of them taken
\* the descriptor is -1.
fopen(t) ==
  \E name \in Files \cup {Missing} :
    LET free == {i \in DOMAIN fds : fds[i] = "free"}
        fd == CHOOSE i \in free : \A j \in free : i <= j
    IN /\ file[t].at = "closed"
       /\ fds' = IF free = {} THEN fds ELSE [fds EXCEPT ![fd] = name]
       /\ file' = IF free = {} \/ name = Missing THEN file
                  ELSE [file EXCEPT ![t] = [Closed EXCEPT !.at = "open", !.name = name,
                                                          !.fd = fd]]
       /\ UNCHANGED <<node, dir>>

\* fclose, to where vfs_api_release has released the entry,
fclose(t) ==
  /\ file[t].at = "open"
  /\ file' = [file EXCEPT ![t].at = "closing"]
  /\ UNCHANGED <<fds, node, dir>>

\* and its end, with the descriptor.
task_free_fd(t) ==
  /\ file[t].at = "closing"
  /\ fds' = [fds EXCEPT ![file[t].fd] = "free"]
  /\ file' = [file EXCEPT ![t] = Closed]
  /\ UNCHANGED <<node, dir>>

-----------------------------------------------------------------------------
\* Listing the directory.

\* pseudo_fs_dir_read: the sibling behind the last entry; <<>> at the end.
pseudo_fs_dir_read(last) ==
  IF last = Missing THEN IF node = <<>> THEN <<>> ELSE <<node[1]>>
  ELSE LET i == CHOOSE j \in DOMAIN node : node[j] = last IN
       IF i = Len(node) THEN <<>> ELSE <<node[i + 1]>>

\* The parent has no node of this name: a new one is put in front.
pseudo_fs_pipe_create ==
  \E n \in Pipes :
    /\ \A i \in DOMAIN node : node[i] # n
    /\ node' = <<n>> \o node
    /\ UNCHANGED <<fds, file, dir>>

NewDir == [at |-> "idle", last |-> Missing, buf |-> <<>>, cur |-> Missing,
           copied |-> 0, num |-> <<>>, out |-> <<>>, there |-> {}]

\* readdir with nothing left in its buffer asks for entries,
dir_read_request ==
  /\ dir.at = "idle" /\ dir.buf = <<>>
  /\ dir' = [dir EXCEPT !.at = "fill", !.cur = dir.last, !.copied = 0, !.num = <<>>,
                        !.there = IF dir.out = <<>> THEN {node[i] : i \in DOMAIN node} ELSE @]
  /\ UNCHANGED <<fds, file, node>>

\* the file system puts one after the other into the answer, which libc copies
\* to the buffer; no entry at all is the end.
dispatch_dir_read ==
  LET next == pseudo_fs_dir_read(dir.cur)
      size == dir.copied + DentSize[next[1]]
  IN /\ dir.at = "fill"
     /\ dir' = IF next # <<>> /\ size <= DirBuf /\ size <= MsgRoom
               THEN [dir EXCEPT !.cur = next[1], !.copied = size, !.num = @ \o next]
               ELSE [dir EXCEPT !.at = IF dir.num = <<>> THEN "end" ELSE "idle",
                                !.buf = dir.num]
     /\ UNCHANGED <<fds, file, node>>

\* readdir gives the next entry of its buffer.
readdir_safe ==
  /\ dir.at = "idle" /\ dir.buf # <<>>
  /\ dir' = [dir EXCEPT !.last = Head(dir.buf), !.buf = Tail(@),
                        !.out = Append(@, Head(dir.buf))]
  /\ UNCHANGED <<fds, file, node>>

\* rewinddir, after the end.
rewinddir ==
  /\ dir.at = "end"
  /\ dir' = NewDir
  /\ UNCHANGED <<fds, file, node>>

-----------------------------------------------------------------------------

FileIoInit ==
  /\ fds = [i \in 0..(MaxFiles - 1) |-> "free"]
  /\ file = [t \in Threads |-> Closed]
  /\ node = First
  /\ dir = NewDir

FileIoNext ==
  \/ \E t \in Threads :
       fopen(t) \/ fclose(t) \/ task_free_fd(t) \/ fread(t) \/ fseek(t) \/ rewind(t)
  \/ pseudo_fs_pipe_create \/ dir_read_request \/ dispatch_dir_read \/ readdir_safe
  \/ rewinddir

-----------------------------------------------------------------------------


\* By the time readdir says there are no more entries it has given each node
\* that was there when it began exactly once, in as many requests as that took
\* and with nodes being created in the meantime.
DirListed ==
  /\ \A i, j \in DOMAIN dir.out : dir.out[i] = dir.out[j] => i = j
  /\ dir.at = "end" => dir.there \subseteq {dir.out[i] : i \in DOMAIN dir.out}
=============================================================================
