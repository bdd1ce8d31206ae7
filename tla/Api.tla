-------------------------------- MODULE Api ---------------------------------
(***************************************************************************)
(* The calls a process makes to the system: a stub of libc packs a request *)
(* into the message buffer of its thread, the kernel copies it to a thread *)
(* of the system process, whose handler unpacks it and often packs another *)
(* for a file system, which may ask a driver in turn; the answers come     *)
(* back the same way.  A thread has one buffer, for what it asks and what  *)
(* it is asked, and what is past the end of a message stays in it.         *)
(* One client makes its calls one after the other; a step is what a thread *)
(* does between two messages.                                              *)
(***************************************************************************)
EXTENDS Integers, Sequences, SequencesExt

CONSTANTS
  WordSize, MaxWords, MaxParams,   \* sizes of a message
  ExtraSafe,   \* the bytes that readers and writers leave free
  Calls,       \* the calls the client may make
  MaxCalls,    \* bound: how many it makes
  Nodes,       \* the nodes of the file systems rootfs and devfs at first
  MaxNodes,    \* bound: nodes of a file system
  Fds,         \* Fds[d]: the descriptors of the client at first, devfs being
               \* mounted on the directory d of rootfs; 0 for nowhere
  Image,       \* what the last read of a program's file returns
  Null,        \* the NULL of a string
  Panicked     \* what a getter that panics returns

VARIABLES
  buf,   \* the buffers of the threads: client, server (in system), fs,
         \* worker (of devfs), driver
  st     \* where the call is, and what the system process and the file
         \* systems hold; see ApiInit

apiVars == <<buf, st>>

Nul == "nul"
Junk == "junk"
Lesser(a, b) == IF a <= b THEN a ELSE b

-----------------------------------------------------------------------------
\* Messages (libsys/ipc.c).  ok says that no append has panicked.

get_msg ==
  [params |-> <<>>, words |-> 0, ok |-> TRUE,
   area |-> [i \in 0 .. (MaxWords * WordSize - 1) |-> Junk]]

get_empty_msg(m) == [m EXCEPT !.params = <<>>, !.words = 0]

msg_remain_data_size(m) == (MaxWords - m.words) * WordSize
Room(m) == msg_remain_data_size(m) - ExtraSafe

Fill(area, at, bytes) ==
  [i \in DOMAIN area |-> IF i \in at .. (at + Len(bytes) - 1) THEN bytes[i - at + 1] ELSE area[i]]

msg_append_param(m, v) ==
  IF Len(m.params) >= MaxParams THEN [m EXCEPT !.ok = FALSE]
  ELSE [m EXCEPT !.params = Append(@, [data |-> FALSE, v |-> v])]

msg_append_int(m, v) == msg_append_param(m, v)

\* bytes is empty when the caller fills in the data itself.
msg_append_data(m, bytes, size) ==
  LET words == (size + WordSize - 1) \div WordSize IN
  IF Len(m.params) >= MaxParams \/ m.words + words > MaxWords THEN [m EXCEPT !.ok = FALSE]
  ELSE [m EXCEPT !.area = Fill(@, m.words * WordSize, bytes),
                 !.params = Append(@, [data |-> TRUE, v |-> [at |-> m.words, words |-> words]]),
                 !.words = @ + words]

msg_append_str(m, str, size) ==
  IF str = Null /\ size = 0 THEN msg_append_data(m, <<>>, 0)
  ELSE LET n == IF size = 0 THEN Len(str) ELSE size
       IN msg_append_data(m, IF str = Null THEN <<>> ELSE Append(SubSeq(str, 1, n), Nul), n + 1)

Has(m, i, data) == IF i < Len(m.params) THEN m.params[i + 1].data = data ELSE FALSE

msg_get_param(m, i) == IF Has(m, i, FALSE) THEN m.params[i + 1].v ELSE Panicked

msg_get_int(m, i) == msg_get_param(m, i)

\* A place in the buffer.
msg_get_data(m, i) ==
  IF ~Has(m, i, TRUE) THEN Panicked
  ELSE LET d == m.params[i + 1].v IN IF d.words = 0 THEN Null ELSE d.at * WordSize

msg_set_param(m, i, v) ==
  IF Has(m, i, FALSE) THEN [m EXCEPT !.params[i + 1].v = v] ELSE [m EXCEPT !.ok = FALSE]

msg_set_int(m, i, v) == msg_set_param(m, i, v)

\* What is at a place, when it is read.
Bytes(m, at, n) ==
  [k \in 1..n |-> IF at + k - 1 \in DOMAIN m.area THEN m.area[at + k - 1] ELSE Junk]
String(m, at) ==
  IF at \in {Null, Panicked} THEN at
  ELSE LET all == [k \in 1 .. (MaxWords * WordSize - at) |-> m.area[at + k - 1]]
           ends == {k \in DOMAIN all : all[k] = Nul}
       IN IF ends = {} THEN all
          ELSE SubSeq(all, 1, (CHOOSE k \in ends : \A j \in ends : k <= j) - 1)

\* Mutant: the last word of the data is not copied.
copy_msg_short(dst, src) ==
  [src EXCEPT !.area = [i \in DOMAIN @ |-> IF i < (src.words - 1) * WordSize THEN @[i] ELSE dst.area[i]],
              !.ok = @ /\ dst.ok]

\* The kernel's copy between threads.
copy_msg(dst, src) ==
  [src EXCEPT !.area = [i \in DOMAIN @ |-> IF i < src.words * WordSize THEN @[i] ELSE dst.area[i]],
              !.ok = @ /\ dst.ok]

\* A message is packed from a list of items.
Param(v) == [k |-> "param", v |-> v]
Num(v) == [k |-> "int", v |-> v]
Str(s) == [k |-> "str", v |-> s, n |-> 0]
StrN(s, n) == [k |-> "str", v |-> s, n |-> n]
Data(b, n) == [k |-> "data", v |-> b, n |-> n]

Pack(m, items) ==
  LET Put(x, it) == CASE it.k = "param" -> msg_append_param(x, it.v)
                      [] it.k = "int"   -> msg_append_int(x, it.v)
                      [] it.k = "str"   -> msg_append_str(x, it.v, it.n)
                      [] it.k = "data"  -> msg_append_data(x, it.v, it.n)
  IN FoldLeft(Put, get_empty_msg(m), items)

Send(from, to, m) == buf' = [buf EXCEPT ![from] = m, ![to] = copy_msg(buf[to], m)]

-----------------------------------------------------------------------------
\* The stubs (libc/sys/api): the port and the request of a call c.  st.left
\* and st.off say how far a call that asks several times has come.

sys_api_acquire(c) == [port |-> "acquire", items |-> <<Str(c.path)>>]
sys_api_release(c) == [port |-> "release", items |-> <<Num(c.fd)>>]
sys_api_dev_create(c) ==
  [port |-> "node_create",
   items |-> <<Num(c.fd), Str(c.name), Param(c.mode), Param("dev"), Param(c.pid), Param(c.opcode)>>]
sys_api_pipe_create(c) ==
  [port |-> "node_create", items |-> <<Num(c.fd), Str(c.name), Param(c.mode), Param("pipe")>>]
sys_api_file_open(c) ==
  [port |-> "file_open", items |-> <<Num(c.fd), Param(c.flags), Param(c.mode)>>]
sys_api_file_read(c) ==
  [port |-> "file_read", items |-> <<Num(c.fd), Param(st.left), Param(st.off)>>]


\* msg_set_param after the data has been appended.
Announced(count, req) == req

sys_api_file_write(c) ==
  LET req == Lesser(st.left, Room(get_empty_msg(buf.client)))
  IN [port |-> "file_write",
      items |-> <<Num(c.fd), Param(Announced(st.left, req)), Param(st.off),
                  Data(SubSeq(c.bytes, st.off + 1, st.off + req), req)>>]

sys_api_dir_open(c) == [port |-> "dir_open", items |-> <<Num(c.fd), Param(c.flags)>>]
sys_api_dir_create(c) == [port |-> "dir_create", items |-> <<Num(c.fd), Str(c.name), Param(c.mode)>>]
sys_api_dir_remove(c) == [port |-> "dir_remove", items |-> <<Num(c.fd)>>]
sys_api_symlink_read(c) == [port |-> "symlink_read", items |-> <<Num(c.fd), Param(c.count)>>]
sys_api_mount(c) ==
  [port |-> "mount",
   items |-> <<Num(c.fd), Str(c.name), Param("devices"), Param(c.opcode), Param("ignored")>>]

sys_api_task_create(c) ==
  [port |-> "task_create",
   items |-> <<Num(c.type), Str(c.dir), Str(Null), Str(Null), Str(Null), Num(Len(c.argv))>>
             \o [i \in DOMAIN c.argv |-> Str(c.argv[i])]]
sys_api_task_exit(c) == [port |-> "exit", items |-> <<Param(c.status)>>]
sys_api_task_detach(c) == [port |-> "detach", items |-> <<Param(c.status)>>]
sys_api_task_wait(c) == [port |-> "wait", items |-> <<Param(c.pid)>>]
sys_api_task_set_work_dir(c) == [port |-> "task_set", items |-> <<Num(1), Str(c.path)>>]
sys_api_task_get_work_dir(c) == [port |-> "task_get", items |-> <<Num(1)>>]

Stub(c) ==
  CASE c.op = "acquire" -> sys_api_acquire(c)          [] c.op = "release" -> sys_api_release(c)
    [] c.op = "dev_create" -> sys_api_dev_create(c)    [] c.op = "pipe_create" -> sys_api_pipe_create(c)
    [] c.op = "file_open" -> sys_api_file_open(c)      [] c.op = "file_read" -> sys_api_file_read(c)
    [] c.op = "file_write" -> sys_api_file_write(c)    [] c.op = "dir_open" -> sys_api_dir_open(c)
    [] c.op = "dir_create" -> sys_api_dir_create(c)    [] c.op = "dir_remove" -> sys_api_dir_remove(c)
    [] c.op = "symlink_read" -> sys_api_symlink_read(c) [] c.op = "mount" -> sys_api_mount(c)
    [] c.op = "task_create" -> sys_api_task_create(c)  [] c.op = "exit" -> sys_api_task_exit(c)
    [] c.op = "detach" -> sys_api_task_detach(c)       [] c.op = "wait" -> sys_api_task_wait(c)
    [] c.op = "chdir" -> sys_api_task_set_work_dir(c)  [] c.op = "getcwd" -> sys_api_task_get_work_dir(c)

\* What the stub takes from the answer m when it says that all is well.
Answer(c, m) ==
  IF c.op \in {"acquire", "wait", "task_create", "file_write", "dir_create"} THEN msg_get_param(m, 1)
  ELSE IF c.op \in {"file_read", "symlink_read"}
       THEN IF msg_get_param(m, 1) = Panicked \/ msg_get_param(m, 2) = Panicked \/ msg_get_data(m, 3) = Panicked
            THEN Panicked
            ELSE [bytes |-> Bytes(m, msg_get_data(m, 3), msg_get_param(m, 1)), more |-> msg_get_param(m, 2)]
       ELSE IF c.op = "getcwd" THEN String(m, msg_get_data(m, 1)) ELSE 0

-----------------------------------------------------------------------------
\* A file system (libfs): f is the list of its nodes, and an id is a place in
\* it.  Its handlers return the arguments of the operation, the answer and
\* what becomes of the nodes.

get_ignored_ops_map(fs) == IF fs = "rootfs" THEN {"forget", "dev_create", "file_write"} ELSE {"forget"}

pseudo_fs_node_find(f, id, types) == id \in DOMAIN f /\ f[id].type \in types
AnyType == {"dir", "file", "dev", "pipe"}

\* The newest child of that name, 0 when there is none.
pseudo_fs_node_lookup(f, dir, name) ==
  LET named == {i \in DOMAIN f : f[i].dir = dir /\ f[i].name = name}
  IN IF named = {} THEN 0 ELSE CHOOSE i \in named : \A j \in named : j <= i

pseudo_fs_node_attach(f, dir, name, type, opcode) ==
  Append(f, [dir |-> dir, name |-> name, type |-> type, opcode |-> opcode, data |-> <<>>])

pseudo_fs_lookup(f, id, name) ==
  IF pseudo_fs_node_find(f, id, AnyType) THEN pseudo_fs_node_lookup(f, id, name) ELSE 0
pseudo_fs_acquire(f, id) == IF pseudo_fs_node_find(f, id, AnyType) THEN 0 ELSE -1
pseudo_fs_release(f, id) == IF pseudo_fs_node_find(f, id, AnyType) THEN 0 ELSE -1
pseudo_fs_file_open(f, id) == IF pseudo_fs_node_find(f, id, AnyType \ {"dir"}) THEN 0 ELSE -1
pseudo_fs_dir_open(f, id) == IF pseudo_fs_node_find(f, id, {"dir"}) THEN 0 ELSE -1

pseudo_fs_file_read(f, id, count, offset) ==
  IF ~pseudo_fs_node_find(f, id, {"file"}) THEN [err |-> -1, bytes |-> <<>>, more |-> 0]
  ELSE LET d == f[id].data
           n == Lesser(IF offset < Len(d) THEN Len(d) - offset ELSE 0, count)
       IN [err |-> 0, bytes |-> SubSeq(d, offset + 1, offset + n),
           more |-> IF offset + count < Len(d) /\ count > 0 THEN 1 ELSE 0]

pseudo_fs_pipe_create(f, id, name) ==
  IF pseudo_fs_node_find(f, id, {"dir"}) /\ pseudo_fs_node_lookup(f, id, name) = 0
  THEN pseudo_fs_node_attach(f, id, name, "pipe", "none") ELSE f

\* Whatever the directory, the node is made in the root.
devfs_dev_create(f, id, name, opcode) ==
  IF pseudo_fs_node_find(f, id, {"dir"}) THEN pseudo_fs_node_attach(f, 1, name, "dev", opcode) ELSE f

Did(args, items, f) == [args |-> args, items |-> items, f |-> f]
Id(m) == msg_get_param(m, 1)
Type(f, id) == IF id \in DOMAIN f THEN f[id].type ELSE "none"

dispatch_mount(m, f) == Did(<<>>, <<Num(0), Param(1), Num(0)>>, f)
dispatch_lookup(m, f) ==
  LET name == String(m, msg_get_data(m, 2))
      id == pseudo_fs_lookup(f, Id(m), name)
  IN Did(<<Id(m), name>>, <<Num(IF id = 0 THEN -1 ELSE 0), Param(id), Num(1), Num(Type(f, id))>>, f)
dispatch_acquire(m, f) ==
  Did(<<Id(m)>>, <<Num(pseudo_fs_acquire(f, Id(m))), Param(Id(m)), Num(1), Num(Type(f, Id(m)))>>, f)
dispatch_release(m, f) == Did(<<Id(m)>>, <<Num(pseudo_fs_release(f, Id(m)))>>, f)

dispatch_dev_create(m, f) ==
  LET name == String(m, msg_get_data(m, 2))
      new == devfs_dev_create(f, Id(m), name, msg_get_param(m, 5))
  IN Did(<<Id(m), name, msg_get_param(m, 3), msg_get_param(m, 4), msg_get_param(m, 5)>>,
         <<Num(IF new = f THEN -1 ELSE 0)>>, new)
dispatch_pipe_create(m, f) ==
  LET name == String(m, msg_get_data(m, 2))
      new == pseudo_fs_pipe_create(f, Id(m), name)
  IN Did(<<Id(m), name, msg_get_param(m, 3)>>, <<Num(IF new = f THEN -1 ELSE 0)>>, new)
dispatch_file_open(m, f) ==
  Did(<<Id(m), msg_get_param(m, 2), msg_get_param(m, 3)>>, <<Num(pseudo_fs_file_open(f, Id(m)))>>, f)
dispatch_dir_open(m, f) == Did(<<Id(m), msg_get_param(m, 2)>>, <<Num(pseudo_fs_dir_open(f, Id(m)))>>, f)

\* A read answers with the bytes behind the count and the more flag, in a
\* buffer that is laid out before the operation is called.
ReadBuffer(m, size) ==
  LET head == Pack(m, <<Num(0), Param(0), Num(0)>>)
  IN msg_append_data(head, <<>>, Lesser(size, Room(head)))
ReadSize(m) == Lesser(msg_get_param(m, 2), Room(get_empty_msg(m)))
ReadDone(m, err, bytes, more) ==
  msg_set_int(IF err # 0 THEN m
              ELSE msg_set_int(msg_set_param([m EXCEPT !.area = Fill(@, 0, bytes)], 1, Len(bytes)), 2, more),
              0, err)

\* The operation on a node that is no device.
dispatch_file_read(m, f) ==
  LET r == pseudo_fs_file_read(f, Id(m), ReadSize(m), msg_get_param(m, 3))
  IN ReadDone(ReadBuffer(m, msg_get_param(m, 2)), r.err, r.bytes, r.more)

\* rootfs has no such operation; devfs_write refuses what is no device.
dispatch_file_write(m, fs) ==
  Pack(m, IF "file_write" \in get_ignored_ops_map(fs) THEN <<Num(0), Param(0)>> ELSE <<Num(-1)>>)

dispatch(m, f) ==
  LET op == msg_get_param(m, 0) IN
  CASE op = "mount" -> dispatch_mount(m, f)             [] op = "lookup" -> dispatch_lookup(m, f)
    [] op = "acquire" -> dispatch_acquire(m, f)         [] op = "release" -> dispatch_release(m, f)
    [] op = "dev_create" -> dispatch_dev_create(m, f)   [] op = "pipe_create" -> dispatch_pipe_create(m, f)
    [] op = "file_open" -> dispatch_file_open(m, f)     [] op = "dir_open" -> dispatch_dir_open(m, f)

\* The drivers: how many bytes of a read or a write they take, and the bytes
\* they give.  The UART (Serial) takes all it is given.
dev_zero_read(count) == [k \in 1..count |-> "zero"]
dev_full_read(count) == [k \in 1..count |-> "zero"]
dev_rand_read(count) == [k \in 1..count |-> "random"]
dev_null_read(count) == <<>>
drv_read(opcode, count) ==
  CASE opcode = "zero" -> dev_zero_read(count)   [] opcode = "full" -> dev_full_read(count)
    [] opcode = "random" -> dev_rand_read(count) [] opcode = "null" -> dev_null_read(count)
drv_write(opcode, count) == IF opcode = "uart" THEN count ELSE 0

-----------------------------------------------------------------------------
\* The system process: what a handler does next.

Next0 == [do |-> "dead", fs |-> "rootfs", items |-> <<>>, k |-> "none", segs |-> <<>>, fd |-> 0]
Dead == Next0
Relay == [Next0 EXCEPT !.do = "relay"]
Say(items) == [Next0 EXCEPT !.do = "say", !.items = items]
Ask(fs, items, k) == [Next0 EXCEPT !.do = "ask", !.fs = fs, !.items = items, !.k = k]
Walk(segs, k) == [Next0 EXCEPT !.do = "walk", !.segs = segs, !.k = k]

NoVent == [fs |-> "rootfs", id |-> 0]
task_lookup_fd(fd) ==
  IF fd \in DOMAIN st.fds THEN (IF st.fds[fd].use THEN st.fds[fd].vent ELSE NoVent) ELSE NoVent
FreeFds == {i \in DOMAIN st.fds : ~st.fds[i].use}
task_alloc_fd == IF FreeFds = {} THEN -1 ELSE CHOOSE i \in FreeFds : \A j \in FreeFds : i <= j
WithFd(fd, vent) == IF fd = -1 THEN st.fds ELSE [st.fds EXCEPT ![fd] = [use |-> TRUE, vent |-> vent]]

\* Blanks in front are skipped.
task_abs_path(path) ==
  LET solid == {i \in DOMAIN path : path[i] # " "}
      name == IF solid = {} THEN <<>>
              ELSE SubSeq(path, CHOOSE i \in solid : \A j \in solid : i <= j, Len(path))
  IN IF name # <<>> /\ name[1] = "/" THEN name
     ELSE st.cwd \o (IF Last(st.cwd) = "/" THEN <<>> ELSE <<"/">>) \o name
Segments(path) ==
  SelectSeq(FoldLeft(LAMBDA s, ch : IF ch = "/" THEN Append(s, <<>>)
                                    ELSE [s EXCEPT ![Len(s)] = Append(@, ch)], << <<>> >>, path),
            LAMBDA s : s # <<>>)
Join(segs) == IF segs = <<>> THEN <<"/">> ELSE FoldLeft(LAMBDA p, s : p \o <<"/">> \o s, <<>>, segs)

ignore_op_ipc(fs, op) == op \in get_ignored_ops_map(fs)

\* The answer of the file system is not looked at: k is "zero" for a 0.
vfs_dev_create(v, name, flags, pid, opcode) ==
  IF ignore_op_ipc(v.fs, "dev_create") THEN Say(<<Num(-1)>>)
  ELSE Ask(v.fs, <<Param("dev_create"), Param(v.id), Str(name), Param(flags), Param(pid), Param(opcode)>>, "zero")
vfs_pipe_create(v, name, flags) ==
  IF ignore_op_ipc(v.fs, "pipe_create") THEN Say(<<Num(-1)>>)
  ELSE Ask(v.fs, <<Param("pipe_create"), Param(v.id), Str(name), Param(flags)>>, "zero")
vfs_file_open(v, flags, mode) ==
  IF ignore_op_ipc(v.fs, "file_open") THEN Say(<<Num(0)>>)
  ELSE Ask(v.fs, <<Param("file_open"), Param(v.id), Param(flags), Param(mode)>>, "zero")
vfs_dir_open(v, flags) ==
  IF ignore_op_ipc(v.fs, "dir_open") THEN Say(<<Num(0)>>)
  ELSE Ask(v.fs, <<Param("dir_open"), Param(v.id), Param(flags)>>, "zero")

\* The answer of the file system is passed on.
vfs_file_read_forward(v, count, offset) ==
  Ask(v.fs, <<Param("file_read"), Param(v.id), Param(count), Param(offset)>>, "relay")
vfs_file_read(v, count, offset) ==
  IF ignore_op_ipc(v.fs, "file_read") THEN Relay ELSE vfs_file_read_forward(v, count, offset)

vfs_file_write_real(v, data, count, offset) ==
  Ask(v.fs, <<Param("file_write"), Param(v.id), Param(count), Param(offset), Data(data, count)>>, "wrote")

\* The root has its mount; a directory may have one, while no name in it is
\* cached.  A refusal leaves the request in the buffer.
vfs_mount(v, fs, child) ==
  IF v.id = 0 \/ (child /\ \E i \in DOMAIN st.nodes[v.fs] : st.nodes[v.fs][i].dir = v.id) THEN Relay
  ELSE [Ask(fs, <<Param("mount")>>, "mounted") EXCEPT !.fd = v.id]

release_ipc(v) == Ask(v.fs, <<Param("release"), Param(v.id)>>, "released")

\* The handlers (system/api).  A descriptor that is not open is a NULL that
\* most of them follow.
Vent(m) == task_lookup_fd(msg_get_int(m, 0))
_err_response(err) == Say(<<Num(err)>>)

vfs_api_node_create(m) ==
  LET name == String(m, msg_get_data(m, 1))
      flags == msg_get_param(m, 2)
  IN IF Vent(m).id = 0 THEN Dead
     ELSE IF msg_get_param(m, 3) = "dev"
          THEN vfs_dev_create(Vent(m), name, flags, msg_get_param(m, 4), msg_get_param(m, 5))
          ELSE vfs_pipe_create(Vent(m), name, flags)

vfs_api_acquire(m) == Walk(Segments(task_abs_path(String(m, msg_get_data(m, 0)))), "acquire")

vfs_api_release(m) ==
  IF Vent(m).id = 0 THEN _err_response(-1) ELSE [release_ipc(Vent(m)) EXCEPT !.fd = msg_get_int(m, 0)]

vfs_api_file_open(m) ==
  IF Vent(m).id = 0 THEN Dead ELSE vfs_file_open(Vent(m), msg_get_param(m, 1), msg_get_param(m, 2))
vfs_api_file_read(m) ==
  IF Vent(m).id = 0 THEN Dead ELSE vfs_file_read(Vent(m), msg_get_param(m, 1), msg_get_param(m, 2))
vfs_api_file_write(m) ==
  LET count == msg_get_param(m, 1) IN
  IF Vent(m).id = 0 THEN Dead
  ELSE vfs_file_write_real(Vent(m), Bytes(m, msg_get_data(m, 3), count), count, msg_get_param(m, 2))
vfs_api_dir_open(m) == IF Vent(m).id = 0 THEN Dead ELSE vfs_dir_open(Vent(m), msg_get_param(m, 1))
vfs_api_mount(m, res) ==
  vfs_mount(IF msg_get_int(m, 0) = 0 THEN NoVent ELSE Vent(m), msg_get_param(m, 3), res.err # 0)

\* exec_elf leaves in the buffer the path it opens and what its reads of the
\* file have brought; the arguments are read from the buffer after it.
exec_elf(m, path) == [m EXCEPT !.area = Fill(Fill(@, 0, Append(path, Nul)), 0, Image)]
task_argv(m) ==
  LET argv(i) == msg_get_data(m, 5 + i)
      after == exec_elf(m, task_abs_path(String(m, argv(1))))
  IN [i \in 1 .. msg_get_int(m, 5) |-> String(after, argv(i))]

\* What the task manager answers is res; see TaskLife.  task_create fails
\* with -1, which is taken for a process.
task_api_task_create(m, res) == Say(<<Num(IF res.val = 0 THEN -1 ELSE 0), Param(res.val)>>)
task_api_exit(m, res) == Say(<<Num(res.err)>>)
task_api_detach(m, res) == Say(<<Num(res.err)>>)
task_api_wait(m, res) == Say(IF res.err = 0 THEN <<Num(0), Param(res.val)>> ELSE <<Num(res.err)>>)
task_api_set_attri(m) == Walk(Segments(task_abs_path(String(m, msg_get_data(m, 1)))), "chdir")

\* The string's space is laid out before task_get_work_dir fills it in.
task_get_work_dir(m, size) ==
  IF Len(st.cwd) < size THEN [m EXCEPT !.area = Fill(@, 0, Append(st.cwd, Nul))]
  ELSE msg_set_int(m, 0, -1)
task_api_get_attri(m) ==
  LET room == Room(Pack(m, <<Num(0)>>))
  IN task_get_work_dir(Pack(m, <<Num(0), StrN(Null, room)>>), room)

Handler(m, res) ==
  CASE st.port = "node_create" -> vfs_api_node_create(m) [] st.port = "acquire" -> vfs_api_acquire(m)
    [] st.port = "release" -> vfs_api_release(m)         [] st.port = "file_open" -> vfs_api_file_open(m)
    [] st.port = "file_read" -> vfs_api_file_read(m)     [] st.port = "file_write" -> vfs_api_file_write(m)
    [] st.port = "dir_open" -> vfs_api_dir_open(m)       [] st.port = "mount" -> vfs_api_mount(m, res)
    [] st.port = "task_create" -> task_api_task_create(m, res)
    [] st.port = "exit" -> task_api_exit(m, res)         [] st.port = "detach" -> task_api_detach(m, res)
    [] st.port = "wait" -> task_api_wait(m, res)         [] st.port = "task_set" -> task_api_set_attri(m)
    [] st.port = "task_get" -> Relay

\* The ports that have handlers.
init_vfs_api == {"acquire", "release", "node_create", "file_open", "file_read", "file_write",
                 "dir_open", "mount"}
init_task_api == {"task_create", "exit", "detach", "wait", "task_set", "task_get"}
find_handler(port) == port \in init_vfs_api \cup init_task_api

\* What a task operation is called with.
TaskArgs(m) ==
  CASE st.port \in {"exit", "detach", "wait"} -> << <<st.port, msg_get_param(m, 0)>> >>
    [] st.port = "task_create" -> << <<st.port, msg_get_int(m, 0), task_argv(m)>> >>
    [] OTHER -> <<>>

-----------------------------------------------------------------------------
\* The steps.

NoCall == [op |-> "none"]
Default == [err |-> 0, val |-> 7]
ApiInit ==
  /\ buf = [t \in {"client", "server", "fs", "worker", "driver"} |-> get_msg]
  /\ \E mnt \in DOMAIN Fds :
       st = [at |-> "idle", n |-> 0, c |-> NoCall,
             left |-> 0, off |-> 0, got |-> <<>>,      \* the loop of a read or write
             port |-> "none", fs |-> "rootfs", k |-> "none",
             segs |-> <<>>, all |-> <<>>, goal |-> "none", vent |-> NoVent,  \* a walk
             fd |-> 0, fds |-> Fds[mnt], nodes |-> Nodes, cwd |-> <<"/">>,
             io |-> <<>>,                  \* what the worker of devfs asks for
             mnt |-> mnt,                  \* the directory devfs is mounted on
             late |-> {},                  \* the handlers that will answer again
             mixed |-> FALSE,              \* an answer has gone to another request
             seen |-> <<>>,                \* the operations called for the call
             res |-> Default,              \* what the task manager said
             ret |-> Default,              \* what the call returned
             was |-> <<>>]                 \* the state when the call began

\* A read and a write of a pipe are in Pipe.  A ventry with a mount is not
\* released, and a file system is mounted once: create_fs.
Sensible(c) ==
  /\ c.op \in {"dev_create", "pipe_create"} =>
       Len(st.nodes.rootfs) < MaxNodes /\ Len(st.nodes.devfs) < MaxNodes
  /\ c.op \in {"file_read", "file_write"} =>
       LET v == task_lookup_fd(c.fd) IN Type(st.nodes[v.fs], v.id) # "pipe"
  /\ c.op = "release" => (st.mnt # 0 => task_lookup_fd(c.fd) # [fs |-> "rootfs", id |-> st.mnt])
  /\ c.op = "mount" => (c.fd # 0 /\ task_lookup_fd(c.fd).id # 0 => st.mnt = 0 /\ task_lookup_fd(c.fd).fs = "rootfs")

\* A process makes a call.
Call ==
  /\ st.at \in {"idle", "done"} /\ st.n < MaxCalls /\ ~st.mixed
  /\ \E c \in Calls :
       /\ Sensible(c)
       /\ st' = [st EXCEPT !.at = "call", !.n = @ + 1, !.c = c, !.off = 0, !.got = <<>>, !.seen = <<>>,
                           !.left = CASE c.op = "file_write" -> Len(c.bytes)
                                      [] c.op \in {"file_read", "symlink_read"} -> c.count
                                      [] OTHER -> 0,
                           !.was = [fds |-> st.fds, nodes |-> st.nodes, mnt |-> st.mnt, cwd |-> st.cwd]]
  /\ UNCHANGED buf

\* Its stub sends a request.
Request ==
  /\ st.at = "call"
  /\ Send("client", "server", Pack(buf.client, Stub(st.c).items))
  /\ st' = [st EXCEPT !.at = "server", !.port = Stub(st.c).port]

\* A thread of the system process has a handler for the port, or exits; the
\* client finds its own request in its buffer.  The table of handlers is not
\* cleared when it is made, so that another word may be taken for a handler.
libc_dispatch ==
  /\ st.at = "server" /\ ~find_handler(st.port)
  /\ st' \in {[st EXCEPT !.at = "client"], [st EXCEPT !.at = "dead"]}
  /\ UNCHANGED buf

\* What r says to do next; s is the state besides.
Proceed(r, s) ==
  /\ st' = [s EXCEPT !.at = CASE r.do = "ask" -> "fs" [] r.do \in {"say", "relay"} -> "client"
                              [] r.do \in {"walk", "dead"} -> r.do,
                     !.fs = r.fs, !.k = r.k, !.fd = r.fd]
  /\ CASE r.do = "ask" -> Send("server", "fs", Pack(buf.server, r.items))
       [] r.do = "say" -> Send("server", "client", Pack(buf.server, r.items))
       [] r.do = "relay" -> Send("server", "client",
                                 IF st.port = "task_get" THEN task_api_get_attri(buf.server) ELSE buf.server)
       [] r.do \in {"walk", "dead"} -> UNCHANGED buf

Outcomes(port) ==
  IF port \in init_task_api \cup {"mount"} THEN [err : {0, -1}, val : {7, -1}] ELSE {Default}

Handle ==
  /\ st.at = "server" /\ find_handler(st.port)
  /\ \E res \in Outcomes(st.port) :
       LET r == Handler(buf.server, res)
       IN Proceed(r, [st EXCEPT !.segs = r.segs, !.all = r.segs, !.goal = r.k, !.res = res,
                                !.vent = [fs |-> "rootfs", id |-> 1],
                                !.seen = @ \o TaskArgs(buf.server)])

\* A name leads to a node, or to the root of what is mounted on it.
Over(v) == IF st.mnt # 0 /\ v = [fs |-> "rootfs", id |-> st.mnt] THEN [fs |-> "devfs", id |-> 1] ELSE v

\* The name is in the cache (Vfs), or the file system is asked.
LookupCached ==
  /\ st.at = "walk" /\ st.segs # <<>>
  /\ \E i \in DOMAIN st.nodes[st.vent.fs] :
       /\ st.nodes[st.vent.fs][i].dir = st.vent.id /\ st.nodes[st.vent.fs][i].name = Head(st.segs)
       /\ st' = [st EXCEPT !.vent = Over([fs |-> st.vent.fs, id |-> i]), !.segs = Tail(@)]
  /\ UNCHANGED buf

lookup_ipc ==
  /\ st.at = "walk" /\ st.segs # <<>>
  /\ Proceed(Ask(st.vent.fs, <<Param("lookup"), Param(st.vent.id), StrN(Head(st.segs), Len(Head(st.segs)))>>,
                 "lookup"), st)

\* The end of vfs_acquire.  vfs_api_acquire answers a failure, goes on and
\* answers again.
WalkFails ==
  Proceed(_err_response(-1), [st EXCEPT !.late = IF st.goal = "acquire" THEN @ \cup {[call |-> st.n, fd |-> Null]} ELSE @])
WalkEnds ==
  IF st.goal = "acquire"
  THEN Proceed(Say(<<Num(0), Num(task_alloc_fd)>>), [st EXCEPT !.fds = WithFd(task_alloc_fd, st.vent)])
  ELSE Proceed(Say(<<Num(0)>>), [st EXCEPT !.cwd = Join(st.all)])

\* The node has been acquired by another name or process, or it is acquired.
AcquireCached == st.at = "walk" /\ st.segs = <<>> /\ WalkEnds
acquire_ipc ==
  /\ st.at = "walk" /\ st.segs = <<>>
  /\ \A i \in DOMAIN st.fds : st.fds[i].vent # st.vent
  /\ Proceed(Ask(st.vent.fs, <<Param("acquire"), Param(st.vent.id)>>, "acquired"), st)

\* The file system has answered.
Back ==
  LET m == buf.server
      err == msg_get_int(m, 0)
  IN
  /\ st.at = "back"
  /\ CASE st.k = "zero" -> Proceed(Say(<<Num(0)>>), st)
       [] st.k = "relay" -> Proceed(Relay, st)
       [] st.k = "wrote" -> Proceed(Say(IF err # 0 THEN <<Num(err)>> ELSE <<Num(0), Param(msg_get_param(m, 1))>>), st)
       [] st.k = "mounted" -> Proceed(Relay, [st EXCEPT !.mnt = st.fd])
       [] st.k = "released" -> Proceed(Say(<<Num(0)>>), [st EXCEPT !.fds[st.fd] = [use |-> FALSE, vent |-> NoVent]])
       [] st.k \in {"lookup", "acquired"} /\ err # 0 -> WalkFails
       [] st.k = "lookup" /\ err = 0 ->
            /\ st' = [st EXCEPT !.at = "walk", !.segs = Tail(@),
                                !.vent = Over([fs |-> st.fs, id |-> msg_get_param(m, 1)])]
            /\ UNCHANGED buf
       [] st.k = "acquired" /\ err = 0 -> WalkEnds

-----------------------------------------------------------------------------
\* The file system and the driver.

OnDevice(m) ==
  /\ st.fs = "devfs" /\ msg_get_param(m, 0) \in {"file_read", "file_write"}
  /\ Type(st.nodes.devfs, Id(m)) = "dev"

FsDispatch ==
  LET m == buf.fs
      op == msg_get_param(m, 0)
      f == st.nodes[st.fs]
  IN
  /\ st.at = "fs" /\ ~OnDevice(m)
  /\ CASE op = "file_read" ->
            Send("fs", "server", dispatch_file_read(m, f)) /\ st' = [st EXCEPT !.at = "back"]
       [] op = "file_write" ->
            Send("fs", "server", dispatch_file_write(m, st.fs)) /\ st' = [st EXCEPT !.at = "back"]
       [] op \notin {"file_read", "file_write"} ->
            LET d == dispatch(m, f) IN
            /\ Send("fs", "server", Pack(m, d.items))
            /\ st' = [st EXCEPT !.at = "back", !.nodes[st.fs] = d.f,
                                !.seen = IF op \in {"lookup", "acquire", "mount"} THEN @
                                         ELSE Append(@, <<op, st.fs>> \o d.args)]

\* The worker of devfs sends a request of its own.
devfs_read(m) == [opcode |-> st.nodes.devfs[Id(m)].opcode, fs |-> ReadBuffer(m, msg_get_param(m, 2)),
                  count |-> ReadSize(m), data |-> <<>>]
devfs_write(m) == [opcode |-> st.nodes.devfs[Id(m)].opcode, fs |-> m, count |-> msg_get_param(m, 2),
                   data |-> <<Data(Bytes(m, msg_get_data(m, 4), msg_get_param(m, 2)), msg_get_param(m, 2))>>]
AskDriver ==
  LET m == buf.fs
      op == msg_get_param(m, 0)
      io == IF op = "file_read" THEN devfs_read(m) ELSE devfs_write(m)
      w == Pack(buf.worker, <<Param(op), Param("devid"), Param(io.count), Param(msg_get_param(m, 3))>> \o io.data)
  IN
  /\ st.at = "fs" /\ OnDevice(m)
  /\ buf' = [buf EXCEPT !.fs = io.fs, !.worker = w, !.driver = copy_msg(@, w)]
  /\ st' = [st EXCEPT !.at = "driver", !.io = [op |-> op, opcode |-> io.opcode, count |-> io.count]]

drv_dispatch_file_read(m, opcode) ==
  ReadDone(ReadBuffer(m, msg_get_param(m, 2)), 0, drv_read(opcode, ReadSize(m)), 0)
drv_dispatch_file_write(m, opcode) ==
  Pack(m, <<Num(0), Param(drv_write(opcode, msg_get_param(m, 2)))>>)

Driver ==
  LET m == buf.driver IN
  /\ st.at = "driver"
  /\ IF msg_get_param(m, 0) = "file_read"
     THEN /\ Send("driver", "worker", drv_dispatch_file_read(m, st.io.opcode))
          /\ st' = [st EXCEPT !.at = "worker"]
     ELSE LET taken == drv_write(st.io.opcode, msg_get_param(m, 2)) IN
          /\ Send("driver", "worker", drv_dispatch_file_write(m, st.io.opcode))
          /\ st' = [st EXCEPT !.at = "worker",
                              !.seen = IF taken = 0 THEN @
                                       ELSE Append(@, <<st.io.opcode, msg_get_param(m, 3),
                                                        Bytes(m, msg_get_data(m, 4), taken)>>)]

\* The worker hands the answer over, and the file system answers.
devfs_read_worker(m) == ReadDone(buf.fs, 0, Bytes(m, msg_get_data(m, 3), msg_get_param(m, 1)), 0)
devfs_write_worker(m) == Pack(buf.fs, <<Num(0), Param(msg_get_param(m, 1))>>)
Worker ==
  LET m == buf.worker IN
  /\ st.at = "worker"
  /\ IF msg_get_int(m, 0) # 0 \/ msg_get_param(m, 1) > st.io.count
     THEN st' = [st EXCEPT !.at = "dead"] /\ UNCHANGED buf
     ELSE /\ Send("fs", "server", IF st.io.op = "file_read" THEN devfs_read_worker(m) ELSE devfs_write_worker(m))
          /\ st' = [st EXCEPT !.at = "back"]

-----------------------------------------------------------------------------
\* The client reads the answer; reads and writes may ask for the rest.
Return ==
  LET m == buf.client
      err == msg_get_int(m, 0)
      ans == Answer(st.c, m)
      many == st.c.op \in {"file_read", "file_write", "symlink_read"}
      n == IF st.c.op = "file_write" THEN ans ELSE Len(ans.bytes)
      rest == st.c.op = "file_write" \/ ans.more # 0
  IN
  /\ st.at = "client"
  /\ st' = IF err = Panicked THEN [st EXCEPT !.at = "dead"]
           ELSE IF err # 0 THEN [st EXCEPT !.at = "done", !.ret = [err |-> err, val |-> 0]]
           ELSE IF ans = Panicked THEN [st EXCEPT !.at = "dead"]
           ELSE IF ~many THEN [st EXCEPT !.at = "done", !.ret = [err |-> 0, val |-> ans]]
           ELSE IF n > st.left THEN [st EXCEPT !.at = "dead"]
           ELSE [st EXCEPT !.at = IF n < st.left /\ rest /\ ~st.mixed THEN "call" ELSE "done",
                           !.left = @ - n, !.off = @ + n,
                           !.got = IF st.c.op = "file_write" THEN @ ELSE @ \o ans.bytes,
                           !.ret = [err |-> 0, val |-> st.off + n]]
  /\ UNCHANGED buf

\* The rest of vfs_api_acquire after a failure: a descriptor of nothing is
\* made and sent.  The kernel gives it to the client if it waits for any
\* answer; what the client does after that is not modelled.
LateAlloc ==
  /\ \E l \in st.late :
       /\ l.fd = Null
       /\ st' = [st EXCEPT !.fds = WithFd(task_alloc_fd, NoVent),
                           !.late = (@ \ {l}) \cup {[l EXCEPT !.fd = task_alloc_fd]}]
  /\ UNCHANGED buf

Waiting == st.at \in {"server", "walk", "fs", "driver", "worker", "back"}
LateRespond ==
  \E l \in st.late :
    /\ l.fd # Null
    /\ IF Waiting
       THEN /\ st' = [st EXCEPT !.late = @ \ {l}, !.mixed = TRUE, !.at = "client"]
            /\ buf' = [buf EXCEPT !.client = copy_msg(@, Pack(get_msg, <<Num(0), Num(l.fd)>>))]
       ELSE st' = [st EXCEPT !.late = @ \ {l}] /\ UNCHANGED buf

ApiNext ==
  Call \/ Request \/ libc_dispatch \/ Handle \/ LookupCached \/ lookup_ipc \/ AcquireCached \/ acquire_ipc
  \/ Back \/ FsDispatch \/ AskDriver \/ Driver \/ Worker \/ Return \/ LateAlloc \/ LateRespond

ApiSpec == ApiInit /\ [][ApiNext]_apiVars

-----------------------------------------------------------------------------
\* What the calls promise.

Open(fds) == {<<i, fds[i].vent>> : i \in {j \in DOMAIN fds : fds[j].vent.id # 0}}

\* The names that lead to each node, found from the node up.  Nothing leads
\* to what is under a mount.
NamesUp(f, hidden) ==
  LET up[i \in DOMAIN f] == IF i = hidden THEN << <<"hidden">> >>
                            ELSE IF f[i].dir = 0 THEN <<>> ELSE Append(up[f[i].dir], f[i].name)
  IN up
Reached(w, segs) ==
  {[fs |-> "rootfs", id |-> i] : i \in {j \in DOMAIN w.nodes.rootfs : NamesUp(w.nodes.rootfs, w.mnt)[j] = segs}}
  \cup (IF w.mnt = 0 THEN {}
        ELSE {[fs |-> "devfs", id |-> i] :
                i \in {j \in DOMAIN w.nodes.devfs :
                         NamesUp(w.nodes.rootfs, 0)[w.mnt] \o NamesUp(w.nodes.devfs, 0)[j] = segs}})

\* What was written to the UART, piece by piece.
Written(seen) == FoldLeft(LAMBDA s, x : s \o x[3], <<>>, seen)

\* The calls that name no descriptor, or may name none.
NoFd == {"acquire", "mount", "task_create", "exit", "detach", "wait", "chdir", "getcwd"}
BadFd(c, w) == c.op \notin NoFd /\ ~\E o \in Open(w.fds) : o[1] = c.fd

Returned(c, w) ==
  LET v == IF BadFd(c, w) \/ c.op \in NoFd THEN NoVent ELSE w.fds[c.fd].vent
      f == st.nodes[v.fs]
      was == w.nodes[v.fs]
      Called(op, args) == st.seen = << <<op, v.fs, v.id>> \o args >>
      goal == Reached(w, Segments(IF c.path[1] = "/" THEN c.path ELSE w.cwd \o <<"/">> \o c.path))
      ok == st.ret.err = 0
      now == st.ret.val
  IN
  CASE c.op = "acquire" ->
         /\ ok <=> goal # {}
         /\ ok /\ now # -1 => \E g \in goal : Open(st.fds) = Open(w.fds) \cup {<<now, g>>}
         /\ ok /\ now # -1 => ~\E o \in Open(w.fds) : o[1] = now
         /\ ok /\ now = -1 => \A i \in DOMAIN st.fds : st.fds[i].use
    [] c.op = "release" ->
         IF BadFd(c, w) THEN ~ok
         ELSE ok /\ Called("release", <<>>) /\ Open(st.fds) = Open(w.fds) \ {<<c.fd, v>>}
    [] c.op = "dev_create" ->
         IF v.fs = "rootfs" THEN ~ok
         ELSE /\ ok /\ Called("dev_create", <<c.name, c.mode, c.pid, c.opcode>>)
              /\ f = IF was[v.id].type # "dir" THEN was
                     ELSE Append(was, [dir |-> 1, name |-> c.name, type |-> "dev", opcode |-> c.opcode, data |-> <<>>])
    [] c.op = "pipe_create" -> ok /\ Called("pipe_create", <<c.name, c.mode>>)
    [] c.op = "file_open" -> ok /\ Called("file_open", <<c.flags, c.mode>>)
    [] c.op = "dir_open" -> ok /\ Called("dir_open", <<c.flags>>)
    [] c.op = "file_read" ->
         LET node == was[v.id] IN
         (CASE node.type = "file" -> ok /\ st.got = SubSeq(node.data, 1, Lesser(c.count, Len(node.data)))
            [] node.type = "dev" -> ok /\ st.got = drv_read(node.opcode, Lesser(c.count, Room(get_empty_msg(get_msg))))
            [] node.type = "dir" -> ~ok)
    [] c.op = "file_write" ->
         IF was[v.id].type = "dev" THEN ok /\ now = Len(c.bytes) /\ Written(st.seen) = c.bytes ELSE ~ok
    [] c.op \in {"dir_create", "dir_remove", "symlink_read"} -> st.seen = <<>>
    [] c.op = "mount" ->
         IF ok /\ c.fd # 0 THEN w.mnt = 0 /\ <<c.fd, [fs |-> "rootfs", id |-> st.mnt]>> \in Open(w.fds)
         ELSE st.mnt = w.mnt
    [] c.op = "task_create" -> ok /\ now = st.res.val /\ st.seen[1][2] = c.type /\ Len(st.seen[1][3]) = Len(c.argv)
    [] c.op \in {"exit", "detach"} -> st.ret.err = st.res.err /\ st.seen = << <<c.op, c.status>> >>
    [] c.op = "wait" -> st.seen = << <<"wait", c.pid>> >> /\ st.ret.err = st.res.err /\ (ok => now = st.res.val)
    [] c.op = "chdir" ->
         /\ ok <=> goal # {}
         /\ IF ok THEN Reached(w, Segments(st.cwd)) = goal ELSE st.cwd = w.cwd
    [] c.op = "getcwd" -> IF ok THEN now = w.cwd ELSE Len(w.cwd) >= Room(get_empty_msg(get_msg))

\* No getter of libsys/ipc.c meets a parameter that is not there or of the
\* other kind, and no reply says more than was asked: a thread fails only on
\* a descriptor that is not open, or for want of a handler.
AnswerFits ==
  st.at = "dead" => BadFd(st.c, st.was) \/ st.c.op \in {"dir_create", "dir_remove", "symlink_read"}

=============================================================================
