------------------------------ MODULE OpenFiles ------------------------------
(***************************************************************************)
(* Open files, from the system calls down to the nodes of a file system:   *)
(* kernel/kernel/syscall/file.c, the descriptors of kernel/kernel/proc.c,  *)
(* the file objects of kernel/kernel/vfs/file.c and file_ops.c, and the    *)
(* node cache of kernel/kernel/fs/fat_vfs.c.                               *)
(*                                                                         *)
(* A file object is shared by the descriptors that open, dup and fork made *)
(* and by the calls in progress; a node is shared by the file objects.     *)
(* Each critical section is a step: descriptors under the mutex of their   *)
(* process, ref and offset of a file under the mutex of its node, the      *)
(* nodes under the mutex of the file system.  What a node holds is in      *)
(* FatFs; writing to a FAT node is not implemented in the code.            *)
(***************************************************************************)
EXTENDS Integers, Sequences, FiniteSets, Functions

CONSTANTS
  UserThreads, ProcOf,   \* the threads and their processes (the code runs one in each)
  MainProc,              \* the process that runs first; fork makes the others
  Fds,                   \* 0..PROC_MAX_FILES-1
  Clusters, Size,        \* the files, by their first cluster, and their sizes
  FileObjects,           \* addresses kualloc may return
  Buffer,                \* SYSCALL_FILE_BUFFER
  Threshold,             \* FAT_VFS_TRUNCATE_THRESHOLD
  MaxCount, MaxOffset,   \* bounds: bytes of one call, offsets
  MaxHit                 \* bound: how often a node is looked up

ASSUME OpenFilesAssumption ==
  /\ Fds \subseteq Nat /\ {Buffer, Threshold, MaxCount, MaxOffset} \subseteq Nat
  /\ Buffer > 0 /\ ProcOf \in [UserThreads -> {ProcOf[t] : t \in UserThreads}]
  /\ Size \in [Clusters -> Nat]
  /\ IsFiniteSet(UserThreads) /\ IsFiniteSet(Fds)
  /\ 0 \notin FileObjects /\ \E t \in UserThreads : MainProc = ProcOf[t]

VARIABLES
  fdTable,      \* opened_files of each process
  forked,       \* the processes there are
  files,        \* the live file objects: node, ref and offset
  nodeList,     \* the first clusters of the cached nodes, newest first
  nodes,        \* ref and hit of each cached node
  call          \* the system call each thread is in

fileVars == <<fdTable, forked, files, nodeList, nodes, call>>

UserProcs == {ProcOf[t] : t \in UserThreads}
NULLFILE == 0
InCall(at, f, c, n) == [at |-> at, file |-> f, node |-> c, count |-> n]
Idle == InCall("user", NULLFILE, 0, 0)
Uncached == [ref |-> 0, hit |-> 0]

OpenFilesInit ==
  /\ fdTable = [p \in UserProcs |-> [fd \in Fds |-> NULLFILE]]
  /\ forked = {MainProc}
  /\ files = [f \in {} |-> 0]
  /\ nodeList = <<>> /\ nodes = [c \in Clusters |-> Uncached]
  /\ call = [t \in UserThreads |-> Idle]

InUser(t) == call[t] = Idle /\ ProcOf[t] \in forked
Bound(f) == {d \in UserProcs \X Fds : fdTable[d[1]][d[2]] = f}
Members(s) == {s[i] : i \in DOMAIN s}
DropAt(s, i) == SubSeq(s, 1, i - 1) \o SubSeq(s, i + 1, Len(s))
Lowest(S) == CHOOSE x \in S : \A y \in S : x <= y
GoTo(t, at) == call' = [call EXCEPT ![t].at = at]

proc_get_file(p, fd) == fdTable[p][fd]
VacantFds(p) == {fd \in Fds : fdTable[p][fd] = NULLFILE}   \* proc_get_vacant_fd
proc_bind(p, fd, f) == fdTable' = [fdTable EXCEPT ![p][fd] = f]
proc_unbind(p, fd) == fdTable' = [fdTable EXCEPT ![p][fd] = NULLFILE]

-----------------------------------------------------------------------------
\* open: vfs_get, then vfs_open's file object, then a descriptor.

unsafe_fat_get(c) == c \in Members(nodeList)

\* safe_get_with_fat_result for the file the path leads to.
GetNode(t, c) ==
  /\ InUser(t) /\ nodes[c].hit < MaxHit
  /\ nodeList' = IF unsafe_fat_get(c) THEN nodeList ELSE <<c>> \o nodeList
  /\ nodes' = [nodes EXCEPT ![c] = [ref |-> @.ref + 1, hit |-> @.hit + 1]]
  /\ call' = [call EXCEPT ![t] = InCall("open", NULLFILE, c, 0)]
  /\ UNCHANGED <<fdTable, forked, files>>

vfs_open(t) ==
  /\ call[t].at = "open"
  /\ \E f \in FileObjects \ DOMAIN files :
       /\ files' = [g \in DOMAIN files \cup {f} |->
            IF g = f THEN [node |-> call[t].node, ref |-> 1, offset |-> 0] ELSE files[g]]
       /\ call' = [call EXCEPT ![t] = InCall("bind", f, 0, 0)]
  /\ UNCHANGED <<fdTable, forked, nodeList, nodes>>

\* A descriptor for the file; vfs_close when all are taken.
BindFd(t) ==
  LET p == ProcOf[t] IN
  /\ call[t].at = "bind"
  /\ IF VacantFds(p) = {} THEN GoTo(t, "unref") /\ UNCHANGED fdTable
     ELSE /\ proc_bind(p, Lowest(VacantFds(p)), call[t].file)
          /\ call' = [call EXCEPT ![t] = Idle]
  /\ UNCHANGED <<forked, files, nodeList, nodes>>

\* syscall_close: vfs_close follows.
Unbind(t, fd) ==
  LET f == proc_get_file(ProcOf[t], fd) IN
  /\ InUser(t) /\ f # NULLFILE
  /\ proc_unbind(ProcOf[t], fd)
  /\ call' = [call EXCEPT ![t] = InCall("unref", f, 0, 0)]
  /\ UNCHANGED <<forked, files, nodeList, nodes>>

-----------------------------------------------------------------------------
\* read, write and lseek: the file is kept by a reference of the call's own.

\* Mutation: the call uses the descriptor's reference.
UseUnreferenced(t, fd, at, n) ==
  LET f == fdTable[ProcOf[t]][fd] IN
  /\ InUser(t) /\ f # NULLFILE
  /\ call' = [call EXCEPT ![t] = InCall(at, f, 0, n)]
  /\ UNCHANGED <<fdTable, forked, files, nodeList, nodes>>

vfs_file_dup(f) == files' = [files EXCEPT ![f].ref = @ + 1]

\* The file of the descriptor is found and referenced with the process locked.
UseFile(t, fd, at, n) ==
  LET f == proc_get_file(ProcOf[t], fd) IN
  /\ InUser(t) /\ f # NULLFILE
  /\ vfs_file_dup(f)
  /\ call' = [call EXCEPT ![t] = InCall(at, f, 0, n)]
  /\ UNCHANGED <<fdTable, forked, nodeList, nodes>>

Batch(n) == IF n \div Buffer > 0 THEN Buffer ELSE n % Buffer

fat_vfs_node_read(c, off, n) ==
  IF Size[c] <= off THEN 0 ELSE IF Size[c] < off + n THEN Size[c] - off ELSE n

\* vfs_file_read.
NumRead(f, n) ==
  IF f.offset >= Size[f.node] THEN 0 ELSE fat_vfs_node_read(f.node, f.offset, n)

\* One batch of syscall_read; a short count of 0 ends the call.
ReadBatch(t) ==
  LET f == call[t].file
      n == NumRead(files[f], Batch(call[t].count)) IN
  /\ call[t].at = "read" /\ call[t].count > 0
  /\ files' = [files EXCEPT ![f].offset = @ + n]
  /\ call' = [call EXCEPT ![t] = InCall(IF n = 0 THEN "unref" ELSE "read", f, 0, @.count - n)]
  /\ UNCHANGED <<fdTable, forked, nodeList, nodes>>

ReadDone(t) ==
  /\ call[t].at = "read" /\ call[t].count = 0
  /\ GoTo(t, "unref")
  /\ UNCHANGED <<fdTable, forked, files, nodeList, nodes>>

vfs_file_seek(f, offset, whence) ==
  CASE whence = "set" -> offset
    [] whence = "cur" -> f.offset + offset
    [] whence = "end" -> Size[f.node] + offset

Seek(t, whence, offset) ==
  LET f == call[t].file
      cur == vfs_file_seek(files[f], offset, whence) IN
  /\ call[t].at = "seek" /\ cur \in 0..MaxOffset
  /\ files' = [files EXCEPT ![f].offset = cur]
  /\ GoTo(t, "unref")
  /\ UNCHANGED <<fdTable, forked, nodeList, nodes>>

-----------------------------------------------------------------------------
\* vfs_close: the reference, and with the last one the file and its node.

Unref(t) ==
  LET f == call[t].file IN
  /\ call[t].at = "unref"
  /\ files' = [files EXCEPT ![f].ref = @ - 1]
  /\ call' = IF files[f].ref = 1 THEN [call EXCEPT ![t].at = "put"] ELSE [call EXCEPT ![t] = Idle]
  /\ UNCHANGED <<fdTable, forked, nodeList, nodes>>

\* unsafe_truncate: with too many nodes, the unreferenced one with the fewest
\* hits goes, the newest of several.
Victims(ns) == {i \in DOMAIN nodeList : ns[nodeList[i]].ref = 0}
TruncateIndex(ns) ==
  Lowest({i \in Victims(ns) : \A j \in Victims(ns) : ns[nodeList[i]].hit <= ns[nodeList[j]].hit})

unsafe_truncate(ns) ==
  IF Len(nodeList) <= Threshold \/ Victims(ns) = {} THEN nodeList' = nodeList /\ nodes' = ns
  ELSE /\ nodes' = [ns EXCEPT ![nodeList[TruncateIndex(ns)]] = Uncached]
       /\ nodeList' = DropAt(nodeList, TruncateIndex(ns))

\* vfs_put (fat_vfs_put) and kfree(f).
PutNode(t) ==
  LET f == call[t].file IN
  /\ call[t].at = "put"
  /\ unsafe_truncate([nodes EXCEPT ![files[f].node].ref = @ - 1])
  /\ files' = [g \in DOMAIN files \ {f} |-> files[g]]
  /\ call' = [call EXCEPT ![t] = Idle]
  /\ UNCHANGED <<fdTable, forked>>

\* proc_fork duplicates the descriptors, each with vfs_file_dup.  The parent is
\* locked and the child does not run before the last, so they are one step.
ForkFiles(t, q) ==
  LET p == ProcOf[t] IN
  /\ InUser(t) /\ q \notin forked
  /\ forked' = forked \cup {q}
  /\ fdTable' = [fdTable EXCEPT ![q] = fdTable[p]]
  /\ files' = [f \in DOMAIN files |->
       [files[f] EXCEPT !.ref = @ + Cardinality({fd \in Fds : fdTable[p][fd] = f})]]
  /\ UNCHANGED <<nodeList, nodes, call>>

OpenFilesNext ==
  \E t \in UserThreads :
    \/ \E c \in Clusters : GetNode(t, c)
    \/ vfs_open(t) \/ BindFd(t)
    \/ \E fd \in Fds : Unbind(t, fd)
    \/ \E fd \in Fds, n \in 1..MaxCount : UseFile(t, fd, "read", n)
    \/ \E fd \in Fds : UseFile(t, fd, "seek", 0)
    \/ ReadBatch(t) \/ ReadDone(t)
    \/ \E whence \in {"set", "cur", "end"}, offset \in -1..1 : Seek(t, whence, offset)
    \/ Unref(t) \/ PutNode(t)
    \/ \E q \in UserProcs : ForkFiles(t, q)

OpenFilesSpec == OpenFilesInit /\ [][OpenFilesNext]_fileVars

-----------------------------------------------------------------------------

Uses(f) == {t \in UserThreads : call[t].file = f /\ call[t].at \in {"bind", "read", "seek", "unref"}}

(* "This way we will be sure we don't read from a closed file, but won't    *)
(* have to hold the process lock" (syscall_read): a file object lives as    *)
(* long as a descriptor or a call refers to it, and its count is the number *)
(* of them, whoever opens, closes, reads and forks in between.              *)
FileRefsExact ==
  /\ \A f \in DOMAIN files :
       files[f].ref = Cardinality(Bound(f)) + Cardinality(Uses(f))
  /\ \A p \in UserProcs, fd \in Fds : fdTable[p][fd] \in DOMAIN files \cup {NULLFILE}
  /\ \A t \in UserThreads : call[t].file \in DOMAIN files \cup {NULLFILE}
  /\ \A f \in DOMAIN files : files[f].ref = 0 =>
       Cardinality({t \in UserThreads : call[t].at = "put" /\ call[t].file = f}) = 1

FilesOf(c) == {f \in DOMAIN files : files[f].node = c}
Opens(c) == {t \in UserThreads : call[t].at = "open" /\ call[t].node = c}

(* A node that an open file or an open in progress uses is in the cache,    *)
(* once, and counts them: truncation takes no node that is in use, and two  *)
(* opens of a file share one node and so one lock.                          *)
NodeRefsExact ==
  /\ IsInjective(nodeList)
  /\ \A c \in Clusters :
       /\ nodes[c].ref = Cardinality(FilesOf(c)) + Cardinality(Opens(c))
       /\ nodes[c].ref > 0 => c \in Members(nodeList)

(* The two together: files and nodes live exactly as long as somebody has   *)
(* them.                                                                    *)
RefsExact == FileRefsExact /\ NodeRefsExact

==============================================================================
