------------------------------ MODULE FileSys ------------------------------
(***************************************************************************)
(* The file system calls (src/kernel/sysfile.c), the file table            *)
(* (src/fs/file.c) and the parts of fork, exit and the pipe code that      *)
(* count references, over the inode layer of module Inode.                 *)
(*                                                                         *)
(* Calls run one at a time: each action is a whole system call with its    *)
(* atomic operations, which the write-ahead log (module Log) makes atomic. *)
(* A call that panics, fails an assertion or sleeps on a lock nobody will  *)
(* release ends the run with the reason in fs.bad.                         *)
(*                                                                         *)
(* User data is a tag of the inode and the offset it is written at, so     *)
(* that a datum found anywhere else is seen.                               *)
(***************************************************************************)
EXTENDS Inode

CONSTANTS
    Procs, InitProc, \* processes; the one that runs first
    Paths,           \* the paths that calls use
    ReadSizes,       \* the sizes of reads
    Buffers,         \* the buffers of writes, as sequences of sizes
    NodeTypes,       \* what mkdirat and mknodat make: "dir", "dev"
    OModes,          \* the open modes in use, of "r", "w" and "rw"
    NFile,           \* size of the file table (NFILE)
    OpenFile,        \* descriptors per process (OPENFILE)
    Pipes,           \* pipes that can exist at once (bound)
    MaxForks,        \* bound: forks of a run
    MaxMade,         \* bound: inodes created in a run
    None

ASSUME FileSysAssumption ==
    /\ InitProc \in Procs /\ IsFiniteSet(Procs) /\ None \notin Pipes
    /\ {NFile, OpenFile} \subseteq Nat \ {0} /\ OpMax > 5
    /\ \A path \in Paths : Len(path.elems) \in Nat
    /\ \A ns \in Buffers : ns \in Seq(Nat)

VARIABLES
    fs,       \* the state of module Inode
    ftable,   \* ftable.files
    ofiles,   \* oftable.files of every process: 0 or an index of ftable
    cwd,      \* the current directory: an inode number, 0 when the process is dead
    pipes,    \* pipe -> the ends that are open; {} when it is not allocated
    forks,    \* number of forks so far
    made,     \* number of inodes created so far
    counted,  \* the directory whose rc counts each process: its cwd at birth
    strayed,  \* a process exited elsewhere, or the cwd of one was unlinked
    orphans   \* files whose only reference a failed pipe2 dropped

vars == <<fs, ftable, ofiles, cwd, pipes, forks, made, counted, strayed, orphans>>

Files == 1..NFile
Fds == 0..(OpenFile - 1)
NoFile == [ref |-> 0, type |-> "none", ip |-> 0, pipe |-> None, off |-> 0,
           rd |-> FALSE, wr |-> FALSE]

-----------------------------------------------------------------------------
(* The root directory as mkfs leaves it, and the first process. *)

RootEntry == [FreeEntry EXCEPT !.type = "dir", !.links = 1, !.bytes = 2, !.addrs[0] = 1]
RootBlock == [ZeroBlock EXCEPT ![0] = [n |-> RootNo, t |-> "."], ![1] = [n |-> RootNo, t |-> ".."]]

\* After init_inodes (inodes.root) and the share of the first process's cwd.
Booted(ent, bm, data) ==
    [ent |-> ent, bm |-> bm, data |-> data, log |-> {}, ctx |-> FALSE,
     ret |-> 0, bad |-> "ok",
     ic |-> [i \in Inos |-> IF i = RootNo
                THEN [cached |-> TRUE, rc |-> 2, lock |-> 1, entry |-> ent[RootNo]]
                ELSE NoInode]]

InitProcs ==
    /\ ftable = [f \in Files |-> NoFile]
    /\ ofiles = [p \in Procs |-> [d \in Fds |-> 0]]
    /\ cwd = [p \in Procs |-> IF p = InitProc THEN RootNo ELSE 0]
    /\ pipes = [q \in Pipes |-> {}]
    /\ counted = cwd /\ orphans = {}

Init ==
    /\ fs = Booted([i \in Inos |-> IF i = RootNo THEN RootEntry ELSE FreeEntry], {1},
                   [b \in 0..NumBlocks |-> IF b = 1 THEN RootBlock ELSE ZeroBlock])
    /\ InitProcs
    /\ forks = 0 /\ made = 0 /\ strayed = FALSE

-----------------------------------------------------------------------------
(* Helpers of the calls. *)

Running(p) == cwd[p] # 0 /\ fs.bad = "ok"

BeginOp(s) == [s EXCEPT !.ctx = TRUE, !.log = {}]
EndOp(s) == [s EXCEPT !.ctx = FALSE, !.log = {}, !.ret = 0]

\* An atomic operation from s that ends in t; one that goes wrong leaves only
\* the reason.
Op(s, t) == IF t.bad = "ok" THEN EndOp(t) ELSE [s EXCEPT !.bad = t.bad]
Finish(t) == fs' = Op(fs, t)

\* fdalloc: the lowest free descriptor, or -1.
FdAlloc(table) == LET free == {d \in Fds : table[d] = 0} IN IF free = {} THEN -1 ELSE Min(free)
\* file_alloc: the first file with ref 0, or 0.
FileAlloc(ft) == LET free == {f \in Files : ft[f].ref = 0} IN IF free = {} THEN 0 ELSE Min(free)

\* Mutant of FileClose: the inode is put whenever a reference is dropped.
FileCloseEager(st, f) ==
    LET old == st.ft[f]
    IN  [st EXCEPT !.ft[f] = IF old.ref > 1 THEN [old EXCEPT !.ref = @ - 1] ELSE NoFile,
                   !.s = IF old.type = "inode" THEN Op(st.s, InodePut(BeginOp(st.s), old.ip)) ELSE st.s,
                   !.pp = IF old.ref = 1 /\ old.type = "pipe"
                          THEN [st.pp EXCEPT ![old.pipe] = @ \ {IF old.wr THEN "w" ELSE "r"}]
                          ELSE st.pp]

\* file_close on [s, ft, pp] (file system, file table, pipes): the last reference
\* closes the pipe end, and a pipe with no open end is freed, or puts the inode
\* in an atomic operation of its own.
FileClose(st, f) ==
    LET old == st.ft[f]
        last == old.ref = 1
    IN  [st EXCEPT !.ft[f] = IF last THEN NoFile ELSE [old EXCEPT !.ref = @ - 1],
                   !.s = IF last /\ old.type = "inode"
                         THEN Op(st.s, InodePut(BeginOp(st.s), old.ip)) ELSE st.s,
                   !.pp = IF last /\ old.type = "pipe"
                          THEN [st.pp EXCEPT ![old.pipe] = @ \ {IF old.wr THEN "w" ELSE "r"}]
                          ELSE st.pp]

\* The bound on created inodes.
Live(s) == {i \in Inos : s.ent[i].type # "invalid"}
Budget(s) ==
    /\ made' = made + Cardinality(Live(s) \ Live(fs))
    /\ made' <= MaxMade

\* isdirempty: nothing after "." and "..".
IsDirEmpty(s, i) == \A o \in 2..(s.ic[i].entry.bytes - 1) : DirEntry(s, i, o).n = 0

\* Mutant of CreateExisting: the error path forgets the lock and the reference.
CreateExistingKeep(s, dp, ip, type) ==
    Then(UnlockPut(InodeGet(s, ip), dp), LAMBDA t :
    Then(Lock(t, ip), LAMBDA u :
    Return(u, IF type = "file" /\ u.ic[ip].entry.type = "file" THEN ip ELSE 0)))

\* create on an existing inode: returned, locked, only for a regular file asked
\* for as one. The parent was looked up but never locked, and is unlocked all the
\* same.
CreateExisting(s, dp, ip, type) ==
    Then(UnlockPut(InodeGet(s, ip), dp), LAMBDA t :
    Then(Lock(t, ip), LAMBDA u :
    IF type = "file" /\ u.ic[ip].entry.type = "file" THEN Return(u, ip)
    ELSE Return(UnlockPut(u, ip), 0)))

\* Mutant of CreateNew: the new inode is not synced after its link count is set.
CreateNewUnsynced(s, dp, name, ip, type) ==
    Then(Lock(InodeGet(s, ip), ip), LAMBDA t :
    Then(Insert([t EXCEPT !.ic[ip].entry.links = 1], dp, name, ip), LAMBDA u :
    Return(UnlockPut(u, dp), ip)))

\* create of a new inode ip: its link count, for a directory the parent's and the
\* entries "." and "..", then the entry in the parent. Returned locked.
MakeDots(s, dp, ip) ==
    Then(InodeSync([s EXCEPT !.ic[dp].entry.links = @ + 1], dp), LAMBDA t :
    Then(Insert(t, ip, ".", ip), LAMBDA u :
    Insert(u, ip, "..", dp)))
CreateNew(s, dp, name, ip, type) ==
    Then(Lock(InodeGet(s, ip), ip), LAMBDA t :
    Then(InodeSync([t EXCEPT !.ic[ip].entry.links = 1], ip), LAMBDA u :
    Then(IF type = "dir" THEN MakeDots(u, dp, ip) ELSE u, LAMBDA v :
    Then(Insert(v, dp, name, ip), LAMBDA w :
    Return(UnlockPut(w, dp), ip)))))

Create(s, p, path, type) ==
    Then(Namex(s, cwd[p], path, TRUE), LAMBDA t :
    IF t.ret = 0 THEN t
    ELSE IF Matches(t, t.ret, Last(path.elems)) # {}
    THEN CreateExisting(t, t.ret, Lookup(t, t.ret, Last(path.elems)), type)
    ELSE Then(InodeAlloc(t, type), LAMBDA u :
         CreateNew(u, t.ret, Last(path.elems), u.ret, type)))

-----------------------------------------------------------------------------
(* Opening and closing. *)

\* openat: with O_CREAT the file is created, otherwise looked up and locked; the
\* inode is then put, or kept by the file, once it is unlocked.
OpenInode(s, p, path, create) ==
    IF create THEN Create(s, p, path, "file")
    ELSE Then(Namex(s, cwd[p], path, FALSE), LAMBDA t : IF t.ret = 0 THEN t ELSE Lock(t, t.ret))
OpenFits(p) == FileAlloc(ftable) # 0 /\ FdAlloc(ofiles[p]) >= 0
Openat(p, path, create, omode) ==
    LET s == OpenInode(BeginOp(fs), p, path, create)
        f == FileAlloc(ftable)
    IN  /\ Running(p)
        /\ Budget(s)
        /\ IF s.bad # "ok" \/ s.ret = 0
           THEN Finish(s) /\ UNCHANGED <<ftable, ofiles>>
           ELSE IF ~OpenFits(p)
           THEN Finish(UnlockPut(s, s.ret)) /\ UNCHANGED <<ftable, ofiles>>
           ELSE /\ Finish(Unlock(s, s.ret))
                /\ ofiles' = [ofiles EXCEPT ![p][FdAlloc(ofiles[p])] = f]
                /\ ftable' = [ftable EXCEPT ![f] =
                     [NoFile EXCEPT !.ref = 1, !.type = "inode", !.ip = s.ret,
                                    !.rd = omode # "w", !.wr = omode # "r"]]
        /\ UNCHANGED <<cwd, pipes, forks, counted, strayed, orphans>>

\* mkdirat and mknodat: create, unlock, put.
MakeNode(p, path, type) ==
    LET s == Create(BeginOp(fs), p, path, type)
    IN  /\ Running(p)
        /\ Budget(s)
        /\ Finish(Then(s, LAMBDA t : IF t.ret = 0 THEN t ELSE UnlockPut(t, t.ret)))
        /\ UNCHANGED <<ftable, ofiles, cwd, pipes, forks, counted, strayed, orphans>>

Close(p, d) ==
    LET c == FileClose([s |-> fs, ft |-> ftable, pp |-> pipes], ofiles[p][d])
    IN  /\ Running(p)
        /\ ofiles[p][d] # 0
        /\ ofiles' = [ofiles EXCEPT ![p][d] = 0]
        /\ fs' = c.s
        /\ ftable' = c.ft
        /\ pipes' = c.pp
        /\ UNCHANGED <<cwd, forks, made, counted, strayed, orphans>>

\* file_dup on the file table.
FileDup(ft, f) == IF ft[f].ref < 1 THEN ft ELSE [ft EXCEPT ![f].ref = @ + 1]

\* dup: a descriptor first, then the reference.
Dup(p, d) ==
    /\ Running(p)
    /\ ofiles[p][d] # 0
    /\ FdAlloc(ofiles[p]) >= 0
    /\ ofiles' = [ofiles EXCEPT ![p][FdAlloc(ofiles[p])] = ofiles[p][d]]
    /\ ftable' = FileDup(ftable, ofiles[p][d])
    /\ UNCHANGED <<fs, cwd, pipes, forks, made, counted, strayed, orphans>>

\* init_read_pipe and init_write_pipe.
PipeEnd(q, wr) ==
    [NoFile EXCEPT !.ref = 1, !.type = "pipe", !.pipe = q, !.rd = ~wr, !.wr = wr]

\* pipe_alloc: two files and a pipe, or none of them.
PipeAlloc(ft) ==
    LET r == FileAlloc(ft)
    IN  [r |-> r, w |-> IF r = 0 THEN 0 ELSE FileAlloc([ft EXCEPT ![r].ref = 1]),
         q |-> CHOOSE x \in Pipes : pipes[x] = {}]

\* pipe2: with pipe_alloc, two descriptors. When only one descriptor is left, the
\* end that got it is closed and the other is lost.
Pipe2(p) ==
    LET a == PipeAlloc(ftable)
        r == a.r
        w == a.w
        d0 == FdAlloc(ofiles[p])
        d1 == FdAlloc([ofiles[p] EXCEPT ![d0] = r])
        ft == [ftable EXCEPT ![r] = PipeEnd(a.q, FALSE), ![w] = PipeEnd(a.q, TRUE)]
        pp == [pipes EXCEPT ![a.q] = {"r", "w"}]
        c == FileClose([s |-> fs, ft |-> ft, pp |-> pp], r)
    IN  /\ Running(p)
        /\ \E x \in Pipes : pipes[x] = {}
        /\ r # 0 /\ w # 0
        /\ \/ /\ d0 >= 0 /\ d1 >= 0
              /\ ofiles' = [ofiles EXCEPT ![p][d0] = r, ![p][d1] = w]
              /\ ftable' = ft /\ pipes' = pp
              /\ UNCHANGED orphans
           \/ /\ d0 >= 0 /\ d1 < 0
              /\ ftable' = c.ft /\ pipes' = c.pp
              /\ orphans' = orphans \cup {w}
              /\ UNCHANGED ofiles
           \/ /\ d0 < 0
              /\ ftable' = ft /\ pipes' = pp
              /\ orphans' = orphans \cup {r, w}
              /\ UNCHANGED ofiles
        /\ UNCHANGED <<fs, cwd, forks, made, counted, strayed>>

-----------------------------------------------------------------------------
(* Reading and writing. *)

\* The data a process writes at offset o of inode i.
Datum(i, o) == [n |-> (MaxBytes + 1) * i + o, t |-> "none"]

\* A read or write of a device moves the offset by the number of bytes, which is
\* not counted beyond MaxBytes.
IsDev(s, i) == s.ic[i].entry.type = "dev"

\* file_read of an inode, under its lock: the offset moves by what was read.
FileRead(s, f, n) ==
    Then(Lock(s, f.ip), LAMBDA t :
    Then(IF IsDev(t, f.ip) THEN Return(t, Min({n, MaxBytes - f.off}))
         ELSE Then(InodeRead(t, f.ip, f.off, n), LAMBDA u : Return(u, Len(u.ret))), LAMBDA v :
    Unlock(v, f.ip)))

Read(p, d, n) ==
    LET f == ftable[ofiles[p][d]]
        s == FileRead(fs, f, n)
    IN  /\ Running(p)
        /\ ofiles[p][d] # 0 /\ f.type = "inode" /\ f.rd
        /\ Finish(s)
        /\ ftable' = [ftable EXCEPT ![ofiles[p][d]].off = IF s.bad # "ok" THEN @ ELSE @ + s.ret]
        /\ UNCHANGED <<ofiles, cwd, pipes, forks, made, counted, strayed, orphans>>

\* One atomic operation of file_write, at the file's offset; acc is [s, off].
WriteChunk(acc, ip, len) ==
    [s |-> Op(acc.s, Then(Lock(BeginOp(acc.s), ip), LAMBDA t :
                     Then(IF IsDev(t, ip) THEN t
                          ELSE InodeWrite(t, ip, acc.off, [k \in 1..len |-> Datum(ip, acc.off + k - 1)]),
                          LAMBDA u : Unlock(u, ip)))),
     off |-> IF IsDev(acc.s, ip) THEN Min({acc.off + len, MaxBytes}) ELSE acc.off + len]

MaxChunk == ((OpMax - 4) \div 2) * BlockSize

\* file_write of an inode: as many atomic operations as it takes, none after one
\* that failed; w[k] is acc after k of them.
NextChunk(acc, ip, len) == IF acc.s.bad # "ok" THEN acc ELSE WriteChunk(acc, ip, len)
FileWriteLoop(acc, ip, n, m) ==
    LET w[k \in 0..m] ==
          IF k = 0 THEN acc
          ELSE NextChunk(w[k - 1], ip, Min({MaxChunk, n - (k - 1) * MaxChunk}))
    IN  w
FileWrite(acc, ip, n) ==
    LET m == (n + MaxChunk - 1) \div MaxChunk IN FileWriteLoop(acc, ip, n, m)[m]

\* write, and writev with one file_write per buffer. Bound
\* on the inputs: nobody writes through a descriptor of a directory.
WriteBuffers(acc, ip, ns) ==
    LET w[k \in 0..Len(ns)] == IF k = 0 THEN acc ELSE FileWrite(w[k - 1], ip, ns[k]) IN w
Write(p, d, ns) ==
    LET f == ftable[ofiles[p][d]]
        w == WriteBuffers([s |-> fs, off |-> f.off], f.ip, ns)[Len(ns)]
    IN  /\ Running(p)
        /\ ofiles[p][d] # 0 /\ f.type = "inode" /\ f.wr
        /\ fs.ic[f.ip].entry.type # "dir"
        /\ fs' = w.s
        /\ ftable' = IF w.s.bad = "ok" THEN [ftable EXCEPT ![ofiles[p][d]].off = w.off] ELSE ftable
        /\ UNCHANGED <<ofiles, cwd, pipes, forks, made, counted, strayed, orphans>>

\* stati panics on an inode without a type.
Stati(s, i) == IF s.ic[i].entry.type = "invalid" THEN Fail(s, "stat") ELSE s

\* file_stat, and the same in newfstatat.
FileStat(s, i) ==
    Then(Lock(s, i), LAMBDA t : Then(Stati(t, i), LAMBDA u : Unlock(u, i)))

Fstat(p, d) ==
    /\ Running(p)
    /\ ofiles[p][d] # 0 /\ ftable[ofiles[p][d]].type = "inode"
    /\ Finish(FileStat(fs, ftable[ofiles[p][d]].ip))
    /\ UNCHANGED <<ftable, ofiles, cwd, pipes, forks, made, counted, strayed, orphans>>

Newfstatat(p, path) ==
    /\ Running(p)
    /\ Finish(Then(Namex(BeginOp(fs), cwd[p], path, FALSE), LAMBDA t :
              IF t.ret = 0 THEN t
              ELSE Then(FileStat(t, t.ret), LAMBDA u : InodePut(u, u.ret))))
    /\ UNCHANGED <<ftable, ofiles, cwd, pipes, forks, made, counted, strayed, orphans>>

-----------------------------------------------------------------------------
(* Directories and processes. *)

\* unlinkat of the entry at offset o of dp, which names ip, both locked: a
\* directory must be empty; the entry is cleared, the link counts go down.
UnlinkEntry(s, dp, ip, o) ==
    Then(InodeWrite(s, dp, o, <<Zero>>), LAMBDA t :
    Then(IF t.ic[ip].entry.type = "dir"
         THEN InodeSync([t EXCEPT !.ic[dp].entry.links = @ - 1], dp) ELSE t, LAMBDA u :
    Then(UnlockPut(u, dp), LAMBDA v :
    Then(InodeSync([v EXCEPT !.ic[ip].entry.links = @ - 1], ip), LAMBDA w :
    UnlockPut(w, ip)))))
UnlinkFound(s, dp, ip, o) ==
    Then(Lock(InodeGet(s, ip), ip), LAMBDA t :
    IF t.ic[ip].entry.links < 1 THEN Fail(t, "links")
    ELSE IF t.ic[ip].entry.type = "dir" /\ ~IsDirEmpty(t, ip)
    THEN Then(UnlockPut(t, ip), LAMBDA u : UnlockPut(u, dp))
    ELSE UnlinkEntry(t, dp, ip, o))
Unlink(s, dp, name) ==
    Then(Lock(s, dp), LAMBDA t :
    IF name \in {".", ".."} \/ Lookup(t, dp, name) = 0 THEN UnlockPut(t, dp)
    ELSE UnlinkFound(t, dp, Lookup(t, dp, name), Min(Matches(t, dp, name))))

Unlinkat(p, path) ==
    LET s == Then(Namex(BeginOp(fs), cwd[p], path, TRUE), LAMBDA t :
                  IF t.ret = 0 THEN t ELSE Unlink(t, t.ret, Last(path.elems)))
    IN  /\ Running(p)
        /\ Finish(s)
        /\ strayed' = (strayed \/ \E q \in Procs : cwd[q] # 0 /\ s.ent[cwd[q]].links = 0)
        /\ UNCHANGED <<ftable, ofiles, cwd, pipes, forks, made, counted, orphans>>

\* chdir: the new directory is put before it becomes cwd, the old one is not. It may
\* be freed and its number used again; cwd then stands for the new inode, the code's
\* pointer for a freed one (strayed).
Chdir(p, path) ==
    LET s == Then(Namex(BeginOp(fs), cwd[p], path, FALSE), LAMBDA t :
                  IF t.ret = 0 THEN t
                  ELSE Then(Lock(t, t.ret), LAMBDA u : UnlockPut(u, u.ret)))
    IN  /\ Running(p)
        /\ Finish(s)
        /\ cwd' = IF s.bad = "ok" /\ s.ret # 0 /\ s.ent[s.ret].type = "dir"
                  THEN [cwd EXCEPT ![p] = s.ret] ELSE cwd
        /\ UNCHANGED <<ftable, ofiles, pipes, forks, made, counted, strayed, orphans>>

\* The file side of fork: the cwd and every open file are shared.
Fork(p, c) ==
    LET s == InodeShare(fs, cwd[p])
    IN  /\ Running(p)
        /\ cwd[c] = 0
        /\ forks < MaxForks
        /\ forks' = forks + 1
        /\ Finish(s)
        /\ cwd' = [cwd EXCEPT ![c] = cwd[p]]
        /\ counted' = [counted EXCEPT ![c] = cwd[p]]
        /\ ofiles' = [ofiles EXCEPT ![c] = ofiles[p]]
        /\ ftable' = [f \in Files |-> [ftable[f] EXCEPT
                        !.ref = @ + Cardinality({d \in Fds : ofiles[p][d] = f})]]
        /\ UNCHANGED <<pipes, made, strayed, orphans>>

\* The file side of exit: every file is closed, then the cwd is put, outside any
\* atomic operation. The first process never exits.
CloseOpen(st, f) == IF f = 0 THEN st ELSE FileClose(st, f)
CloseLoop(st, table) ==
    LET c[k \in 0..OpenFile] ==
          IF k = 0 THEN st ELSE CloseOpen(c[k - 1], table[k - 1])
    IN  c
Exit(p) ==
    LET c == CloseLoop([s |-> fs, ft |-> ftable, pp |-> pipes], ofiles[p])[OpenFile]
    IN  /\ Running(p)
        /\ p # InitProc
        /\ fs' = IF c.s.bad = "ok" THEN Op(c.s, InodePut(c.s, cwd[p])) ELSE c.s
        /\ ftable' = c.ft
        /\ pipes' = c.pp
        /\ ofiles' = [ofiles EXCEPT ![p] = [d \in Fds |-> 0]]
        /\ cwd' = [cwd EXCEPT ![p] = 0]
        /\ counted' = [counted EXCEPT ![p] = 0]
        /\ strayed' = (strayed \/ cwd[p] # counted[p])
        /\ UNCHANGED <<forks, made, orphans>>

\* The next boot, from the disk of s: what the log committed is all there is.
Restart(s) ==
    /\ fs' = Booted(s.ent, s.bm, s.data)
    /\ ftable' = [f \in Files |-> NoFile]
    /\ ofiles' = [p \in Procs |-> [d \in Fds |-> 0]]
    /\ cwd' = [p \in Procs |-> IF p = InitProc THEN RootNo ELSE 0]
    /\ pipes' = [q \in Pipes |-> {}]
    /\ counted' = cwd' /\ orphans' = {}
    /\ UNCHANGED <<forks, made, strayed>>

\* Power is lost, or the kernel panicked, between two calls ...
Reboot == Restart(fs)

\* ... or between two atomic operations of one write, when some buffers and whole chunks
\* of the next are on disk. (exit, the other call of several, closes files as
\* close does.)
Written(ns) ==
    UNION {{Append(SubSeq(ns, 1, k - 1), j * MaxChunk) : j \in 0..((ns[k] - 1) \div MaxChunk)} :
           k \in 1..Len(ns)}

WriteCut(p, d, ns) ==
    LET f == ftable[ofiles[p][d]]
    IN  /\ Running(p)
        /\ ofiles[p][d] # 0 /\ f.type = "inode" /\ f.wr
        /\ fs.ic[f.ip].entry.type # "dir"
        /\ \E part \in Written(ns) :
             Restart(WriteBuffers([s |-> fs, off |-> f.off], f.ip, part)[Len(part)].s)

Next ==
    \/ \E p \in Procs :
        \/ \E path \in Paths :
            \/ \E omode \in OModes : Openat(p, path, TRUE, omode)
            \/ \E omode \in OModes : Openat(p, path, FALSE, omode)
            \/ \E type \in NodeTypes : MakeNode(p, path, type)
            \/ Newfstatat(p, path)
            \/ Unlinkat(p, path)
            \/ Chdir(p, path)
        \/ \E d \in Fds :
            \/ Close(p, d)
            \/ Dup(p, d)
            \/ Fstat(p, d)
            \/ \E n \in ReadSizes : Read(p, d, n)
            \/ \E ns \in Buffers : Write(p, d, ns) \/ WriteCut(p, d, ns)
        \/ Pipe2(p)
        \/ \E c \in Procs : Fork(p, c)
        \/ Exit(p)
    \/ Reboot

Spec == Init /\ [][Next]_vars

-----------------------------------------------------------------------------
(* Properties. *)

Inuse == Live(fs)
Refs(i) ==
    LET e == fs.ent[i]
    IN  Cardinality({k \in 0..(NumDirect - 1) : e.addrs[k] # 0})
        + (IF e.indirect = 0 THEN 0
           ELSE 1 + Cardinality({k \in 0..(NumIndirect - 1) : fs.data[e.indirect][k].n # 0}))

\* BlocksOwned: the bitmap marks exactly the blocks that the inodes in use refer
\* to, and no block is referred to twice, whatever calls, exits and reboots came
\* before (inode_map, inode_clear, cache_alloc, cache_free), until a process is
\* left in a removed directory: from there it can open ".." when that is gone too,
\* and what it writes belongs to an inode that is free on disk.
BlocksOwned ==
    ~strayed => /\ fs.bm = UNION {OwnBlocks(fs.data, fs.ent[i]) : i \in Inuse}
                /\ Cardinality(fs.bm) = MapThenSumSet(Refs, Inuse)

\* The unit at offset o of inode i on disk.
DiskUnit(i, o) == UnitAt(fs.data, fs.ent[i], o)

\* ContentExact: every datum of a file is in a block of the disk and was written at
\* that offset of that file, through direct and indirect blocks, writes that start in
\* the middle of a block or are cut by a crash, and blocks that belonged to other
\* files (inode_map, inode_write).
ContentExact ==
    \A i \in Inuse : fs.ent[i].type = "file" =>
        \A o \in 0..(fs.ent[i].bytes - 1) :
            /\ BlockOf(fs.data, fs.ent[i], o \div BlockSize) \in Blocks
            /\ DiskUnit(i, o) = Datum(i, o)

Dirs == {i \in Inuse : fs.ent[i].type = "dir"}

\* LinksExact: an entry names an inode in use, a name occurs once in a directory,
\* and the link count is the number of names, plus the subdirectories of a
\* directory (create, unlinkat), until a process is left in a removed directory.
\* A removed directory that is still open keeps its "..", which may be gone.
LinksExact ==
    ~strayed =>
        LET named(i) == {x \in Dirs \X (2..(MaxBytes - 1)) :
                            x[2] < fs.ent[x[1]].bytes /\ DiskUnit(x[1], x[2]).n = i}
            subs(d) == Cardinality({o \in 2..(fs.ent[d].bytes - 1) :
                            DiskUnit(d, o).n \in Dirs})
        IN  /\ \A d \in Dirs : \A o1, o2 \in 0..(fs.ent[d].bytes - 1) :
                 DiskUnit(d, o1).n # 0 =>
                    /\ fs.ent[d].links > 0 => DiskUnit(d, o1).n \in Inuse
                    /\ DiskUnit(d, o1).t = DiskUnit(d, o2).t /\ DiskUnit(d, o2).n # 0 => o1 = o2
            /\ \A i \in Inuse :
                 fs.ent[i].links = Cardinality(named(i)) + (IF i = RootNo THEN 1 ELSE 0)
                                   + (IF i \in Dirs THEN subs(i) ELSE 0)

\* RefsExact: a file's ref is the number of descriptors that hold it, over every
\* process (or the reference a failing pipe2 lost); a pipe's ends are open as long
\* as a file refers to them; an inode's rc is the number of files, processes and
\* kernel pointers that count on it (file_close, fork, exit, inode_put).
RefsExact ==
    /\ \A f \in Files : ftable[f].ref =
           Cardinality({x \in Procs \X Fds : ofiles[x[1]][x[2]] = f})
           + (IF f \in orphans THEN 1 ELSE 0)
    /\ \A q \in Pipes : pipes[q] =
           {IF ftable[f].wr THEN "w" ELSE "r" : f \in {g \in Files : ftable[g].pipe = q}}
    /\ ~strayed /\ fs.bad = "ok" => \A i \in Inos : fs.ic[i].rc =
           Cardinality({f \in Files : ftable[f].ip = i}) + Cardinality({p \in Procs : counted[p] = i})
           + (IF i = RootNo THEN 1 ELSE 0)

\* CacheCoherent: between calls an in-memory inode is what the disk says, so that
\* no change waits for an inode_sync that nobody makes, and an unlinked inode
\* goes when its last reference does.
CacheCoherent ==
    \A i \in Inos :
        /\ fs.ic[i].cached => fs.ic[i].entry = fs.ent[i]
        /\ fs.ic[i].cached /\ fs.ent[i].links = 0 => fs.ic[i].rc > 0

\* No call returns with an inode lock taken; only a directory's may have been
\* released once too often.
LocksFree ==
    fs.bad = "ok" => \A i \in Inos : fs.ic[i].cached =>
        /\ fs.ic[i].lock >= 1
        /\ fs.ic[i].entry.type # "dir" => fs.ic[i].lock = 1

\* FailuresKnown: the only ways a call can bring the kernel down are a full disk,
\* no free inode and a file or directory at its maximal size: no assertion on
\* reference counts, no inode lock left taken or taken twice by one call, no
\* operation too large for the log, until a process is left in a removed directory
\* or exits outside the directory it was born in; and no call returns with an
\* inode lock taken.
FailuresKnown ==
    /\ fs.bad \in {"ok", "disk_full", "no_inode", "too_big"} \/ strayed
    /\ LocksFree

\* AssertsHold: inode_lock and inode_unlock assert that the inode is referenced
\* ("ASSERT(inode->rc.count > 0)", src/fs/inode.c:129): a path walk never meets
\* one that is not.
AssertsHold == fs.bad # "assert_rc"
=============================================================================
