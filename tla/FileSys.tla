------------------------------ MODULE FileSys -------------------------------
(***************************************************************************)
(* Names, links and references: the upper half of fs.c (inode cache,       *)
(* directories, paths), the file table of file.c, the descriptors and the  *)
(* system calls of sysfile.c, and what fork() and exit() do to them.  The  *)
(* device never blocks, so a system call runs from entry to return without *)
(* another process in between: it is one step.  Inside a step the calls of *)
(* iget, ilock and iput are made one after another, as in the code, on a   *)
(* record t that stands for the inodes.  Contents of files and offsets are *)
(* left to module Inode, pipes and sys_pipe() to module Pipe.              *)
(***************************************************************************)
EXTENDS Naturals, Sequences, FiniteSets

CONSTANTS Procs, InitProc, NINODES, NFILE, NOFILE,
          MaxLink,     \* bound of the model: sys_link() makes no more links
          Names,       \* file names other than "." and ".."
          Paths        \* the paths passed to system calls

ASSUME FileSysAssumption ==
    /\ IsFiniteSet(Procs) /\ InitProc \in Procs
    /\ NINODES \in Nat \ {0} /\ NFILE \in Nat /\ NOFILE \in Nat
    /\ MaxLink \in Nat
    /\ IsFiniteSet(Names) /\ Names \cap {".", ".."} = {}
    /\ \A path \in Paths : /\ path.abs \in BOOLEAN
                           /\ path.elems \in Seq(Names \cup {".", ".."})

VARIABLES fs,          \* the inodes: type, nlink, entries, ref and I_VALID
          files,       \* ftable
          ofile, cwd,  \* per process; cwd is 0 for a process that is not there
          halted       \* the message of the panic() reached, or ""

vars == <<fs, files, ofile, cwd, halted>>

ROOTINO == 1
Inodes  == 1 .. NINODES
Fds     == 0 .. NOFILE - 1
NoEntries == [n \in Names \cup {".."} |-> 0]
NoFile  == [ref |-> 0, type |-> "FD_NONE", ip |-> 0]

\* The file system of mkfs, with the first process in the root directory.
Init ==
    /\ fs = [type  |-> [i \in Inodes |-> IF i = ROOTINO THEN "T_DIR" ELSE "free"],
             nlink |-> [i \in Inodes |-> IF i = ROOTINO THEN 1 ELSE 0],
             entry |-> [i \in Inodes |-> IF i = ROOTINO
                                         THEN [NoEntries EXCEPT ![".."] = ROOTINO]
                                         ELSE NoEntries],
             ref   |-> [i \in Inodes |-> IF i = ROOTINO THEN 1 ELSE 0],
             valid |-> {},
             panic |-> ""]
    /\ files = [f \in 1 .. NFILE |-> NoFile]
    /\ ofile = [p \in Procs |-> [fd \in Fds |-> 0]]
    /\ cwd = [p \in Procs |-> IF p = InitProc THEN ROOTINO ELSE 0]
    /\ halted = ""

-----------------------------------------------------------------------------
\* The first panic() of a system call counts: what the rest of the call makes of
\* t is discarded by Return.
Panic(t, msg) == IF t.panic = "" THEN [t EXCEPT !.panic = msg] ELSE t

\* iget() and idup().
Iget(t, i) == [t EXCEPT !.ref[i] = @ + 1]

\* ilock(): read the inode unless it is valid; it must be allocated.
Ilock(t, i) ==
    IF i \in t.valid THEN t
    ELSE IF t.type[i] = "free" THEN Panic(t, "ilock: no type")
    ELSE [t EXCEPT !.valid = @ \cup {i}]

\* Mutant: an inode without links is freed although it is still in use.
IputEager(t, i, trans) ==
    IF t.nlink[i] = 0 /\ i \in t.valid
    THEN [t EXCEPT !.type[i] = "free", !.entry[i] = NoEntries,
                   !.valid = @ \ {i}, !.ref[i] = @ - 1]
    ELSE [t EXCEPT !.ref[i] = @ - 1,
                   !.valid = IF t.ref[i] = 1 THEN @ \ {i} ELSE @]

\* iput(): the last reference to an inode without links frees it, which writes
\* the log and so must happen in a transaction.  The flags of an entry without
\* references are forgotten: iget() resets them.
Iput(t, i, trans) ==
    IF t.ref[i] = 1 /\ i \in t.valid /\ t.nlink[i] = 0
    THEN IF ~trans THEN Panic(t, "write outside of trans")
         ELSE [t EXCEPT !.type[i] = "free", !.entry[i] = NoEntries,
                        !.valid = @ \ {i}, !.ref[i] = 0]
    ELSE [t EXCEPT !.ref[i] = @ - 1,
                   !.valid = IF t.ref[i] = 1 THEN @ \ {i} ELSE @]

\* dirlookup(): the inode number of a name, 0 when there is none.
Dirlookup(t, dp, name) == IF name = "." THEN dp ELSE t.entry[dp][name]

\* A step of the loop of namex(): from the directory r.ip to the inode of name.
Step(r, name) ==
    LET t == Ilock(r.t, r.ip) IN
    IF t.type[r.ip] = "T_DIR" /\ Dirlookup(t, r.ip, name) # 0
    THEN [t  |-> Iput(Iget(t, Dirlookup(t, r.ip, name)), r.ip, r.trans),
          ip |-> Dirlookup(t, r.ip, name), trans |-> r.trans]
    ELSE [t |-> Iput(t, r.ip, r.trans), ip |-> 0, trans |-> r.trans]

\* The loop of namex() over elems; r.ip is 0 when the path does not resolve.
Walk(r, elems) ==
    LET w[k \in 0 .. Len(elems)] ==
          IF k = 0 THEN r
          ELSE IF w[k - 1].ip = 0 THEN w[k - 1]
          ELSE Step(w[k - 1], elems[k])
    IN  w[Len(elems)]

\* Where namex() starts.
StartOf(p, path) == IF path.abs THEN ROOTINO ELSE cwd[p]
Start(t, p, path, trans) ==
    [t |-> Iget(t, StartOf(p, path)), ip |-> StartOf(p, path), trans |-> trans]

\* namei() and nameiparent(); the caller owns the reference to r.ip.  The parent
\* is still locked and tested for T_DIR before it is returned.
Namei(t, p, path, trans) == Walk(Start(t, p, path, trans), path.elems)

Parent(r) ==
    IF r.ip = 0 THEN r
    ELSE IF Ilock(r.t, r.ip).type[r.ip] = "T_DIR" THEN [r EXCEPT !.t = Ilock(@, r.ip)]
    ELSE [r EXCEPT !.t = Iput(Ilock(@, r.ip), r.ip, r.trans), !.ip = 0]

Nameiparent(t, p, path, trans) ==
    IF path.elems = <<>> THEN [t |-> t, ip |-> 0, trans |-> trans]
    ELSE Parent(Walk(Start(t, p, path, trans), SubSeq(path.elems, 1, Len(path.elems) - 1)))

LastElem(path) == path.elems[Len(path.elems)]

\* A system call ends: with the inodes as t has them, or in panic().
Return(t) ==
    IF t.panic # "" THEN halted' = t.panic /\ fs' = fs
    ELSE fs' = t /\ UNCHANGED halted

\* p is there to make system calls.
Active(p) == halted = "" /\ cwd[p] # 0

-----------------------------------------------------------------------------
\* create() after nameiparent(): r.ip is the directory, and in the result it is
\* the inode, referenced and locked, or 0.
Existing(r, old, type) ==
    LET t == Ilock(Iput(Iget(r.t, old), r.ip, TRUE), old) IN
    IF type = "T_FILE" /\ t.type[old] = "T_FILE"
    THEN [t |-> t, ip |-> old]
    ELSE [t |-> Iput(t, old, TRUE), ip |-> 0]

NewInode(t, dp, name, type, ip) ==
    [Iget(t, ip) EXCEPT
        !.type[ip] = type,
        !.nlink = [t.nlink EXCEPT ![ip] = 1,
                                  ![dp] = t.nlink[dp] + (IF type = "T_DIR" THEN 1 ELSE 0)],
        !.entry = [t.entry EXCEPT ![dp][name] = ip,
                                  ![ip][".."] = IF type = "T_DIR" THEN dp ELSE 0],
        !.valid = @ \cup {ip}]

FreeInodes(t) == {i \in Inodes : t.type[i] = "free"}
FirstInode(t) == CHOOSE i \in FreeInodes(t) : \A j \in FreeInodes(t) : i <= j

Create(r, name, type) ==
    IF Dirlookup(r.t, r.ip, name) # 0
    THEN Existing(r, Dirlookup(r.t, r.ip, name), type)
    ELSE IF FreeInodes(r.t) = {}
    THEN [t |-> Panic(r.t, "ialloc: no inodes"), ip |-> 0]
    ELSE [t |-> Iput(NewInode(r.t, r.ip, name, type, FirstInode(r.t)), r.ip, TRUE),
          ip |-> FirstInode(r.t)]

\* filealloc() and fdalloc(): the first free slot, 0 or NOFILE when there is none.
FreeFiles == {f \in 1 .. NFILE : files[f].ref = 0}
FirstFile == CHOOSE f \in FreeFiles : \A g \in FreeFiles : f <= g
FreeFds(p) == {fd \in Fds : ofile[p][fd] = 0}
FirstFd(p) == CHOOSE fd \in FreeFds(p) : \A e \in FreeFds(p) : fd <= e

\* Mutant: the reference is kept when no file or descriptor is left.
OpenFailLeaks(t, ip) == t
\* sys_open() without a file or a descriptor: iunlockput(ip), in no transaction.
OpenFail(t, ip) == Iput(t, ip, FALSE)

\* The end of sys_open(): a file and a descriptor for the locked inode ip.
OpenFile(p, t, ip) ==
    IF FreeFiles = {} \/ FreeFds(p) = {} \/ t.panic # ""
    THEN Return(OpenFail(t, ip)) /\ UNCHANGED <<files, ofile>>
    ELSE /\ Return(t)
         /\ files' = [files EXCEPT ![FirstFile] =
                         [ref |-> 1, type |-> "FD_INODE", ip |-> ip]]
         /\ ofile' = [ofile EXCEPT ![p][FirstFd(p)] = FirstFile]

\* A path did not resolve, or another error is returned.
Fail(t) == Return(t) /\ UNCHANGED <<files, ofile>>

OpenCreate(p, path) ==
    \E r \in {Nameiparent(fs, p, path, TRUE)} :
        IF r.ip = 0 THEN Fail(r.t)
        ELSE \E c \in {Create(r, LastElem(path), "T_FILE")} :
             IF c.ip = 0 THEN Fail(c.t) ELSE OpenFile(p, c.t, c.ip)

OpenExisting(p, path, omode) ==
    \E r \in {Namei(fs, p, path, FALSE)} :
        IF r.ip = 0 THEN Fail(r.t)
        ELSE \E t \in {Ilock(r.t, r.ip)} :
             IF t.type[r.ip] = "T_DIR" /\ omode # "O_RDONLY"
             THEN Fail(Iput(t, r.ip, FALSE))
             ELSE OpenFile(p, t, r.ip)

SysOpen(p, path, omode) ==
    /\ Active(p)
    /\ IF omode = "O_CREATE" THEN OpenCreate(p, path) ELSE OpenExisting(p, path, omode)
    /\ UNCHANGED cwd

\* sys_mkdir() and sys_mknod().
SysMknod(p, path, type) ==
    /\ Active(p)
    /\ \E r \in {Nameiparent(fs, p, path, TRUE)} :
          IF r.ip = 0 THEN Return(r.t)
          ELSE \E c \in {Create(r, LastElem(path), type)} :
               Return(IF c.ip = 0 THEN c.t ELSE Iput(c.t, c.ip, TRUE))
    /\ UNCHANGED <<files, ofile, cwd>>

\* The label bad of sys_link(): the link count is lowered again.
LinkBad(t, ip) == Iput([Ilock(t, ip) EXCEPT !.nlink[ip] = @ - 1], ip, TRUE)

\* The second half of sys_link(): the name new for ip, whose link count has been
\* raised already; q.ip is the directory.
LinkTo(q, name, ip) ==
    IF q.ip = 0 THEN LinkBad(q.t, ip)
    ELSE IF Dirlookup(q.t, q.ip, name) # 0 THEN LinkBad(Iput(q.t, q.ip, TRUE), ip)
    ELSE Iput(Iput([q.t EXCEPT !.entry[q.ip][name] = ip], q.ip, TRUE), ip, TRUE)

SysLink(p, old, new) ==
    /\ Active(p)
    /\ \E r \in {Namei(fs, p, old, FALSE)} :
          IF r.ip = 0 THEN Return(r.t)
          ELSE \E t \in {Ilock(r.t, r.ip)} :
               IF t.type[r.ip] = "T_DIR" THEN Return(Iput(t, r.ip, TRUE))
               ELSE /\ t.nlink[r.ip] < MaxLink
                    /\ \E q \in {Nameiparent([t EXCEPT !.nlink[r.ip] = @ + 1],
                                             p, new, TRUE)} :
                          Return(LinkTo(q, LastElem(new), r.ip))
    /\ UNCHANGED <<files, ofile, cwd>>

\* isdirempty().
IsDirEmpty(t, i) == \A n \in Names : t.entry[i][n] = 0

\* Mutant: the name stays in the directory.
UnlinkedKeepsName(t, dp, name, ip) ==
    [Iput(t, dp, TRUE) EXCEPT !.nlink[ip] = @ - 1]
\* sys_unlink() erases the entry and drops the links: the name's, and for a
\* directory that of its "..".
Unlinked(t, dp, name, ip) ==
    LET u == [t EXCEPT !.entry[dp][name] = 0,
                       !.nlink[dp] = IF t.type[ip] = "T_DIR" THEN @ - 1 ELSE @]
    IN  [Iput(u, dp, TRUE) EXCEPT !.nlink[ip] = @ - 1]

\* sys_unlink() from the second ilock() on.
UnlinkFrom(t, dp, name, ip) ==
    IF t.nlink[ip] < 1 THEN Panic(t, "unlink: nlink < 1")
    ELSE IF t.type[ip] = "T_DIR" /\ ~IsDirEmpty(t, ip)
    THEN Iput(Iput(t, ip, TRUE), dp, TRUE)
    ELSE Iput(Unlinked(t, dp, name, ip), ip, TRUE)

SysUnlink(p, path) ==
    /\ Active(p)
    /\ \E r \in {Nameiparent(fs, p, path, FALSE)} :
          IF r.ip = 0 THEN Return(r.t)
          ELSE \E ip \in {Dirlookup(r.t, r.ip, LastElem(path))} :
               IF LastElem(path) \in {".", ".."} \/ ip = 0
               THEN Return(Iput(r.t, r.ip, TRUE))
               ELSE \E t \in {Ilock(Iget(r.t, ip), ip)} :
                    Return(UnlinkFrom(t, r.ip, LastElem(path), ip))
    /\ UNCHANGED <<files, ofile, cwd>>

\* sys_chdir(): the old directory is given back outside of a transaction.
SysChdir(p, path) ==
    /\ Active(p)
    /\ \E r \in {Namei(fs, p, path, FALSE)} :
          IF r.ip = 0 THEN Return(r.t) /\ UNCHANGED cwd
          ELSE \E t \in {Ilock(r.t, r.ip)} :
               IF t.type[r.ip] # "T_DIR"
               THEN Return(Iput(t, r.ip, FALSE)) /\ UNCHANGED cwd
               ELSE /\ Return(Iput(t, cwd[p], FALSE))
                    /\ cwd' = [cwd EXCEPT ![p] = r.ip]
    /\ UNCHANGED <<files, ofile>>

-----------------------------------------------------------------------------
SysDup(p, fd) ==
    /\ Active(p) /\ ofile[p][fd] # 0 /\ FreeFds(p) # {}
    /\ ofile' = [ofile EXCEPT ![p][FirstFd(p)] = ofile[p][fd]]
    /\ files' = [files EXCEPT ![ofile[p][fd]].ref = @ + 1]
    /\ UNCHANGED <<fs, cwd, halted>>

\* fileclose(): the last reference gives the inode back, in a transaction.
FileClose(s, f) ==
    IF s.files[f].ref < 1 THEN [s EXCEPT !.t = Panic(@, "fileclose")]
    ELSE IF s.files[f].ref > 1 THEN [s EXCEPT !.files[f].ref = @ - 1]
    ELSE [files |-> [s.files EXCEPT ![f] = NoFile],
          t |-> Iput(s.t, s.files[f].ip, TRUE)]

SysClose(p, fd) ==
    /\ Active(p) /\ ofile[p][fd] # 0
    /\ LET s == FileClose([t |-> fs, files |-> files], ofile[p][fd]) IN
       Return(s.t) /\ files' = s.files
    /\ ofile' = [ofile EXCEPT ![p][fd] = 0]
    /\ UNCHANGED cwd

\* Mutant: the child's descriptors are not counted.
InheritedUncounted(p) == files
\* The files after fork() duplicated the descriptors of p.
Inherited(p) ==
    [f \in 1 .. NFILE |->
        [files[f] EXCEPT !.ref = @ + Cardinality({fd \in Fds : ofile[p][fd] = f})]]

\* fork(): the child q shares the open files and the current directory.
Fork(p, q) ==
    /\ Active(p) /\ cwd[q] = 0
    /\ files' = Inherited(p)
    /\ ofile' = [ofile EXCEPT ![q] = ofile[p]]
    /\ fs' = Iget(fs, cwd[p])
    /\ cwd' = [cwd EXCEPT ![q] = cwd[p]]
    /\ UNCHANGED halted

\* exit(): close every descriptor, then give back the current directory, outside
\* of a transaction.
Exit(p) ==
    /\ Active(p) /\ p # InitProc
    /\ LET c[k \in 0 .. NOFILE] ==
             IF k = 0 THEN [t |-> fs, files |-> files]
             ELSE IF ofile[p][k - 1] = 0 THEN c[k - 1]
             ELSE FileClose(c[k - 1], ofile[p][k - 1])
       IN  /\ files' = c[NOFILE].files
           /\ Return(Iput(c[NOFILE].t, cwd[p], FALSE))
    /\ ofile' = [ofile EXCEPT ![p] = [fd \in Fds |-> 0]]
    /\ cwd' = [cwd EXCEPT ![p] = 0]

PanicLoop == halted # "" /\ UNCHANGED vars

Next ==
    \/ \E p \in Procs :
          \/ \E path \in Paths, omode \in {"O_RDONLY", "O_WRONLY", "O_CREATE"} :
                SysOpen(p, path, omode)
          \/ \E path \in Paths, type \in {"T_DIR", "T_DEV"} : SysMknod(p, path, type)
          \/ \E old, new \in Paths : SysLink(p, old, new)
          \/ \E path \in Paths : SysUnlink(p, path)
          \/ \E path \in Paths : SysChdir(p, path)
          \/ \E fd \in Fds : SysDup(p, fd)
          \/ \E fd \in Fds : SysClose(p, fd)
          \/ \E q \in Procs : Fork(p, q)
          \/ Exit(p)
    \/ PanicLoop

Spec == Init /\ [][Next]_vars

-----------------------------------------------------------------------------
\* ip->ref counts the open files and current directories that are the inode: no
\* path through a system call, error returns included, loses or keeps one.
RefExact ==
    halted = "" => \A i \in Inodes :
        fs.ref[i] = Cardinality({p \in Procs : cwd[p] = i})
                  + Cardinality({f \in 1 .. NFILE : files[f].type = "FD_INODE"
                                                    /\ files[f].ip = i})

\* f->ref counts the descriptors of all processes, across dup, fork and exit.
FileRefExact ==
    halted = "" => \A f \in 1 .. NFILE :
        files[f].ref = Cardinality({x \in Procs \X Fds : ofile[x[1]][x[2]] = f})

\* iput() frees an inode exactly when its last link and its last reference are
\* gone: an unlinked file stays while it is open, and goes with its last close.
FreedWhenUnused ==
    halted = "" => \A i \in Inodes :
        fs.type[i] = "free" <=> (fs.nlink[i] = 0 /\ fs.ref[i] = 0)

\* A name in a directory is never that of a freed inode.
NoDanglingName ==
    halted = "" => \A d \in Inodes, n \in Names :
        fs.entry[d][n] # 0 => fs.type[fs.entry[d][n]] # "free"

\* nlink is the number of links to the inode in the file system: a file or a
\* device has as many as there are names for it in directories.
LinkExact ==
    halted = "" => \A i \in Inodes : fs.type[i] # "T_DIR" =>
        fs.nlink[i] = Cardinality({x \in Inodes \X Names : fs.entry[x[1]][x[2]] = i})

\* System calls write the file system inside of transactions only.
WritesInTransaction == halted # "write outside of trans"
=============================================================================
