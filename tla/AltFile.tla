------------------------------ MODULE AltFile ------------------------------
(***************************************************************************)
(* The file layer of the HAL (HAL/src/alt_open.c, alt_close.c, alt_ioctl.c *)
(* and their helpers), from alt_main through main to _exit: the lists of   *)
(* registered devices and file systems, the table of file descriptors, the *)
(* redirection of the standard streams, and the system calls on them.      *)
(*                                                                         *)
(* This board support package is single threaded, so a call is one step.   *)
(* A call is an operator from the table before to the table after and a    *)
(* return value, because calls are made of calls (stat, io_redirect).      *)
(* Drivers are external: where a driver is asked, ok says whether it       *)
(* succeeds.  Names are tuples of path components.                         *)
(***************************************************************************)
EXTENDS Integers, Sequences, FiniteSets, SequencesExt

CONSTANTS
  Drivers,      \* the device and file system instances of the system
  NameOf,       \* NameOf[d]: its name, or None
  Mounted,      \* the drivers that are file systems
  OpsOf,        \* OpsOf[d]: the entries of its alt_dev that are not NULL
  DevNull,      \* the instance alt_dev_null
  None,         \* a NULL pointer
  MaxFd,        \* ALT_MAX_FD
  Stdio,        \* ALT_STDIN, ALT_STDOUT, ALT_STDERR: [0 .. 2 -> names]
  Names,        \* the names the program opens
  OpenModes,    \* the access modes it opens them with
  Ctors,        \* how many static constructors, and destructors, there are
  MaxOpen       \* bound on the descriptors the program holds at a time

AccModes == {"RDONLY", "WRONLY", "RDWR"}
Ops == {"open", "close", "read", "write", "lseek", "fstat", "ioctl"}

ASSUME DriversAssumption ==
  /\ DevNull \in Drivers \ Mounted
  /\ Mounted \subseteq Drivers
  /\ None \notin Drivers
  /\ OpsOf \in [Drivers -> SUBSET Ops]
ASSUME NamesAssumption == OpenModes \subseteq AccModes
ASSUME CtorsAssumption == Ctors \in Nat
ASSUME MaxFdAssumption == MaxFd \in Nat /\ MaxFd > 3

VARIABLES
  direct,     \* ALT_USE_DIRECT_DRIVERS; chosen at the start
  phase,      \* where alt_main is
  left,       \* constructors or destructors that have not run
  dev_list,   \* alt_dev_list, from its head
  fs_list,    \* alt_fs_list, from its head
  table,      \* alt_fd_list and alt_max_fd
  held        \* the descriptors open() gave to the program and it has not closed

vars == <<direct, phase, left, dev_list, fs_list, table, held>>

Fd == 0 .. MaxFd - 1

\* ALT_FD_EXCL, ALT_FD_DEV (ALT_FD_FLAGS_MASK) and the flags of fcntl
Marks == {"EXCL", "DEV"}
FcntlFlags == {"NONBLOCK", "APPEND"}

Closed == [dev |-> None, flags |-> {}, acc |-> "RDONLY"]

-----------------------------------------------------------------------------
(* Lists of devices                                                        *)

\* alt_llist_insert puts a new entry at the head.
alt_dev_llist_insert(list, d) == IF NameOf[d] = None THEN list ELSE <<d>> \o list
alt_fs_reg(list, d) == IF NameOf[d] = None THEN list ELSE <<d>> \o list

FirstMatch(list, Match(_)) ==
  IF \E i \in DOMAIN list : Match(list[i])
  THEN list[CHOOSE i \in DOMAIN list :
         Match(list[i]) /\ \A j \in 1 .. i - 1 : ~Match(list[j])]
  ELSE None

alt_find_dev(name, list) == FirstMatch(list, LAMBDA d : NameOf[d] = name)
alt_find_file(name) == FirstMatch(fs_list, LAMBDA d : IsPrefix(NameOf[d], name))

-----------------------------------------------------------------------------
(* The table of descriptors                                                *)

\* A failing call returns -1 and says why in errno.
Fails(t, errno) == [t |-> t, ret |-> -1, errno |-> errno]
Returns(t, value) == [t |-> t, ret |-> value]

alt_get_fd(t, d) ==
  LET free == {i \in Fd : t.fds[i].dev = None}
      i == CHOOSE i \in free : \A j \in free : i <= j
  IN  IF free = {} THEN [t |-> t, ret |-> -1]
      ELSE [t |-> [t EXCEPT !.fds[i].dev = d,
                            !.max_fd = IF i > @ THEN i ELSE @],
            ret |-> i]

\* Mutant: an error return leaves the descriptor taken.
ReleaseNothing(t, fd) == t

\* The standard streams are never released.
alt_release_fd(t, fd) == IF fd > 2 THEN [t EXCEPT !.fds[fd] = Closed] ELSE t

\* Mutant: the last descriptor is not looked at.
FileLockedShort(t, fd) ==
  \E i \in 0 .. t.max_fd - 1 :
    /\ t.fds[i].dev = t.fds[fd].dev
    /\ "EXCL" \in t.fds[i].flags
    /\ i # fd

alt_file_locked(t, fd) ==
  \E i \in 0 .. t.max_fd :
    /\ t.fds[i].dev = t.fds[fd].dev
    /\ "EXCL" \in t.fds[i].flags
    /\ i # fd

alt_fd_lock(t, fd) ==
  IF \E i \in 0 .. t.max_fd - 1 : i # fd /\ t.fds[i].dev = t.fds[fd].dev
  THEN Fails(t, "EACCES")
  ELSE Returns([t EXCEPT !.fds[fd].flags = @ \cup {"EXCL"}], 0)

alt_fd_unlock(t, fd) == Returns([t EXCEPT !.fds[fd].flags = @ \ {"EXCL"}], 0)

-----------------------------------------------------------------------------
(* The system calls                                                        *)

Has(t, fd, op) == op \in OpsOf[t.fds[fd].dev]

\* Asks the driver: EIO stands for whatever error it reports.
Driver(t, ok, value) == IF ok THEN Returns(t, value) ELSE Fails(t, "EIO")

ALT_OPEN(t, name, acc, flags, ok) ==
  LET dev == alt_find_dev(name, dev_list)
      isafs == dev = None
      d == IF isafs THEN alt_find_file(name) ELSE dev
      got == alt_get_fd(t, d)
      fd == got.ret
      mine == flags \ Marks
      u == [got.t EXCEPT !.fds[fd].acc = acc,
                         !.fds[fd].flags = IF isafs THEN mine ELSE mine \cup {"DEV"}]
      Fail(v, errno) == Fails(alt_release_fd(v, fd), errno)
  IN  CASE direct -> Fails(t, "ENOSYS")
        [] ~direct /\ d = None -> Fails(t, "ENODEV")
        [] ~direct /\ d # None /\ fd = -1 -> Fails(got.t, "EMFILE")
        [] OTHER ->
             IF ~isafs /\ alt_file_locked(u, fd) THEN Fail(u, "EACCES")
             ELSE IF "open" \in OpsOf[d] /\ ~ok THEN Fail(u, "EIO")
             ELSE Returns(u, fd)

ALT_CLOSE(t, fd, ok) ==
  IF direct THEN Fails(t, "ENOSYS")
  ELSE IF fd < 0 THEN Fails(t, "EBADFD")
  ELSE LET u == alt_release_fd(t, fd)
       IN  IF Has(t, fd, "close") THEN Driver(u, ok, 0) ELSE Returns(u, 0)

ALT_IOCTL(t, fd, req, ok) ==
  IF direct
  THEN IF fd \in 0 .. 2 THEN Driver(t, ok, 0) ELSE Fails(t, "EBADFD")
  ELSE IF fd < 0 THEN Fails(t, "EBADFD")
  ELSE IF "DEV" \in t.fds[fd].flags /\ req = "TIOCEXCL" THEN alt_fd_lock(t, fd)
  ELSE IF "DEV" \in t.fds[fd].flags /\ req = "TIOCNXCL" THEN alt_fd_unlock(t, fd)
  ELSE IF Has(t, fd, "ioctl") THEN Driver(t, ok, 0)
  ELSE Fails(t, "ENOTTY")

\* F_SETFL.  F_GETFL returns GetFlags.
ALT_FCNTL(t, fd, flags) ==
  IF fd < 0 THEN Fails(t, "EBADFD")
  ELSE Returns([t EXCEPT !.fds[fd].flags = (@ \ FcntlFlags) \cup (flags \cap FcntlFlags)],
               0)
GetFlags(t, fd) == t.fds[fd].flags \ Marks

Transfer(t, fd, op, forbidden, streams, ok) ==
  IF direct
  THEN IF fd \in streams THEN Driver(t, ok, 1) ELSE Fails(t, "EBADFD")
  ELSE IF fd < 0 THEN Fails(t, "EBADFD")
  ELSE IF t.fds[fd].acc = forbidden \/ ~Has(t, fd, op) THEN Fails(t, "EACCES")
  ELSE Driver(t, ok, 1)

ALT_READ(t, fd, ok) == Transfer(t, fd, "read", "WRONLY", {0}, ok)
ALT_WRITE(t, fd, ok) == Transfer(t, fd, "write", "RDONLY", {1, 2}, ok)

ALT_LSEEK(t, fd, ok) ==
  IF direct THEN Fails(t, "ENOSYS")
  ELSE IF fd < 0 THEN Fails(t, "EBADFD")
  ELSE IF Has(t, fd, "lseek") THEN Driver(t, ok, 0)
  ELSE Fails(t, "ENOTSUP")

\* The error of a driver's fstat is returned without setting errno.
ALT_FSTAT(t, fd, ok) ==
  IF direct THEN Returns(t, IF fd \in 0 .. 2 THEN 0 ELSE -1)
  ELSE IF fd < 0 THEN Fails(t, "EBADFD")
  ELSE Returns(t, IF Has(t, fd, "fstat") /\ ~ok THEN -1 ELSE 0)

ALT_ISATTY(t, fd, chr) ==
  IF direct THEN Returns(t, IF fd \in 0 .. 2 THEN 1 ELSE 0)
  ELSE IF fd < 0 THEN [Fails(t, "EBADFD") EXCEPT !.ret = 0]
  ELSE Returns(t, IF Has(t, fd, "fstat") /\ ~chr THEN 0 ELSE 1)

\* A name that cannot be opened is reported as EBADFD, by fstat and close.
ALT_STAT(t, name, ok) ==
  LET opened == ALT_OPEN(t, name, "RDONLY", {}, ok)
      stated == ALT_FSTAT(opened.t, opened.ret, ok)
  IN  [t |-> ALT_CLOSE(stated.t, opened.ret, ok).t, ret |-> stated.ret]

\* Calls the HAL does not support, kept for newlib.
ALT_FORK(t) == Fails(t, "ENOSYS")
ALT_EXECVE(t) == Fails(t, "ENOSYS")
ALT_LINK(t) == Fails(t, "ENOSYS")
ALT_UNLINK(t) == Fails(t, "ENOSYS")
ALT_RENAME(t) == Fails(t, "ENOSYS")
ALT_WAIT(t) == Fails(t, "ECHILD")

\* Mutant: the temporary descriptor is closed, but its device not copied.
OpenFdForgets(t, fd, name, acc, ok) ==
  LET opened == ALT_OPEN(t, name, acc, {}, ok)
  IN  IF opened.ret < 0 THEN opened.t ELSE alt_release_fd(opened.t, opened.ret)

alt_open_fd(t, fd, name, acc, ok) ==
  LET opened == ALT_OPEN(t, name, acc, {}, ok)
      old == opened.ret
  IN  IF old < 0 THEN opened.t
      ELSE alt_release_fd([opened.t EXCEPT !.fds[fd] = opened.t.fds[old]], old)

-----------------------------------------------------------------------------
(* alt_main                                                                *)

Init ==
  /\ direct \in BOOLEAN
  /\ phase = "sys_init"
  /\ left = Ctors
  /\ dev_list = <<DevNull>>
  /\ fs_list = <<>>
  /\ table = [fds |-> [i \in Fd |-> IF i <= 2 THEN [Closed EXCEPT !.dev = DevNull]
                                    ELSE Closed],
              max_fd |-> -1]
  /\ held = {}

Listed(d) == \E list \in {dev_list, fs_list} : \E i \in DOMAIN list : list[i] = d

\* alt_sys_init: each driver registers its instances, some of them perhaps not
\* (a driver that finds no hardware, an instance without a name).
alt_sys_init ==
  /\ phase = "sys_init"
  /\ \E d \in Drivers :
       /\ ~Listed(d)
       /\ IF d \in Mounted
          THEN fs_list' = alt_fs_reg(fs_list, d) /\ UNCHANGED dev_list
          ELSE dev_list' = alt_dev_llist_insert(dev_list, d) /\ UNCHANGED fs_list
  /\ UNCHANGED <<direct, phase, left, table, held>>

\* The standard streams, in the order of alt_io_redirect; with direct drivers
\* there is nothing to redirect.
alt_io_redirect ==
  /\ phase = "sys_init"
  /\ \E ok \in [0 .. 2 -> BOOLEAN] :
       LET t1 == alt_open_fd(table, 1, Stdio[1], "WRONLY", ok[1])
           t2 == alt_open_fd(t1, 0, Stdio[0], "RDONLY", ok[0])
       IN  table' = IF direct THEN table
                    ELSE alt_open_fd(t2, 2, Stdio[2], "WRONLY", ok[2])
  /\ phase' = "ctors"
  /\ UNCHANGED <<direct, left, dev_list, fs_list, held>>

\* The constructors run from the last of the list to the first, then main.
\* They are code of the program: Running lets them make calls as well.
_do_ctors ==
  /\ phase = "ctors"
  /\ IF left > 0 THEN left' = left - 1 /\ UNCHANGED phase
                 ELSE phase' = "main" /\ UNCHANGED left
  /\ UNCHANGED <<direct, dev_list, fs_list, table, held>>

Running == phase \in {"ctors", "main", "dtors"}

\* The descriptors the program may use: those it was given, the standard
\* streams, and -1, the result of an open() that failed.
Usable == held \cup {-1, 0, 1, 2}

Does(call) ==
  /\ table' = call.t
  /\ UNCHANGED <<direct, phase, left, dev_list, fs_list>>

Open ==
  /\ Running /\ Cardinality(held) < MaxOpen
  /\ \E name \in Names, acc \in OpenModes, flags \in {{}, {"EXCL"}}, ok \in BOOLEAN :
       LET call == ALT_OPEN(table, name, acc, flags, ok)
       IN  /\ Does(call)
           /\ held' = held \cup ({call.ret} \ {-1})

Close ==
  /\ Running
  /\ \E fd \in Usable, ok \in BOOLEAN :
       /\ Does(ALT_CLOSE(table, fd, ok))
       /\ held' = held \ {fd}

Ioctl ==
  /\ Running
  /\ \E fd \in Usable, req \in {"TIOCEXCL", "TIOCNXCL", "other"}, ok \in BOOLEAN :
       Does(ALT_IOCTL(table, fd, req, ok))
  /\ UNCHANGED held

Fcntl ==
  /\ Running /\ ~direct
  /\ \E fd \in Usable \ {1, 2}, flags \in {{}, {"NONBLOCK", "EXCL"}} :
       Does(ALT_FCNTL(table, fd, flags))
  /\ UNCHANGED held

Query ==
  /\ Running
  /\ \/ \E fd \in Usable, ok \in BOOLEAN :
          \/ Does(ALT_READ(table, fd, ok))
          \/ Does(ALT_WRITE(table, fd, ok))
          \/ Does(ALT_LSEEK(table, fd, ok))
          \/ Does(ALT_FSTAT(table, fd, ok))
          \/ Does(ALT_ISATTY(table, fd, ok))
     \/ \E name \in Names, ok \in BOOLEAN : Does(ALT_STAT(table, name, ok))
     \/ Does(ALT_FORK(table)) \/ Does(ALT_EXECVE(table)) \/ Does(ALT_WAIT(table))
     \/ Does(ALT_LINK(table)) \/ Does(ALT_UNLINK(table)) \/ Does(ALT_RENAME(table))
  /\ UNCHANGED held

\* main returns: stdout is drained by its close, then exit() never returns.
Exit ==
  /\ phase = "main"
  /\ \E ok \in BOOLEAN : table' = ALT_CLOSE(table, 1, ok).t
  /\ phase' = "dtors"
  /\ left' = Ctors
  /\ UNCHANGED <<direct, dev_list, fs_list, held>>

\* exit() calls what atexit() was given, and _exit().
_do_dtors ==
  /\ phase = "dtors"
  /\ IF left > 0 THEN left' = left - 1 /\ UNCHANGED phase
                 ELSE phase' = "exit" /\ UNCHANGED left
  /\ UNCHANGED <<direct, dev_list, fs_list, table, held>>

\* kill() of the only process with a signal whose default is to terminate;
\* other signals and processes only set errno, if anything.
ALT_KILL ==
  /\ Running
  /\ phase' = "exit"
  /\ UNCHANGED <<direct, left, dev_list, fs_list, table, held>>

\* _exit() spins for ever.
ALT_EXIT == phase = "exit" /\ UNCHANGED vars

Next ==
  \/ alt_sys_init \/ alt_io_redirect \/ _do_ctors \/ _do_dtors \/ ALT_KILL
  \/ Open \/ Close \/ Ioctl \/ Fcntl \/ Query
  \/ Exit \/ ALT_EXIT

Spec == Init /\ [][Next]_vars

-----------------------------------------------------------------------------

OpenOn(d) == {fd \in Fd : table.fds[fd].dev = d}
LockedOn(d) == {fd \in OpenOn(d) : "EXCL" \in table.fds[fd].flags}

Descriptors == [dev : Drivers \cup {None}, flags : SUBSET (Marks \cup FcntlFlags),
                acc : AccModes]
Tables == [fds : [Fd -> Descriptors], max_fd : {-1} \cup Fd]

TypeOK ==
  /\ direct \in BOOLEAN
  /\ phase \in {"sys_init", "ctors", "main", "dtors", "exit"}
  /\ left \in 0 .. Ctors
  /\ dev_list \in Seq(Drivers \ Mounted)
  /\ fs_list \in Seq(Mounted)
  /\ table \in Tables
  /\ held \subseteq Fd

\* Every descriptor above the standard streams that is taken is in the hands
\* of the program, and the other way round: no path through open (no device,
\* table full, device locked, driver refuses), stat or io_redirect leaks one or
\* frees one that is in use, and no two opens give the same one.
NoDescriptorLost == {fd \in Fd : fd > 2 /\ table.fds[fd].dev # None} = held

\* While some descriptor holds the exclusive lock of a device, no further
\* descriptor comes to refer to it, whatever the program calls; ALT_FD_EXCL
\* among the flags passed to open() or fcntl() is not a lock.
LockExcludesOpens ==
  [][\A d \in Drivers : LockedOn(d) # {} =>
       Cardinality(OpenOn(d)') <= Cardinality(OpenOn(d))]_vars

\* What a name refers to: a device of that name, or a file of a file system.
Named(name) ==
  LET dev == alt_find_dev(name, dev_list)
  IN  IF dev = None THEN alt_find_file(name) ELSE dev

\* From the start of main on each standard stream has a device, the named one
\* if it was registered and its driver agreed, else /dev/null, and it keeps it
\* whatever is closed.
StreamsConnected ==
  phase # "sys_init" /\ ~direct =>
    \A fd \in 0 .. 2 :
      LET d == Named(Stdio[fd])
      IN  /\ table.fds[fd].dev \in {d, DevNull} \ {None}
          /\ d # None /\ "open" \notin OpsOf[d] => table.fds[fd].dev = d

\* "If there are no other open file descriptors which reference the same
\* device, then alt_fd_lock() will grant the lock" (alt_fd_lock.c:43-44): who
\* holds the lock is alone on the device.
LockIsExclusive ==
  \A d \in Drivers : LockedOn(d) # {} => Cardinality(OpenOn(d)) = 1

=============================================================================
