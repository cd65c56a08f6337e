--------------------------- MODULE AltFileProofs ---------------------------
(***************************************************************************)
(* The file layer for every set of drivers and names and a table of any    *)
(* size: descriptors are neither leaked nor given out twice, the standard  *)
(* streams stay connected, and a locked device is not opened again.        *)
(***************************************************************************)
EXTENDS AltFile, FiniteSetTheorems, WellFoundedInduction, TLAPS

\* The descriptor holds the lock of its device.
Locked(t, fd) == "EXCL" \in t.fds[fd].flags
Unlocked(t) == \A fd \in Fd : ~Locked(t, fd)

\* What the table is between calls.  A descriptor carries a mark of its own
\* (ALT_FD_DEV, ALT_FD_EXCL) only if it was opened on a device, and then
\* alt_max_fd has been raised to it: this is why alt_file_locked, which looks
\* no further than alt_max_fd and is not asked for a file, finds every lock.
Sound(t) ==
  /\ t \in Tables
  /\ \A fd \in 0 .. 2 : t.fds[fd].dev # None
  /\ \A fd \in Fd : t.fds[fd].flags \cap Marks # {} =>
       fd <= t.max_fd /\ t.fds[fd].dev \in Drivers \ Mounted

\* The descriptors above the standard streams that are taken.
Taken(t) == {fd \in Fd : fd > 2 /\ t.fds[fd].dev # None}

\* Before io_redirect the streams are on /dev/null and nothing is locked.
Fresh(t) == Unlocked(t) /\ \A fd \in 0 .. 2 : t.fds[fd].dev = DevNull

\* The program never holds a descriptor when it is built with direct drivers:
\* its close() would not give it back.
IInv ==
  /\ TypeOK
  /\ Sound(table)
  /\ NoDescriptorLost
  /\ direct \/ phase = "sys_init" => held = {}
  /\ phase = "sys_init" => Fresh(table)
  /\ StreamsConnected

-----------------------------------------------------------------------------
(* The lists                                                               *)

\* A set of numbers that is not empty has a least one.
LEMMA Least ==
  ASSUME NEW S \in SUBSET Nat, S # {}
  PROVE  \E m \in S : \A n \in S : m <= n
  <1>1. PICK m \in S : \A n \in S : ~(<<n, m>> \in OpToRel(<, Nat))
    BY WFMin, NatLessThanWellFounded
  <1>2. \A n \in S : ~(n < m)
    BY <1>1 DEF OpToRel
  <1>3. QED
    BY <1>2

\* alt_find_dev answers with an entry of the list it searches, or NULL.
LEMMA FindDevType ==
  ASSUME NEW D, NEW list \in Seq(D), NEW name
  PROVE  alt_find_dev(name, list) \in D \cup {None}
  <1> DEFINE M == {i \in DOMAIN list : NameOf[list[i]] = name}
  <1>1. CASE M = {}
    BY <1>1 DEF alt_find_dev, FirstMatch
  <1>2. CASE M # {}
    <2>1. M \subseteq Nat /\ DOMAIN list = 1 .. Len(list) /\ Len(list) \in Nat
      OBVIOUS
    <2>2. PICK m \in M : \A n \in M : m <= n
      BY <1>2, <2>1, Least
    <2>3. m \in DOMAIN list /\ NameOf[list[m]] = name /\ \A j \in 1 .. m - 1 : NameOf[list[j]] # name
      BY <2>1, <2>2
    <2> DEFINE P(i) == NameOf[list[i]] = name /\ \A j \in 1 .. i - 1 : ~(NameOf[list[j]] = name)
               c == CHOOSE i \in DOMAIN list : P(i)
    <2>4. c \in DOMAIN list
      BY <2>3
    <2>5. alt_find_dev(name, list) = list[c]
      BY <1>2 DEF alt_find_dev, FirstMatch
    <2>6. list[c] \in D
      BY <2>1, <2>4
    <2>7. QED
      BY <2>5, <2>6
  <1>3. QED
    BY <1>1, <1>2

\* alt_find_file answers with a registered file system, or NULL.
LEMMA FindFileType ==
  ASSUME NEW D, fs_list \in Seq(D), NEW name
  PROVE  alt_find_file(name) \in D \cup {None}
  <1> DEFINE M == {i \in DOMAIN fs_list : IsPrefix(NameOf[fs_list[i]], name)}
  <1>1. CASE M = {}
    BY <1>1 DEF alt_find_file, FirstMatch
  <1>2. CASE M # {}
    <2>1. M \subseteq Nat /\ DOMAIN fs_list = 1 .. Len(fs_list) /\ Len(fs_list) \in Nat
      OBVIOUS
    <2>2. PICK m \in M : \A n \in M : m <= n
      BY <1>2, <2>1, Least
    <2>3. /\ m \in DOMAIN fs_list /\ IsPrefix(NameOf[fs_list[m]], name)
          /\ \A j \in 1 .. m - 1 : ~IsPrefix(NameOf[fs_list[j]], name)
      BY <2>1, <2>2
    <2> DEFINE P(i) == /\ IsPrefix(NameOf[fs_list[i]], name)
                       /\ \A j \in 1 .. i - 1 : ~IsPrefix(NameOf[fs_list[j]], name)
               c == CHOOSE i \in DOMAIN fs_list : P(i)
    <2>4. c \in DOMAIN fs_list
      BY <2>3
    <2>5. alt_find_file(name) = fs_list[c]
      BY <1>2 DEF alt_find_file, FirstMatch
    <2>6. fs_list[c] \in D
      BY <2>1, <2>4
    <2>7. QED
      BY <2>5, <2>6
  <1>3. QED
    BY <1>1, <1>2

\* A name refers to a device, to a file system, or to nothing.
LEMMA NamedType ==
  ASSUME TypeOK, NEW name
  PROVE  /\ Named(name) \in Drivers \cup {None}
         /\ alt_find_dev(name, dev_list) \in (Drivers \ Mounted) \cup {None}
         /\ alt_find_file(name) \in Mounted \cup {None}
  <1>1. alt_find_dev(name, dev_list) \in (Drivers \ Mounted) \cup {None}
    BY FindDevType DEF TypeOK
  <1>2. alt_find_file(name) \in Mounted \cup {None}
    BY FindFileType DEF TypeOK
  <1>3. QED
    BY <1>1, <1>2, DriversAssumption DEF Named

-----------------------------------------------------------------------------
(* The table                                                               *)

\* u is t with the free descriptor fd opened on d.
Opens(t, u, fd, d) ==
  /\ u \in Tables /\ fd \in Fd /\ fd > 2
  /\ t.fds[fd].dev = None
  /\ u.fds[fd].dev = d
  /\ \A i \in Fd \ {fd} : u.fds[i] = t.fds[i]
  /\ fd <= u.max_fd /\ t.max_fd <= u.max_fd
  /\ u.fds[fd].flags \subseteq {"DEV"}
  /\ "DEV" \in u.fds[fd].flags => d \in Drivers \ Mounted

\* u is t, but for descriptors that are free in both and for alt_max_fd.
Same(t, u) ==
  /\ u \in Tables
  /\ \A i \in Fd : u.fds[i] = t.fds[i] \/ (t.fds[i].dev = None /\ u.fds[i] = Closed)
  /\ t.max_fd <= u.max_fd

\* The fields of a table.
LEMMA TableFields ==
  ASSUME NEW t \in Tables
  PROVE  /\ t.fds \in [Fd -> Descriptors]
         /\ t.max_fd \in Int /\ t.max_fd \in {-1} \cup Fd
         /\ t = [fds |-> t.fds, max_fd |-> t.max_fd]
         /\ Fd \subseteq Int
  BY MaxFdAssumption DEF Tables, Fd

\* The standard descriptors are descriptors.
LEMMA Streams == 0 \in Fd /\ 1 \in Fd /\ 2 \in Fd /\ -1 \notin Fd /\ Fd \subseteq Int
                 /\ \A fd \in Fd : fd > 2 \/ fd \in 0 .. 2
  BY MaxFdAssumption DEF Fd

\* An entry that is free again.
LEMMA ClosedType == Closed \in Descriptors /\ Closed.dev = None /\ Closed.flags = {}
  BY DEF Closed, Descriptors, AccModes

\* A table with one entry replaced.
LEMMA ReplaceEntry ==
  ASSUME NEW t \in Tables, NEW fd \in Fd, NEW x \in Descriptors
  PROVE  LET u == [t EXCEPT !.fds[fd] = x]
         IN  /\ u \in Tables /\ u.max_fd = t.max_fd /\ u.fds[fd] = x
             /\ \A i \in Fd \ {fd} : u.fds[i] = t.fds[i]
  BY TableFields DEF Tables

\* How open() fills an entry.
SetEntry(t, fd, a, f) == [t EXCEPT !.fds[fd].acc = a, !.fds[fd].flags = f]

\* The table with the entry filled.
LEMMA SetEntryEffect ==
  ASSUME NEW t \in Tables, NEW fd \in Fd, NEW a \in AccModes,
         NEW f \in SUBSET (Marks \cup FcntlFlags)
  PROVE  LET u == SetEntry(t, fd, a, f)
         IN  /\ u \in Tables /\ u.max_fd = t.max_fd
             /\ u.fds[fd].dev = t.fds[fd].dev /\ u.fds[fd].flags = f
             /\ \A i \in Fd \ {fd} : u.fds[i] = t.fds[i]
  <1> DEFINE F == t.fds
             x == F[fd]
             y == [x EXCEPT !.acc = a, !.flags = f]
  <1>1. F \in [Fd -> Descriptors] /\ x \in Descriptors /\ t = [fds |-> F, max_fd |-> t.max_fd]
    BY TableFields
  <1>2. [F EXCEPT ![fd].acc = a][fd] = [x EXCEPT !.acc = a]
    BY <1>1
  <1>3. [[x EXCEPT !.acc = a] EXCEPT !.flags = f] = y
    BY <1>1 DEF Descriptors
  <1>4. [F EXCEPT ![fd].acc = a, ![fd].flags = f] = [F EXCEPT ![fd] = y]
    <2> DEFINE G == [F EXCEPT ![fd].acc = a]
    <2>1. G = [F EXCEPT ![fd] = [x EXCEPT !.acc = a]]
      OBVIOUS
    <2>2. [G EXCEPT ![fd].flags = f] = [G EXCEPT ![fd] = y]
      BY <1>2, <1>3
    <2>3. QED
      BY <1>1, <2>1, <2>2
  <1>5. SetEntry(t, fd, a, f) = [t EXCEPT !.fds[fd] = y]
    BY <1>1, <1>4 DEF SetEntry
  <1>6. y \in Descriptors /\ y.dev = x.dev /\ y.flags = f
    BY <1>1 DEF Descriptors
  <1> HIDE DEF y, x, F
  <1>7. QED
    BY <1>5, <1>6, ReplaceEntry DEF x, F

\* alt_get_fd takes the first free descriptor, and raises alt_max_fd to it.
LEMMA GetFd ==
  ASSUME NEW t \in Tables, NEW d \in Drivers
  PROVE  LET got == alt_get_fd(t, d)
         IN  \/ /\ \A i \in Fd : t.fds[i].dev # None
                /\ got.t = t /\ got.ret = -1
             \/ /\ got.ret \in Fd /\ got.t \in Tables
                /\ t.fds[got.ret].dev = None
                /\ got.t.fds[got.ret].dev = d
                /\ \A i \in Fd \ {got.ret} : got.t.fds[i] = t.fds[i]
                /\ got.ret <= got.t.max_fd /\ t.max_fd <= got.t.max_fd
  <1> DEFINE free == {i \in Fd : t.fds[i].dev = None}
             f == CHOOSE i \in free : \A j \in free : i <= j
             m == IF f > t.max_fd THEN f ELSE t.max_fd
             got == alt_get_fd(t, d)
  <1>1. CASE free = {}
    BY <1>1 DEF alt_get_fd
  <1>2. CASE free # {}
    <2>1. free \in SUBSET Nat
      BY DEF Fd
    <2>2. \E i \in free : \A j \in free : i <= j
      BY <1>2, <2>1, Least
    <2>3. f \in free
      BY <2>2
    <2> HIDE DEF f
    <2>4. f \in Fd /\ t.fds[f].dev = None
      BY <2>3
    <2>5. got = [t |-> [t EXCEPT !.fds[f].dev = d, !.max_fd = m], ret |-> f]
      BY <1>2 DEF alt_get_fd, f
    <2> HIDE DEF got, free
    <2>6. got.ret = f /\ got.t = [t EXCEPT !.fds[f].dev = d, !.max_fd = m]
      BY <2>5
    <2>7. m \in {-1} \cup Fd /\ f <= m /\ t.max_fd <= m
      BY <2>4, TableFields
    <2> HIDE DEF m
    <2>8. /\ t.fds \in [Fd -> Descriptors] /\ t = [fds |-> t.fds, max_fd |-> t.max_fd]
      BY TableFields
    <2>9. got.t = [fds |-> [t.fds EXCEPT ![f].dev = d], max_fd |-> m]
      BY <2>4, <2>6, <2>8
    <2>10. [t.fds[f] EXCEPT !.dev = d] \in Descriptors /\ [t.fds[f] EXCEPT !.dev = d].dev = d
      BY <2>4, <2>8 DEF Descriptors
    <2>11. [t.fds EXCEPT ![f].dev = d] \in [Fd -> Descriptors]
      BY <2>8, <2>10
    <2>12. /\ got.t \in Tables /\ got.t.fds[f].dev = d /\ got.t.max_fd = m
           /\ \A i \in Fd \ {f} : got.t.fds[i] = t.fds[i]
      BY <2>4, <2>7, <2>8, <2>9, <2>10, <2>11 DEF Tables
    <2>13. QED
      BY <2>4, <2>6, <2>7, <2>12 DEF got
  <1>3. QED
    BY <1>1, <1>2

\* alt_file_locked sees every lock of the device of fd but its own.
LEMMA LockSeen ==
  ASSUME NEW t, Sound(t), NEW fd \in Fd, NEW i \in Fd,
         i # fd, t.fds[i].dev = t.fds[fd].dev, Locked(t, i)
  PROVE  alt_file_locked(t, fd)
  <1>1. t.fds[i].flags \cap Marks # {}
    BY DEF Locked, Marks
  <1>2. i <= t.max_fd
    BY <1>1 DEF Sound
  <1>3. i \in 0 .. t.max_fd
    BY <1>2, TableFields DEF Fd, Sound
  <1>4. QED
    BY <1>3 DEF alt_file_locked, Locked

-----------------------------------------------------------------------------
(* open()                                                                  *)

\* What stands in the way of opening name.
Refused(t, name) ==
  \/ direct
  \/ Named(name) = None
  \/ \A i \in Fd : t.fds[i].dev # None
  \/ \E i \in Fd : Locked(t, i)
  \/ "open" \in OpsOf[Named(name)]

\* A failed open() gives its descriptor back, a successful one takes a free
\* descriptor for what the name refers to, and not if that is locked.
OpenOutcome(t, name, r) ==
  \/ r.ret = -1 /\ Same(t, r.t) /\ Refused(t, name)
  \/ /\ Opens(t, r.t, r.ret, Named(name))
     /\ ~direct /\ Named(name) \in Drivers
     /\ \A i \in Fd : Locked(t, i) => t.fds[i].dev # Named(name)

\* A table with an opened descriptor is sound.
LEMMA OpensSound ==
  ASSUME NEW t, Sound(t), NEW u, NEW fd, NEW d \in Drivers, Opens(t, u, fd, d)
  PROVE  Sound(u)
  <1>1. t \in Tables /\ u \in Tables /\ fd \in Fd /\ fd > 2
    BY DEF Sound, Opens
  <1>2. t.max_fd \in Int /\ u.max_fd \in Int /\ Fd \subseteq Int
    BY <1>1, TableFields
  <1>3. ASSUME NEW i \in 0 .. 2 PROVE u.fds[i].dev # None
    <2>1. i \in Fd \ {fd}
      BY <1>1, Streams
    <2>2. QED
      BY <2>1 DEF Sound, Opens
  <1>4. ASSUME NEW i \in Fd, u.fds[i].flags \cap Marks # {}
        PROVE  i <= u.max_fd /\ u.fds[i].dev \in Drivers \ Mounted
    <2>1. CASE i = fd
      BY <1>4, <2>1 DEF Opens
    <2>2. CASE i # fd
      <3>1. u.fds[i] = t.fds[i] /\ t.max_fd <= u.max_fd
        BY <2>2 DEF Opens
      <3>2. i <= t.max_fd /\ t.fds[i].dev \in Drivers \ Mounted
        BY <1>4, <3>1 DEF Sound
      <3>3. QED
        BY <1>2, <3>1, <3>2
    <2>3. QED
      BY <2>1, <2>2
  <1>5. QED
    BY <1>1, <1>3, <1>4 DEF Sound

\* Giving an opened descriptor back leaves the table as it was.
LEMMA OpenThenRelease ==
  ASSUME NEW t, Sound(t), NEW u, NEW fd, NEW d, Opens(t, u, fd, d)
  PROVE  Same(t, alt_release_fd(u, fd))
  <1>1. u \in Tables /\ fd \in Fd /\ fd > 2
    BY DEF Opens
  <1>2. alt_release_fd(u, fd) = [u EXCEPT !.fds[fd] = Closed]
    BY <1>1 DEF alt_release_fd
  <1> DEFINE v == alt_release_fd(u, fd)
  <1>3. /\ v \in Tables /\ v.max_fd = u.max_fd /\ v.fds[fd] = Closed
        /\ \A i \in Fd \ {fd} : v.fds[i] = u.fds[i]
    BY <1>1, <1>2, ClosedType, ReplaceEntry
  <1> HIDE DEF v
  <1>4. QED
    BY <1>3 DEF Same, Opens, v

\* open(), whatever it is asked for.
LEMMA OpenEffect ==
  ASSUME TypeOK, NEW t, Sound(t), NEW name, NEW acc \in AccModes,
         NEW flags, flags \ Marks = {}, NEW ok \in BOOLEAN
  PROVE  OpenOutcome(t, name, ALT_OPEN(t, name, acc, flags, ok))
  <1> DEFINE dev == alt_find_dev(name, dev_list)
             isafs == dev = None
             d == IF isafs THEN alt_find_file(name) ELSE dev
             got == alt_get_fd(t, d)
             fd == got.ret
             mine == flags \ Marks
             u == [got.t EXCEPT !.fds[fd].acc = acc,
                         !.fds[fd].flags = IF isafs THEN mine ELSE mine \cup {"DEV"}]
             r == ALT_OPEN(t, name, acc, flags, ok)
  <1>1. t \in Tables /\ Same(t, t)
    <2>1. t \in Tables
      BY DEF Sound
    <2>2. QED
      BY <2>1, TableFields DEF Same
  <1>2. d = Named(name) /\ d \in Drivers \cup {None} /\ (~isafs => d \in Drivers \ Mounted)
    BY NamedType DEF Named
  <1>3. CASE direct
    <2>1. r.ret = -1 /\ r.t = t
      BY <1>3 DEF ALT_OPEN, Fails
    <2>2. QED
      BY <1>1, <1>3, <2>1 DEF OpenOutcome, Refused
  <1>4. CASE ~direct /\ d = None
    <2>1. r.ret = -1 /\ r.t = t
      BY <1>4 DEF ALT_OPEN, Fails
    <2>2. QED
      BY <1>1, <1>2, <1>4, <2>1 DEF OpenOutcome, Refused
  <1>5. CASE ~direct /\ d # None /\ fd = -1
    <2>1. r.ret = -1 /\ r.t = got.t
      BY <1>5 DEF ALT_OPEN, Fails
    <2>2. d \in Drivers
      BY <1>2, <1>5
    <2> HIDE DEF d, r
    <2>3. got.t = t /\ \A i \in Fd : t.fds[i].dev # None
      BY <1>1, <1>5, <2>2, GetFd, Streams
    <2>4. QED
      BY <1>1, <2>1, <2>3 DEF OpenOutcome, Refused, r
  <1>6. CASE ~direct /\ d # None /\ fd # -1
    <2>1. d \in Drivers
      BY <1>2, <1>6
    <2>2. r = IF ~isafs /\ alt_file_locked(u, fd) THEN Fails(alt_release_fd(u, fd), "EACCES")
              ELSE IF "open" \in OpsOf[d] /\ ~ok THEN Fails(alt_release_fd(u, fd), "EIO")
              ELSE Returns(u, fd)
      BY <1>6 DEF ALT_OPEN
    <2> DEFINE fl == IF isafs THEN {} ELSE {"DEV"}
    <2> HIDE DEF d, r, isafs
    <2>3. /\ fd \in Fd /\ got.t \in Tables
          /\ t.fds[fd].dev = None
          /\ got.t.fds[fd].dev = d
          /\ \A i \in Fd \ {fd} : got.t.fds[i] = t.fds[i]
          /\ fd <= got.t.max_fd /\ t.max_fd <= got.t.max_fd
      BY <1>1, <1>6, <2>1, GetFd
    <2>4. u = [got.t EXCEPT !.fds[fd].acc = acc, !.fds[fd].flags = fl]
      BY DEF isafs
    <2> HIDE DEF got, fd, u, fl
    <2>5. Opens(t, u, fd, d) /\ u.fds[fd].flags = fl
      <3>1. fd > 2
        BY <2>3, Streams DEF Sound
      <3>2. u = SetEntry(got.t, fd, acc, fl)
        BY <2>4 DEF SetEntry
      <3>3. fl \in SUBSET (Marks \cup FcntlFlags)
        BY DEF Marks, fl
      <3>4. /\ u \in Tables /\ u.max_fd = got.t.max_fd
            /\ u.fds[fd].dev = d /\ u.fds[fd].flags = fl
            /\ \A i \in Fd \ {fd} : u.fds[i] = got.t.fds[i]
        BY <2>3, <3>2, <3>3, SetEntryEffect
      <3>5. fl \subseteq {"DEV"} /\ ("DEV" \in fl => d \in Drivers \ Mounted)
        BY <1>2 DEF isafs, d, fl
      <3>6. QED
        BY <2>3, <3>1, <3>4, <3>5 DEF Opens
    <2>6. Sound(u) /\ Same(t, alt_release_fd(u, fd))
      BY <2>1, <2>5, OpensSound, OpenThenRelease
    <2>7. CASE ~isafs /\ alt_file_locked(u, fd)
      <3>1. r.ret = -1 /\ r.t = alt_release_fd(u, fd)
        BY <2>2, <2>7 DEF Fails
      <3>2. PICK i \in 0 .. u.max_fd : u.fds[i].dev = d /\ "EXCL" \in u.fds[i].flags /\ i # fd
        BY <2>5, <2>7 DEF alt_file_locked, Opens
      <3>3. i \in Fd
        <4>1. u.max_fd \in {-1} \cup Fd
          BY <2>6, TableFields DEF Sound
        <4>2. QED
          BY <4>1, MaxFdAssumption DEF Fd
      <3>4. Locked(t, i)
        BY <2>5, <3>2, <3>3 DEF Opens, Locked
      <3>5. QED
        BY <2>6, <3>1, <3>3, <3>4 DEF OpenOutcome, Refused, r
    <2>8. CASE ~(~isafs /\ alt_file_locked(u, fd)) /\ "open" \in OpsOf[d] /\ ~ok
      <3>1. r.ret = -1 /\ r.t = alt_release_fd(u, fd)
        BY <2>2, <2>8 DEF Fails
      <3>2. "open" \in OpsOf[Named(name)]
        BY <1>2, <2>8 DEF d
      <3>3. QED
        BY <2>6, <3>1, <3>2 DEF OpenOutcome, Refused, r
    <2>9. CASE ~(~isafs /\ alt_file_locked(u, fd)) /\ ~("open" \in OpsOf[d] /\ ~ok)
      <3>1. r.ret = fd /\ r.t = u
        BY <2>2, <2>9 DEF Returns
      <3>2. ASSUME NEW i \in Fd, Locked(t, i) PROVE t.fds[i].dev # d
        <4>1. SUFFICES ASSUME t.fds[i].dev = d PROVE FALSE
          OBVIOUS
        <4>2. d \in Drivers \ Mounted
          BY <3>2, <4>1 DEF Sound, Locked, Marks
        <4>3. ~isafs
          BY <1>2, <4>2, NamedType, DriversAssumption DEF d, isafs
        <4>4. i # fd /\ u.fds[i] = t.fds[i]
          BY <2>1, <2>3, <2>5, <4>1, DriversAssumption DEF Opens
        <4>5. alt_file_locked(u, fd)
          BY <2>3, <2>5, <2>6, <3>2, <4>1, <4>4, LockSeen DEF Opens, Locked
        <4>6. QED
          BY <2>9, <4>3, <4>5
      <3>3. d = Named(name)
        BY <1>2 DEF d
      <3>4. QED
        BY <1>6, <2>1, <2>5, <3>1, <3>2, <3>3 DEF OpenOutcome, r
    <2>10. QED
      BY <2>7, <2>8, <2>9
  <1>7. QED
    BY <1>3, <1>4, <1>5, <1>6

-----------------------------------------------------------------------------
(* What a call leaves behind                                               *)

\* While a device is locked, no further descriptor refers to it.
LocksRespected(t, u) ==
  \A i \in Fd, fd \in Fd :
    Locked(t, i) /\ t.fds[i].dev # None /\ u.fds[fd].dev = t.fds[i].dev =>
      t.fds[fd].dev = t.fds[i].dev

\* u is what a call makes of t, and S the descriptors then taken.
CallOutcome(t, u, S) ==
  /\ Sound(u)
  /\ Taken(u) = S
  /\ \A fd \in 0 .. 2 : u.fds[fd].dev = t.fds[fd].dev
  /\ LocksRespected(t, u)

\* A call that opens and closes nothing, or gives back what it took.
LEMMA SameOutcome ==
  ASSUME NEW t, Sound(t), NEW u, Same(t, u)
  PROVE  CallOutcome(t, u, Taken(t))
  <1>1. t \in Tables /\ u \in Tables
    BY DEF Sound, Same
  <1>2. t.max_fd \in Int /\ u.max_fd \in Int /\ Fd \subseteq Int /\ t.max_fd <= u.max_fd
    BY <1>1, TableFields DEF Same
  <1>3. \A i \in Fd : u.fds[i] = t.fds[i] \/ (t.fds[i].dev = None /\ u.fds[i].dev = None /\ u.fds[i].flags = {})
    BY ClosedType DEF Same
  <1>4. \A fd \in 0 .. 2 : u.fds[fd].dev = t.fds[fd].dev
    BY <1>3, Streams DEF Sound
  <1>5. ASSUME NEW i \in Fd, u.fds[i].flags \cap Marks # {}
        PROVE  i <= u.max_fd /\ u.fds[i].dev \in Drivers \ Mounted
    <2>1. u.fds[i] = t.fds[i]
      BY <1>3, <1>5
    <2>2. i <= t.max_fd /\ t.fds[i].dev \in Drivers \ Mounted
      BY <1>5, <2>1 DEF Sound
    <2>3. QED
      BY <1>2, <2>1, <2>2
  <1>6. Sound(u)
    BY <1>1, <1>4, <1>5 DEF Sound
  <1>7. Taken(u) = Taken(t)
    BY <1>3 DEF Taken
  <1>8. LocksRespected(t, u)
    BY <1>3 DEF LocksRespected
  <1>9. QED
    BY <1>4, <1>6, <1>7, <1>8 DEF CallOutcome

\* A call that leaves the table alone.
LEMMA IdleOutcome ==
  ASSUME NEW t, Sound(t)
  PROVE  Same(t, t) /\ CallOutcome(t, t, Taken(t))
  <1>1. Same(t, t)
    BY TableFields DEF Same, Sound
  <1>2. QED
    BY <1>1, SameOutcome

\* A call that opens a descriptor.
LEMMA OpensOutcome ==
  ASSUME NEW t, Sound(t), NEW u, NEW fd, NEW d \in Drivers, Opens(t, u, fd, d),
         \A i \in Fd : Locked(t, i) => t.fds[i].dev # d
  PROVE  CallOutcome(t, u, Taken(t) \cup {fd})
  <1>1. Sound(u)
    BY OpensSound
  <1>2. d # None
    BY DriversAssumption
  <1>3. \A i \in 0 .. 2 : u.fds[i].dev = t.fds[i].dev
    BY Streams DEF Opens
  <1>4. Taken(u) = Taken(t) \cup {fd}
    BY <1>2 DEF Opens, Taken
  <1>5. LocksRespected(t, u)
    BY DEF Opens, LocksRespected
  <1>6. QED
    BY <1>1, <1>3, <1>4, <1>5 DEF CallOutcome

\* alt_release_fd frees a descriptor unless it is a standard stream.
LEMMA ReleaseOutcome ==
  ASSUME NEW t, Sound(t), NEW fd \in Fd
  PROVE  CallOutcome(t, alt_release_fd(t, fd), Taken(t) \ {fd})
  <1> DEFINE u == alt_release_fd(t, fd)
  <1>1. CASE fd > 2
    <2>1. t \in Tables
      BY DEF Sound
    <2>2. /\ u \in Tables /\ u.max_fd = t.max_fd /\ u.fds[fd] = Closed
          /\ \A i \in Fd \ {fd} : u.fds[i] = t.fds[i]
      BY <1>1, <2>1, ClosedType, ReplaceEntry DEF alt_release_fd
    <2> HIDE DEF u
    <2>3. u.fds[fd].dev = None /\ u.fds[fd].flags = {}
      BY <2>2, ClosedType
    <2>4. \A i \in 0 .. 2 : u.fds[i].dev = t.fds[i].dev
      BY <1>1, <2>2, Streams
    <2>5. ASSUME NEW i \in Fd, u.fds[i].flags \cap Marks # {}
          PROVE  i <= u.max_fd /\ u.fds[i].dev \in Drivers \ Mounted
      BY <2>2, <2>3, <2>5 DEF Sound
    <2>6. Sound(u)
      BY <2>2, <2>4, <2>5 DEF Sound
    <2>7. Taken(u) = Taken(t) \ {fd}
      BY <2>2, <2>3 DEF Taken
    <2>8. LocksRespected(t, u)
      BY <2>2, <2>3 DEF LocksRespected
    <2>9. QED
      BY <2>4, <2>6, <2>7, <2>8 DEF CallOutcome, u
  <1>2. CASE ~(fd > 2)
    <2>1. u = t /\ Taken(t) \ {fd} = Taken(t)
      BY <1>2 DEF alt_release_fd, Taken
    <2>2. QED
      BY <2>1, IdleOutcome
  <1>3. QED
    BY <1>1, <1>2

\* A call that changes the flags of a descriptor, and no mark unless the
\* descriptor has one.
LEMMA FlagsOutcome ==
  ASSUME NEW t, Sound(t), NEW fd \in Fd, NEW f \in SUBSET (Marks \cup FcntlFlags),
         f \cap Marks # {} => t.fds[fd].flags \cap Marks # {}
  PROVE  CallOutcome(t, [t EXCEPT !.fds[fd].flags = f], Taken(t))
  <1> DEFINE x == [t.fds[fd] EXCEPT !.flags = f]
             u == [t EXCEPT !.fds[fd].flags = f]
  <1>1. t \in Tables
    BY DEF Sound
  <1>2. t.fds \in [Fd -> Descriptors]
    BY <1>1, TableFields
  <1>3. x \in Descriptors /\ x.dev = t.fds[fd].dev /\ x.flags = f
    BY <1>2 DEF Descriptors
  <1>4. u = [t EXCEPT !.fds[fd] = x]
    OBVIOUS
  <1> HIDE DEF x, u
  <1>5. /\ u \in Tables /\ u.max_fd = t.max_fd /\ u.fds[fd] = x
        /\ \A i \in Fd \ {fd} : u.fds[i] = t.fds[i]
    BY <1>1, <1>3, <1>4, ReplaceEntry
  <1>6. \A i \in Fd : u.fds[i].dev = t.fds[i].dev
    BY <1>3, <1>5
  <1>7. \A i \in 0 .. 2 : u.fds[i].dev = t.fds[i].dev
    BY <1>6, Streams
  <1>8. ASSUME NEW i \in Fd, u.fds[i].flags \cap Marks # {}
        PROVE  i <= u.max_fd /\ u.fds[i].dev \in Drivers \ Mounted
    <2>1. t.fds[i].flags \cap Marks # {}
      BY <1>3, <1>5, <1>8
    <2>2. QED
      BY <1>5, <1>6, <2>1 DEF Sound
  <1>9. Sound(u)
    BY <1>5, <1>7, <1>8 DEF Sound
  <1>10. Taken(u) = Taken(t)
    BY <1>6 DEF Taken
  <1>11. LocksRespected(t, u)
    BY <1>6 DEF LocksRespected
  <1>12. QED
    BY <1>7, <1>9, <1>10, <1>11 DEF CallOutcome, u

-----------------------------------------------------------------------------
(* The calls of the program                                                *)

Called ==
  /\ phase # "sys_init"
  /\ UNCHANGED <<direct, phase, left, dev_list, fs_list>>
  /\ CallOutcome(table, table', held')
  /\ direct => held' = {}

\* What the program holds is what is taken; its other descriptors are the
\* standard streams, and -1.
LEMMA HeldFacts ==
  ASSUME IInv
  PROVE  /\ TypeOK /\ Sound(table) /\ table \in Tables
         /\ Taken(table) = held /\ (direct => held = {})
         /\ \A fd \in Usable : fd < 0 \/ fd \in Fd
         /\ \A fd \in Usable : fd = -1 \/ fd \in Fd
  BY Streams DEF IInv, NoDescriptorLost, Taken, Usable, TypeOK

\* open() holds one descriptor more, or none.
LEMMA OpenCalled == IInv /\ Open => Called
  <1> SUFFICES ASSUME IInv, Open PROVE Called
    OBVIOUS
  <1>1. PICK name \in Names, acc \in OpenModes, flags \in {{}, {"EXCL"}}, ok \in BOOLEAN :
          /\ Does(ALT_OPEN(table, name, acc, flags, ok))
          /\ held' = held \cup ({ALT_OPEN(table, name, acc, flags, ok).ret} \ {-1})
    BY DEF Open
  <1> DEFINE r == ALT_OPEN(table, name, acc, flags, ok)
  <1>2. OpenOutcome(table, name, r)
    BY HeldFacts, OpenEffect, NamesAssumption DEF Marks
  <1> HIDE DEF r
  <1>3. table' = r.t /\ held' = held \cup ({r.ret} \ {-1})
    BY <1>1 DEF Does, r
  <1>4. /\ phase # "sys_init"
        /\ UNCHANGED <<direct, phase, left, dev_list, fs_list>>
    BY <1>1 DEF Does, Open, Running
  <1>5. CASE r.ret = -1 /\ Same(table, r.t)
    <2>1. CallOutcome(table, table', held) /\ held' = held
      BY <1>3, <1>5, SameOutcome, HeldFacts
    <2>2. QED
      BY <1>4, <2>1, HeldFacts DEF Called
  <1>6. CASE /\ Opens(table, r.t, r.ret, Named(name))
             /\ ~direct /\ Named(name) \in Drivers
             /\ \A i \in Fd : Locked(table, i) => table.fds[i].dev # Named(name)
    <2>1. r.ret \in Fd /\ r.ret # -1
      BY <1>6, Streams DEF Opens
    <2>2. CallOutcome(table, table', held \cup {r.ret}) /\ held' = held \cup {r.ret}
      BY <1>3, <1>6, <2>1, OpensOutcome, HeldFacts
    <2>3. QED
      BY <1>4, <1>6, <2>2 DEF Called
  <1>7. QED
    BY <1>2, <1>5, <1>6 DEF OpenOutcome

\* close(), on a descriptor of the program or on -1.
LEMMA CloseEffect ==
  ASSUME NEW t, Sound(t), NEW fd, fd \in Fd \/ fd = -1, NEW ok \in BOOLEAN
  PROVE  LET u == ALT_CLOSE(t, fd, ok).t
         IN  CallOutcome(t, u, IF direct THEN Taken(t) ELSE Taken(t) \ {fd})
  <1> DEFINE u == ALT_CLOSE(t, fd, ok).t
  <1>1. CASE direct
    <2>1. u = t
      BY <1>1 DEF ALT_CLOSE, Fails
    <2>2. QED
      BY <1>1, <2>1, IdleOutcome
  <1>2. CASE ~direct /\ fd = -1
    <2>1. u = t /\ Taken(t) \ {fd} = Taken(t)
      BY <1>2, Streams DEF ALT_CLOSE, Fails, Taken
    <2>2. QED
      BY <1>2, <2>1, IdleOutcome
  <1>3. CASE ~direct /\ fd \in Fd
    <2>1. ~(fd < 0)
      BY <1>3 DEF Fd
    <2>2. u = alt_release_fd(t, fd)
      BY <1>3, <2>1 DEF ALT_CLOSE, Driver, Fails, Returns
    <2>3. QED
      BY <1>3, <2>2, ReleaseOutcome
  <1>4. QED
    BY <1>1, <1>2, <1>3

\* close() lets go of the descriptor, also if the driver reports an error.
LEMMA CloseCalled == IInv /\ Close => Called
  <1> SUFFICES ASSUME IInv, Close PROVE Called
    OBVIOUS
  <1>1. PICK fd \in Usable, ok \in BOOLEAN :
          Does(ALT_CLOSE(table, fd, ok)) /\ held' = held \ {fd}
    BY DEF Close
  <1>2. /\ phase # "sys_init"
        /\ UNCHANGED <<direct, phase, left, dev_list, fs_list>>
        /\ table' = ALT_CLOSE(table, fd, ok).t
    BY <1>1 DEF Does, Close, Running
  <1>3. CallOutcome(table, table', IF direct THEN held ELSE held \ {fd})
    BY <1>2, HeldFacts, CloseEffect
  <1>4. CallOutcome(table, table', held') /\ (direct => held' = {})
    BY <1>1, <1>3, HeldFacts
  <1>5. QED
    BY <1>2, <1>4 DEF Called

\* ioctl() locks and unlocks descriptors of devices, and no others.
LEMMA IoctlEffect ==
  ASSUME NEW t, Sound(t), NEW fd, fd \in Fd \/ fd = -1, NEW req, NEW ok \in BOOLEAN
  PROVE  CallOutcome(t, ALT_IOCTL(t, fd, req, ok).t, Taken(t))
  <1> DEFINE u == ALT_IOCTL(t, fd, req, ok).t
  <1>1. CASE direct \/ fd = -1 \/ "DEV" \notin t.fds[fd].flags
             \/ (req # "TIOCEXCL" /\ req # "TIOCNXCL")
    <2>1. u = t
      BY <1>1 DEF ALT_IOCTL, Driver, Fails, Returns
    <2>2. QED
      BY <2>1, IdleOutcome
  <1>2. CASE ~direct /\ fd \in Fd /\ "DEV" \in t.fds[fd].flags /\ req \in {"TIOCEXCL", "TIOCNXCL"}
    <2> DEFINE f == t.fds[fd].flags
    <2>1. ~(fd < 0)
      BY <1>2 DEF Fd
    <2>2. f \in SUBSET (Marks \cup FcntlFlags) /\ f \cap Marks # {}
      BY <1>2, TableFields DEF Sound, Descriptors, Marks
    <2>3. \/ u = t
          \/ u = [t EXCEPT !.fds[fd].flags = f \cup {"EXCL"}]
          \/ u = [t EXCEPT !.fds[fd].flags = f \ {"EXCL"}]
      <3>1. CASE req = "TIOCEXCL"
        BY <1>2, <2>1, <3>1 DEF ALT_IOCTL, alt_fd_lock, Fails, Returns
      <3>2. CASE req = "TIOCNXCL"
        BY <1>2, <2>1, <3>2 DEF ALT_IOCTL, alt_fd_unlock, Returns
      <3>3. QED
        BY <1>2, <3>1, <3>2
    <2>4. f \cup {"EXCL"} \in SUBSET (Marks \cup FcntlFlags)
      BY <2>2 DEF Marks
    <2>5. f \ {"EXCL"} \in SUBSET (Marks \cup FcntlFlags)
      BY <2>2
    <2>6. CallOutcome(t, t, Taken(t))
      BY IdleOutcome
    <2>7. CallOutcome(t, [t EXCEPT !.fds[fd].flags = f \cup {"EXCL"}], Taken(t))
      <3> DEFINE g == f \cup {"EXCL"}
      <3>1. fd \in Fd /\ g \in SUBSET (Marks \cup FcntlFlags) /\ t.fds[fd].flags \cap Marks # {}
        BY <1>2, <2>2, <2>4
      <3> HIDE DEF g
      <3>2. CallOutcome(t, [t EXCEPT !.fds[fd].flags = g], Taken(t))
        BY <3>1, FlagsOutcome
      <3>3. QED
        BY <3>2 DEF g
    <2>8. CallOutcome(t, [t EXCEPT !.fds[fd].flags = f \ {"EXCL"}], Taken(t))
      <3> DEFINE g == f \ {"EXCL"}
      <3>1. fd \in Fd /\ g \in SUBSET (Marks \cup FcntlFlags) /\ t.fds[fd].flags \cap Marks # {}
        BY <1>2, <2>2, <2>5
      <3> HIDE DEF g
      <3>2. CallOutcome(t, [t EXCEPT !.fds[fd].flags = g], Taken(t))
        BY <3>1, FlagsOutcome
      <3>3. QED
        BY <3>2 DEF g
    <2>9. QED
      <3> HIDE DEF u, f
      <3>1. CallOutcome(t, u, Taken(t))
        BY <2>3, <2>6, <2>7, <2>8
      <3>2. QED
        BY <3>1 DEF u
  <1>3. QED
    BY <1>1, <1>2

\* ioctl() neither opens nor closes anything.
LEMMA IoctlCalled == IInv /\ Ioctl => Called
  <1> SUFFICES ASSUME IInv, Ioctl PROVE Called
    OBVIOUS
  <1>1. PICK fd \in Usable, req \in {"TIOCEXCL", "TIOCNXCL", "other"}, ok \in BOOLEAN :
          Does(ALT_IOCTL(table, fd, req, ok))
    BY DEF Ioctl
  <1>2. /\ phase # "sys_init"
        /\ UNCHANGED <<direct, phase, left, dev_list, fs_list, held>>
        /\ table' = ALT_IOCTL(table, fd, req, ok).t
    BY <1>1 DEF Does, Ioctl, Running
  <1>3. CallOutcome(table, table', held)
    BY <1>2, HeldFacts, IoctlEffect
  <1>4. QED
    BY <1>2, <1>3, HeldFacts DEF Called

\* fcntl() leaves the marks of the descriptor alone.
LEMMA FcntlCalled == IInv /\ Fcntl => Called
  <1> SUFFICES ASSUME IInv, Fcntl PROVE Called
    OBVIOUS
  <1>1. PICK fd \in Usable, flags \in {{}, {"NONBLOCK", "EXCL"}} :
          Does(ALT_FCNTL(table, fd, flags))
    BY DEF Fcntl
  <1>2. /\ phase # "sys_init"
        /\ UNCHANGED <<direct, phase, left, dev_list, fs_list, held>>
        /\ table' = ALT_FCNTL(table, fd, flags).t
    BY <1>1 DEF Does, Fcntl, Running
  <1>3. CASE fd = -1
    <2>1. table' = table
      BY <1>2, <1>3 DEF ALT_FCNTL, Fails
    <2>2. QED
      BY <1>2, <2>1, HeldFacts, IdleOutcome DEF Called
  <1>4. CASE fd \in Fd
    <2> DEFINE f == table.fds[fd].flags
               g == (f \ FcntlFlags) \cup (flags \cap FcntlFlags)
    <2>1. ~(fd < 0)
      BY <1>4 DEF Fd
    <2>2. table' = [table EXCEPT !.fds[fd].flags = g]
      BY <1>2, <2>1 DEF ALT_FCNTL, Returns
    <2>3. f \in SUBSET (Marks \cup FcntlFlags)
      BY <1>4, HeldFacts, TableFields DEF Descriptors
    <2>4. g \in SUBSET (Marks \cup FcntlFlags) /\ (g \cap Marks # {} => f \cap Marks # {})
      BY <2>3 DEF Marks, FcntlFlags
    <2> HIDE DEF g
    <2>5. CallOutcome(table, table', Taken(table))
      BY <1>4, <2>2, <2>4, HeldFacts, FlagsOutcome
    <2>6. QED
      BY <1>2, <2>5, HeldFacts DEF Called
  <1>5. QED
    BY <1>3, <1>4, HeldFacts

\* stat() closes what it opened.
LEMMA StatEffect ==
  ASSUME TypeOK, NEW t, Sound(t), NEW name, NEW ok \in BOOLEAN
  PROVE  CallOutcome(t, ALT_STAT(t, name, ok).t, Taken(t))
  <1> DEFINE r == ALT_OPEN(t, name, "RDONLY", {}, ok)
             u == r.t
             fd == r.ret
             v == ALT_CLOSE(u, fd, ok).t
  <1>1. OpenOutcome(t, name, r)
    BY OpenEffect DEF AccModes
  <1>2. ALT_FSTAT(u, fd, ok).t = u
    BY DEF ALT_FSTAT, Returns, Fails
  <1>3. ALT_STAT(t, name, ok).t = v
    BY <1>2 DEF ALT_STAT
  <1> HIDE DEF r
  <1>4. CASE fd = -1 /\ Same(t, u)
    <2>1. v = u
      BY <1>4 DEF ALT_CLOSE, Fails
    <2>2. QED
      BY <1>3, <1>4, <2>1, SameOutcome
  <1>5. CASE Opens(t, u, fd, Named(name)) /\ ~direct
    <2>1. fd \in Fd /\ ~(fd < 0)
      BY <1>5 DEF Opens, Fd
    <2>2. v = alt_release_fd(u, fd)
      BY <1>5, <2>1 DEF ALT_CLOSE, Driver, Fails, Returns
    <2>3. QED
      BY <1>3, <1>5, <2>2, OpenThenRelease, SameOutcome
  <1>6. QED
    BY <1>1, <1>4, <1>5 DEF OpenOutcome

\* The other calls leave the table alone.
LEMMA QueryCalled == IInv /\ Query => Called
  <1> SUFFICES ASSUME IInv, Query PROVE Called
    OBVIOUS
  <1>1. /\ phase # "sys_init"
        /\ UNCHANGED <<direct, phase, left, dev_list, fs_list, held>>
    BY DEF Does, Query, Running
  <1>2. CASE \E name \in Names, ok \in BOOLEAN : table' = ALT_STAT(table, name, ok).t
    <2>1. CallOutcome(table, table', held)
      BY <1>2, HeldFacts, StatEffect
    <2>2. QED
      BY <1>1, <2>1, HeldFacts DEF Called
  <1>3. CASE table' = table
    BY <1>1, <1>3, HeldFacts, IdleOutcome DEF Called
  <1>4. table' = table \/ \E name \in Names, ok \in BOOLEAN : table' = ALT_STAT(table, name, ok).t
    <2>1. ASSUME NEW fd \in Usable, NEW ok \in BOOLEAN,
                 \/ Does(ALT_READ(table, fd, ok))
                 \/ Does(ALT_WRITE(table, fd, ok))
                 \/ Does(ALT_LSEEK(table, fd, ok))
                 \/ Does(ALT_FSTAT(table, fd, ok))
                 \/ Does(ALT_ISATTY(table, fd, ok))
          PROVE  table' = table
      <3>1. CASE Does(ALT_READ(table, fd, ok)) \/ Does(ALT_WRITE(table, fd, ok))
        BY <3>1 DEF Does, ALT_READ, ALT_WRITE, Transfer, Driver, Fails, Returns
      <3>2. CASE Does(ALT_LSEEK(table, fd, ok))
        BY <3>2 DEF Does, ALT_LSEEK, Driver, Fails, Returns
      <3>3. CASE Does(ALT_FSTAT(table, fd, ok)) \/ Does(ALT_ISATTY(table, fd, ok))
        BY <3>3 DEF Does, ALT_FSTAT, ALT_ISATTY, Fails, Returns
      <3>4. QED
        BY <2>1, <3>1, <3>2, <3>3
    <2>2. ASSUME \/ Does(ALT_FORK(table)) \/ Does(ALT_EXECVE(table)) \/ Does(ALT_WAIT(table))
                 \/ Does(ALT_LINK(table)) \/ Does(ALT_UNLINK(table)) \/ Does(ALT_RENAME(table))
          PROVE  table' = table
      BY <2>2 DEF Does, ALT_FORK, ALT_EXECVE, ALT_WAIT, ALT_LINK, ALT_UNLINK, ALT_RENAME, Fails
    <2>3. ASSUME NEW name \in Names, NEW ok \in BOOLEAN, Does(ALT_STAT(table, name, ok))
          PROVE  table' = ALT_STAT(table, name, ok).t
      BY <2>3 DEF Does
    <2>4. QED
      BY <2>1, <2>2, <2>3 DEF Query
  <1>5. QED
    BY <1>2, <1>3, <1>4

-----------------------------------------------------------------------------
(* The standard streams                                                    *)

\* Stream fd of the table is connected as name says.
Connected(t, fd, name) ==
  /\ t.fds[fd].dev \in {Named(name), DevNull} \ {None}
  /\ Named(name) # None /\ "open" \notin OpsOf[Named(name)] => t.fds[fd].dev = Named(name)

\* The table while io_redirect is at work.
Booting(t) == Sound(t) /\ Unlocked(t) /\ Taken(t) = {}

\* alt_open_fd connects one stream, and gives its temporary descriptor back.
LEMMA OpenFdEffect ==
  ASSUME TypeOK, ~direct, NEW t, Booting(t), NEW fd \in 0 .. 2, t.fds[fd].dev = DevNull,
         NEW name, NEW acc \in AccModes, NEW ok \in BOOLEAN
  PROVE  LET u == alt_open_fd(t, fd, name, acc, ok)
         IN  /\ Booting(u)
             /\ Connected(u, fd, name)
             /\ \A i \in (0 .. 2) \ {fd} : u.fds[i] = t.fds[i]
  <1> DEFINE r == ALT_OPEN(t, name, acc, {}, ok)
             old == r.ret
             u == alt_open_fd(t, fd, name, acc, ok)
             v == [r.t EXCEPT !.fds[fd] = r.t.fds[old]]
  <1>1. Sound(t) /\ t \in Tables /\ Unlocked(t) /\ Taken(t) = {} /\ fd \in Fd
    <2>1. fd \in Fd
      BY MaxFdAssumption DEF Fd
    <2>2. QED
      BY <2>1 DEF Booting, Sound
  <1>2. OpenOutcome(t, name, r)
    BY <1>1, OpenEffect
  <1>3. u = IF old < 0 THEN r.t ELSE alt_release_fd(v, old)
    BY DEF alt_open_fd
  <1> HIDE DEF r, u
  <1>4. CASE old = -1 /\ Same(t, r.t) /\ Refused(t, name)
    <2>1. u = r.t
      BY <1>3, <1>4
    <2>2. Sound(u) /\ Taken(u) = {}
      BY <1>1, <1>4, <2>1, SameOutcome DEF CallOutcome
    <2>3. \A i \in Fd : u.fds[i] = t.fds[i] \/ (t.fds[i].dev = None /\ u.fds[i].flags = {})
      BY <1>4, <2>1, ClosedType DEF Same
    <2>4. Unlocked(u)
      BY <1>1, <2>3 DEF Unlocked, Locked
    <2>5. \A i \in 0 .. 2 : u.fds[i] = t.fds[i]
      BY <1>1, <2>3, Streams DEF Sound
    <2>6. Named(name) = None \/ "open" \in OpsOf[Named(name)]
      <3>1. 3 \in Fd /\ 3 > 2
        BY MaxFdAssumption DEF Fd
      <3>2. t.fds[3].dev = None
        BY <1>1, <3>1 DEF Taken
      <3>3. QED
        BY <1>1, <1>4, <3>1, <3>2 DEF Refused, Unlocked
    <2>7. Connected(u, fd, name)
      BY <2>5, <2>6, DriversAssumption DEF Connected
    <2>8. QED
      BY <2>2, <2>4, <2>5, <2>7 DEF Booting, u
  <1>5. CASE Opens(t, r.t, old, Named(name)) /\ Named(name) \in Drivers
    <2>1. old \in Fd /\ old > 2 /\ ~(old < 0) /\ r.t \in Tables
      BY <1>5 DEF Opens, Fd
    <2>2. u = [v EXCEPT !.fds[old] = Closed]
      BY <1>3, <2>1 DEF alt_release_fd
    <2>3. r.t.fds[old] \in Descriptors
      BY <2>1, TableFields
    <2> HIDE DEF old
    <2>4. /\ v \in Tables /\ v.max_fd = r.t.max_fd /\ v.fds[fd] = r.t.fds[old]
          /\ \A i \in Fd \ {fd} : v.fds[i] = r.t.fds[i]
      BY <1>1, <2>1, <2>3, ReplaceEntry
    <2> HIDE DEF v
    <2>5. /\ u \in Tables /\ u.max_fd = v.max_fd /\ u.fds[old] = Closed
          /\ \A i \in Fd \ {old} : u.fds[i] = v.fds[i]
      BY <2>1, <2>2, <2>4, ClosedType, ReplaceEntry
    <2>6. fd # old
      BY <2>1
    <2>7. /\ u.fds[fd] = r.t.fds[old] /\ u.fds[fd].dev = Named(name)
          /\ u.max_fd = r.t.max_fd
          /\ \A i \in Fd \ {fd, old} : u.fds[i] = t.fds[i]
      BY <1>1, <1>5, <2>4, <2>5, <2>6 DEF Opens, old
    <2>8. u.fds[old].dev = None /\ u.fds[old].flags = {}
      BY <2>5, ClosedType
    <2>9. \A i \in (0 .. 2) \ {fd} : u.fds[i] = t.fds[i]
      BY <2>1, <2>7, Streams
    <2>10. \A i \in 0 .. 2 : u.fds[i].dev # None
      BY <1>1, <1>5, <2>7, <2>9, DriversAssumption DEF Sound
    <2>11. ASSUME NEW i \in Fd, u.fds[i].flags \cap Marks # {}
           PROVE  i <= u.max_fd /\ u.fds[i].dev \in Drivers \ Mounted
      <3>1. t.max_fd \in Int /\ u.max_fd \in Int /\ Fd \subseteq Int
            /\ t.max_fd <= u.max_fd /\ old <= u.max_fd
        BY <1>1, <1>5, <2>5, <2>7, TableFields DEF Opens, old
      <3>2. CASE i = fd
        <4>1. fd <= u.max_fd
          BY <2>1, <3>1
        <4>2. u.fds[fd].dev \in Drivers \ Mounted
          BY <1>5, <2>7, <2>11, <3>2 DEF Opens, old
        <4>3. QED
          BY <3>2, <4>1, <4>2
      <3>3. CASE i # fd
        <4>1. i # old
          BY <2>8, <2>11
        <4>2. u.fds[i] = t.fds[i]
          BY <2>7, <3>3, <4>1
        <4>3. i <= t.max_fd /\ t.fds[i].dev \in Drivers \ Mounted
          BY <1>1, <2>11, <4>2 DEF Sound
        <4>4. QED
          BY <3>1, <4>2, <4>3
      <3>4. QED
        BY <3>2, <3>3
    <2>12. Sound(u)
      BY <2>5, <2>10, <2>11 DEF Sound
    <2>13. Unlocked(u)
      <3>1. "EXCL" \notin u.fds[fd].flags
        BY <1>5, <2>7 DEF Opens, old
      <3>2. QED
        BY <1>1, <2>7, <2>8, <3>1 DEF Unlocked, Locked
    <2>14. Taken(u) = {}
      <3>1. ~(fd > 2)
        OBVIOUS
      <3>2. QED
        BY <1>1, <2>7, <2>8, <3>1 DEF Taken
    <2>15. Connected(u, fd, name)
      BY <1>5, <2>7, DriversAssumption DEF Connected
    <2>16. QED
      BY <2>9, <2>12, <2>13, <2>14, <2>15 DEF Booting, u
  <1>6. QED
    BY <1>2, <1>4, <1>5 DEF OpenOutcome

\* What a name refers to depends on the lists only.
LEMMA NamedFrame ==
  ASSUME UNCHANGED <<dev_list, fs_list>>, NEW name
  PROVE  Named(name)' = Named(name)
  BY DEF Named, alt_find_dev, alt_find_file, FirstMatch

\* io_redirect connects all three.
LEMMA RedirectStep == IInv /\ alt_io_redirect => IInv' /\ LocksRespected(table, table')
  <1> SUFFICES ASSUME IInv, alt_io_redirect PROVE IInv' /\ LocksRespected(table, table')
    OBVIOUS
  <1>1. /\ phase = "sys_init" /\ phase' = "ctors"
        /\ UNCHANGED <<direct, left, dev_list, fs_list, held>>
    BY DEF alt_io_redirect
  <1>2. TypeOK /\ Booting(table) /\ Unlocked(table) /\ held = {}
        /\ \A fd \in 0 .. 2 : table.fds[fd].dev = DevNull
    BY <1>1, HeldFacts DEF IInv, Fresh, Booting
  <1>3. LocksRespected(table, table')
    BY <1>2 DEF LocksRespected, Unlocked
  <1>4. Booting(table') /\ (~direct => \A fd \in 0 .. 2 : Connected(table', fd, Stdio[fd]))
    <2>1. CASE direct
      BY <1>2, <2>1 DEF alt_io_redirect
    <2>2. CASE ~direct
      <3>1. PICK ok \in [0 .. 2 -> BOOLEAN] :
              LET t1 == alt_open_fd(table, 1, Stdio[1], "WRONLY", ok[1])
                  t2 == alt_open_fd(t1, 0, Stdio[0], "RDONLY", ok[0])
              IN  table' = alt_open_fd(t2, 2, Stdio[2], "WRONLY", ok[2])
        BY <2>2 DEF alt_io_redirect
      <3> DEFINE t1 == alt_open_fd(table, 1, Stdio[1], "WRONLY", ok[1])
                 t2 == alt_open_fd(t1, 0, Stdio[0], "RDONLY", ok[0])
                 t3 == alt_open_fd(t2, 2, Stdio[2], "WRONLY", ok[2])
      <3>2. /\ ok[0] \in BOOLEAN /\ ok[1] \in BOOLEAN /\ ok[2] \in BOOLEAN
            /\ "WRONLY" \in AccModes /\ "RDONLY" \in AccModes
            /\ 0 \in 0 .. 2 /\ 1 \in 0 .. 2 /\ 2 \in 0 .. 2
        BY DEF AccModes
      <3>3. /\ Booting(t1) /\ Connected(t1, 1, Stdio[1])
            /\ \A i \in (0 .. 2) \ {1} : t1.fds[i] = table.fds[i]
        BY <1>2, <2>2, <3>2, OpenFdEffect
      <3> HIDE DEF t1
      <3>4. t1.fds[0].dev = DevNull /\ t1.fds[2].dev = DevNull
        BY <1>2, <3>3
      <3>5. /\ Booting(t2) /\ Connected(t2, 0, Stdio[0])
            /\ \A i \in (0 .. 2) \ {0} : t2.fds[i] = t1.fds[i]
        BY <1>2, <2>2, <3>2, <3>3, <3>4, OpenFdEffect
      <3> HIDE DEF t2
      <3>6. t2.fds[2].dev = DevNull /\ Connected(t2, 1, Stdio[1])
        BY <3>3, <3>4, <3>5 DEF Connected
      <3>7. /\ Booting(t3) /\ Connected(t3, 2, Stdio[2])
            /\ \A i \in (0 .. 2) \ {2} : t3.fds[i] = t2.fds[i]
        BY <1>2, <2>2, <3>2, <3>5, <3>6, OpenFdEffect
      <3>8. table' = t3
        BY <3>1 DEF t1, t2
      <3> HIDE DEF t3
      <3>9. Connected(t3, 0, Stdio[0]) /\ Connected(t3, 1, Stdio[1])
        BY <3>5, <3>6, <3>7 DEF Connected
      <3>10. \A fd \in 0 .. 2 : fd = 0 \/ fd = 1 \/ fd = 2
        OBVIOUS
      <3>11. QED
        BY <3>7, <3>8, <3>9, <3>10
    <2>3. QED
      BY <2>1, <2>2
  <1>5. TypeOK'
    BY <1>1, <1>2, <1>4 DEF TypeOK, Booting, Sound
  <1>6. NoDescriptorLost' /\ held' = {}
    BY <1>1, <1>2, <1>4 DEF NoDescriptorLost, Booting, Taken
  <1>7. StreamsConnected'
    <2>1. \A fd \in 0 .. 2 : Named(Stdio[fd])' = Named(Stdio[fd])
      BY <1>1, NamedFrame
    <2>2. ~direct => \A fd \in 0 .. 2 : Connected(table, fd, Stdio[fd])'
      BY <1>4, <2>1 DEF Connected
    <2>3. ~direct' => \A fd \in 0 .. 2 : Connected(table, fd, Stdio[fd])'
      BY <1>1, <2>2
    <2>4. QED
      BY <2>3 DEF StreamsConnected, Connected
  <1>8. QED
    BY <1>1, <1>3, <1>4, <1>5, <1>6, <1>7 DEF IInv, Booting, Sound

-----------------------------------------------------------------------------
(* The invariant                                                           *)

\* Streams that keep their devices stay connected.
LEMMA StreamsFrame ==
  ASSUME StreamsConnected, phase # "sys_init", UNCHANGED <<direct, dev_list, fs_list>>,
         \A fd \in 0 .. 2 : table'.fds[fd].dev = table.fds[fd].dev
  PROVE  StreamsConnected'
  <1>1. ~direct => \A fd \in 0 .. 2 : Connected(table, fd, Stdio[fd])
    BY DEF StreamsConnected, Connected
  <1>2. \A fd \in 0 .. 2 : Named(Stdio[fd])' = Named(Stdio[fd])
    BY NamedFrame
  <1>3. ~direct' => \A fd \in 0 .. 2 : Connected(table, fd, Stdio[fd])'
    BY <1>1, <1>2 DEF Connected
  <1>4. QED
    BY <1>3 DEF StreamsConnected, Connected

\* Taken descriptors are descriptors.
LEMMA TakenLost ==
  ASSUME Taken(table)' = held'
  PROVE  NoDescriptorLost' /\ held' \subseteq Fd
  BY DEF NoDescriptorLost, Taken

\* A call of the program keeps the invariant.
LEMMA CalledStep == IInv /\ Called => IInv'
  <1> SUFFICES ASSUME IInv, Called PROVE IInv'
    OBVIOUS
  <1>1. /\ phase # "sys_init" /\ (direct => held' = {})
        /\ UNCHANGED <<direct, phase, left, dev_list, fs_list>>
        /\ Sound(table') /\ Taken(table') = held'
        /\ \A fd \in 0 .. 2 : table'.fds[fd].dev = table.fds[fd].dev
    BY DEF Called, CallOutcome
  <1>2. StreamsConnected'
    BY <1>1, StreamsFrame DEF IInv
  <1>3. NoDescriptorLost' /\ held' \subseteq Fd
    BY <1>1, TakenLost DEF Taken
  <1>4. TypeOK'
    BY <1>1, <1>3 DEF TypeOK, IInv, Sound
  <1>5. QED
    BY <1>1, <1>2, <1>3, <1>4 DEF IInv, Sound

\* A list with a new head.
LEMMA Prepend ==
  ASSUME NEW S, NEW s \in Seq(S), NEW x \in S
  PROVE  <<x>> \o s \in Seq(S)
  <1>1. <<x>> \in Seq(S)
    OBVIOUS
  <1>2. QED
    BY <1>1

\* A driver registers an instance.
LEMMA SysInitStep == IInv /\ alt_sys_init => IInv'
  <1> SUFFICES ASSUME IInv, alt_sys_init PROVE IInv'
    OBVIOUS
  <1>1. phase = "sys_init" /\ UNCHANGED <<direct, phase, left, table, held>>
    BY DEF alt_sys_init
  <1>2. dev_list' \in Seq(Drivers \ Mounted) /\ fs_list' \in Seq(Mounted)
    <2>1. dev_list \in Seq(Drivers \ Mounted) /\ fs_list \in Seq(Mounted)
      BY DEF IInv, TypeOK
    <2>2. PICK d \in Drivers :
            IF d \in Mounted
            THEN fs_list' = alt_fs_reg(fs_list, d) /\ UNCHANGED dev_list
            ELSE dev_list' = alt_dev_llist_insert(dev_list, d) /\ UNCHANGED fs_list
      BY DEF alt_sys_init
    <2>3. QED
      <3>1. CASE d \in Mounted
        <4>1. <<d>> \o fs_list \in Seq(Mounted)
          BY <2>1, <3>1, Prepend
        <4>2. fs_list' \in Seq(Mounted)
          BY <2>1, <2>2, <3>1, <4>1 DEF alt_fs_reg
        <4>3. QED
          BY <2>1, <2>2, <3>1, <4>2
      <3>2. CASE d \notin Mounted
        <4>1. <<d>> \o dev_list \in Seq(Drivers \ Mounted)
          BY <2>1, <3>2, Prepend
        <4>2. dev_list' \in Seq(Drivers \ Mounted)
          BY <2>1, <2>2, <3>2, <4>1 DEF alt_dev_llist_insert
        <4>3. QED
          BY <2>1, <2>2, <3>2, <4>2
      <3>3. QED
        BY <3>1, <3>2
  <1>3. TypeOK'
    BY <1>1, <1>2 DEF IInv, TypeOK
  <1>4. StreamsConnected'
    BY <1>1 DEF StreamsConnected
  <1>5. QED
    BY <1>1, <1>3, <1>4 DEF IInv, Sound, NoDescriptorLost, Fresh, Unlocked, Locked

\* A step that moves alt_main on and leaves the files alone.
LEMMA MainStep ==
  ASSUME IInv, phase # "sys_init", phase' \in {"ctors", "main", "dtors", "exit"},
         left' \in 0 .. Ctors, UNCHANGED <<direct, dev_list, fs_list, table, held>>
  PROVE  IInv'
  <1>1. TypeOK'
    BY DEF IInv, TypeOK
  <1>2. StreamsConnected'
    BY StreamsFrame DEF IInv
  <1>3. QED
    BY <1>1, <1>2 DEF IInv, Sound, NoDescriptorLost

\* main returns: close(STDOUT_FILENO) keeps the stream.
LEMMA ExitStep == IInv /\ Exit => IInv' /\ LocksRespected(table, table')
  <1> SUFFICES ASSUME IInv, Exit PROVE IInv' /\ LocksRespected(table, table')
    OBVIOUS
  <1>1. /\ phase = "main" /\ phase' = "dtors" /\ left' = Ctors
        /\ UNCHANGED <<direct, dev_list, fs_list, held>>
    BY DEF Exit
  <1>2. PICK ok \in BOOLEAN : table' = ALT_CLOSE(table, 1, ok).t
    BY DEF Exit
  <1>3. CallOutcome(table, table', held)
    <2>1. 1 \in Fd /\ held \ {1} = held
      BY Streams, HeldFacts DEF Taken
    <2>2. QED
      BY <1>2, <2>1, HeldFacts, CloseEffect
  <1>4. /\ Sound(table') /\ Taken(table') = held'
        /\ \A fd \in 0 .. 2 : table'.fds[fd].dev = table.fds[fd].dev
    BY <1>1, <1>3 DEF CallOutcome
  <1>5. StreamsConnected'
    BY <1>1, <1>4, StreamsFrame DEF IInv
  <1>6. NoDescriptorLost' /\ held' \subseteq Fd
    BY <1>4, TakenLost DEF Taken
  <1>7. TypeOK'
    BY <1>1, <1>4, <1>6, CtorsAssumption DEF TypeOK, IInv, Sound
  <1>8. IInv'
    BY <1>1, <1>4, <1>5, <1>6, <1>7 DEF IInv, Sound
  <1>9. QED
    BY <1>3, <1>8 DEF CallOutcome

\* Nothing is open, locked or listed at first but /dev/null on the streams.
LEMMA InitInv == Init => IInv
  <1> SUFFICES ASSUME Init PROVE IInv
    OBVIOUS
  <1> DEFINE null == [Closed EXCEPT !.dev = DevNull]
             F == [i \in Fd |-> IF i <= 2 THEN null ELSE Closed]
  <1>1. null \in Descriptors /\ null.dev = DevNull /\ null.flags = {} /\ DevNull # None
    BY DriversAssumption DEF Closed, Descriptors, AccModes
  <1>2. table = [fds |-> F, max_fd |-> -1] /\ held = {} /\ phase = "sys_init"
    BY DEF Init
  <1> HIDE DEF null
  <1>3. F \in [Fd -> Descriptors] /\ \A i \in Fd : F[i].flags = {}
    BY <1>1, ClosedType
  <1>4. \A i \in 0 .. 2 : F[i].dev = DevNull
    BY <1>1, Streams
  <1>5. \A i \in Fd : i > 2 => F[i].dev = None
    BY ClosedType, Streams
  <1> HIDE DEF F
  <1>6. table \in Tables /\ table.fds = F
    BY <1>2, <1>3 DEF Tables
  <1>7. TypeOK
    <2>1. dev_list \in Seq(Drivers \ Mounted) /\ fs_list \in Seq(Mounted)
      BY DriversAssumption DEF Init
    <2>2. QED
      BY <1>2, <1>6, <2>1, CtorsAssumption DEF Init, TypeOK
  <1>8. Sound(table) /\ Fresh(table)
    BY <1>1, <1>3, <1>4, <1>6 DEF Sound, Fresh, Unlocked, Locked
  <1>9. NoDescriptorLost
    BY <1>2, <1>5, <1>6 DEF NoDescriptorLost
  <1>10. StreamsConnected
    BY <1>2 DEF StreamsConnected
  <1>11. QED
    BY <1>2, <1>7, <1>8, <1>9, <1>10 DEF IInv

\* The steps that leave the files alone.
LEMMA AloneStep ==
  IInv /\ (_do_ctors \/ _do_dtors \/ ALT_KILL \/ ALT_EXIT) => IInv' /\ table' = table
  <1> SUFFICES ASSUME IInv, _do_ctors \/ _do_dtors \/ ALT_KILL \/ ALT_EXIT
               PROVE  IInv' /\ table' = table
    OBVIOUS
  <1>1. left \in 0 .. Ctors /\ Ctors \in Nat
    BY CtorsAssumption DEF IInv, TypeOK
  <1>2. CASE _do_ctors
    BY <1>1, <1>2, MainStep DEF _do_ctors
  <1>3. CASE _do_dtors
    BY <1>1, <1>3, MainStep DEF _do_dtors
  <1>4. CASE ALT_KILL
    BY <1>1, <1>4, MainStep DEF ALT_KILL, Running
  <1>5. CASE ALT_EXIT
    BY <1>1, <1>5, MainStep DEF ALT_EXIT, vars
  <1>6. QED
    BY <1>2, <1>3, <1>4, <1>5

\* Every step keeps the invariant, and respects the locks.
LEMMA NextStep == IInv /\ Next => IInv' /\ LocksRespected(table, table')
  <1> SUFFICES ASSUME IInv, Next PROVE IInv' /\ LocksRespected(table, table')
    OBVIOUS
  <1>1. CASE Open \/ Close \/ Ioctl \/ Fcntl \/ Query
    <2>1. Called
      BY <1>1, OpenCalled, CloseCalled, IoctlCalled, FcntlCalled, QueryCalled
    <2>2. QED
      BY <2>1, CalledStep DEF Called, CallOutcome
  <1>2. CASE alt_sys_init
    <2>1. table' = table
      BY <1>2 DEF alt_sys_init
    <2>2. QED
      BY <1>2, <2>1, SysInitStep DEF LocksRespected
  <1>3. CASE alt_io_redirect
    BY <1>3, RedirectStep
  <1>4. CASE Exit
    BY <1>4, ExitStep
  <1>5. CASE _do_ctors \/ _do_dtors \/ ALT_KILL \/ ALT_EXIT
    BY <1>5, AloneStep DEF LocksRespected
  <1>6. QED
    BY <1>1, <1>2, <1>3, <1>4, <1>5 DEF Next

\* The inductive invariant of the file layer.
THEOREM FileInvariant == Spec => []IInv
  <1>1. IInv /\ UNCHANGED vars => IInv'
    <2> SUFFICES ASSUME IInv, UNCHANGED vars PROVE IInv'
      OBVIOUS
    <2>1. CASE phase = "sys_init"
      <3>1. StreamsConnected'
        BY <2>1 DEF vars, StreamsConnected
      <3>2. QED
        BY <3>1 DEF vars, IInv, TypeOK, Sound, NoDescriptorLost, Fresh, Unlocked, Locked
    <2>2. CASE phase # "sys_init"
      BY <2>2, MainStep DEF vars, IInv, TypeOK
    <2>3. QED
      BY <2>1, <2>2
  <1>2. QED
    BY <1>1, InitInv, NextStep, PTL DEF Spec

\* The table and the lists have their types.
THEOREM FileTypes == Spec => []TypeOK
  <1>1. IInv => TypeOK
    BY DEF IInv
  <1>2. QED
    BY <1>1, FileInvariant, PTL

\* No path through open, stat, close or io_redirect leaks a descriptor or gives
\* one out twice, whatever the drivers answer and however large the table.
THEOREM DescriptorsKept == Spec => []NoDescriptorLost
  <1>1. IInv => NoDescriptorLost
    BY DEF IInv
  <1>2. QED
    BY <1>1, FileInvariant, PTL

\* Each standard stream keeps the device that io_redirect gave it, the named
\* one or /dev/null.
THEOREM StreamsStayConnected == Spec => []StreamsConnected
  <1>1. IInv => StreamsConnected
    BY DEF IInv
  <1>2. QED
    BY <1>1, FileInvariant, PTL

\* A locked device is not opened again by any call.
THEOREM LocksExclude == Spec => LockExcludesOpens
  <1> DEFINE A == \A d \in Drivers : LockedOn(d) # {} =>
                    Cardinality(OpenOn(d)') <= Cardinality(OpenOn(d))
  <1>1. IInv /\ [Next]_vars => [A]_vars
    <2>1. SUFFICES ASSUME IInv, Next, NEW d \in Drivers, LockedOn(d) # {}
                   PROVE  Cardinality(OpenOn(d)') <= Cardinality(OpenOn(d))
      OBVIOUS
    <2>2. LocksRespected(table, table')
      BY <2>1, NextStep
    <2>3. PICK i \in Fd : table.fds[i].dev = d /\ Locked(table, i)
      BY <2>1 DEF LockedOn, OpenOn, Locked
    <2>4. OpenOn(d)' \in SUBSET OpenOn(d)
      BY <2>2, <2>3, DriversAssumption DEF LocksRespected, OpenOn
    <2>5. IsFiniteSet(OpenOn(d))
      <3>1. IsFiniteSet(Fd)
        BY FS_Interval, MaxFdAssumption DEF Fd
      <3>2. OpenOn(d) \in SUBSET Fd
        BY DEF OpenOn
      <3>3. QED
        BY <3>1, <3>2, FS_Subset
    <2>6. QED
      BY <2>4, <2>5, FS_Subset
  <1>2. QED
    BY <1>1, FileInvariant, PTL DEF Spec, LockExcludesOpens

=============================================================================
