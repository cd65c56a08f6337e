------------------------------ MODULE MCAltFile ------------------------------
(***************************************************************************)
(* AltFile.tla for TLC: the console, a second character device whose       *)
(* driver may refuse, an instance without a name and a file system.        *)
(***************************************************************************)
EXTENDS AltFile

CONSTANTS uart, tape, nameless, zip, null

MCDrivers == {uart, tape, nameless, zip, null}

MCNameOf ==
  [d \in MCDrivers |->
     CASE d = uart -> <<"dev", "uart">>
       [] d = tape -> <<"dev", "tape">>
       [] d = nameless -> None
       [] d = zip -> <<"mnt">>
       [] d = null -> <<"dev", "null">>]

MCOpsOf ==
  [d \in MCDrivers |->
     CASE d = uart -> {"close", "read", "write", "ioctl"}
       [] d = tape -> {"open", "close", "write", "lseek"}
       [] d = zip -> {"open", "read", "fstat"}
       [] d = null -> {"write"}
       [] OTHER -> {}]

MCStdio == [fd \in 0 .. 2 |-> <<"dev", "uart">>]
MCNames == {<<"dev", "uart">>, <<"dev", "tape">>, <<"dev", "null">>,
   <<"mnt", "a">>, <<"x">>}

=============================================================================
