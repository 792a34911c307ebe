--------------------------- MODULE MCBoardOptions ---------------------------
(* A panel, two modules and two 40G boards, with three bytes of options, of *)
(* which a 40G board has room for two.                                      *)
EXTENDS BoardOptions, TLC

MCModules == <<"m1", "m2">>
MCFtdi    == {"f1", "f2"}
MCInitial == [b \in Board |-> [i \in Byte |->
                CASE b = "m2" \/ b = "f2" -> {0, 1} [] b = "p" /\ i = 1 -> {0} [] OTHER -> {}]]

Option(b, i, bit, data, pwd) ==
    [op |-> "option", board |-> b, first |-> i, last |-> i, bit |-> bit,
     data |-> data, pwd |-> pwd]
Buf(op, b, i, j, data) ==
    [op |-> op, board |-> b, first |-> i, last |-> j, bit |-> 0,
     data |-> data, pwd |-> b]

(* Options: plain ones, one with the password of another board, one in a    *)
(* byte that 40G boards do not have; parts and whole blocks of options;     *)
(* GETMAC.                                                                  *)
MCRequest ==
    {Option("p", 1, 0, 0, "p"), Buf("write", "p", 2, 3, 1),
     Option("m1", 1, 0, 1, "m1"), Buf("write", "m1", 2, 3, 1),
     Option("m2", 1, 0, 0, "m1"), Buf("read", "m2", 1, 2, 0), Buf("mac", "p", 1, 2, 0),
     Option("f1", 1, 0, 1, "f1"), Option("f1", 3, 0, 1, "f1"),
     Buf("write", "f1", 1, 2, 1), Buf("write", "f2", 1, 1, 0)}
Clients == Permutations(Client)
MCFails == {"panel", "module", "ftdi", "bind"}
=============================================================================
