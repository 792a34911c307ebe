---------------------------- MODULE BoardOptions -----------------------------
(* The EEPROMs that hold a tester's options (common/VControlServer.cpp,      *)
(* v400eeprom/v400eeprom.c).  The panel's own is reached over the SMBus and *)
(* written as a whole block; a module's by commands to a network interface, *)
(* whose name every request leaves in one global; a 40G or 2.5G board's     *)
(* through one FTDI context and one copy of its EEPROM, with a checksum.    *)
(* The requests of the clients run in their own threads, without a lock.    *)
EXTENDS Naturals, Integers, Sequences, FiniteSets

CONSTANTS Client,
          Panel, Modules, Ftdi,  \* the boards: one, a sequence, a set
          Bytes,                 \* bytes of options a board has
          FtdiBytes,             \* of which a 40G board's EEPROM has room for
          Bit,                   \* bits of a byte
          Initial,               \* what the boards' options are at first
          Suspect,               \* boards, one of whose EEPROMs may be damaged
          Request,               \* the requests that clients may send
          MaxRequests,           \* bound: requests of all clients
          Fails                  \* the kinds of board that may fail, and "bind"

Module == {Modules[i] : i \in DOMAIN Modules}
Board  == {Panel} \cup Module \cup Ftdi
Byte   == 1..Bytes
Block  == [Byte -> SUBSET Bit]

(* A request's range is not empty and begins within the options: nothing    *)
(* in the code checks that, only where it ends.  GETMAC is for the panel.   *)
ASSUME BoardAssumption ==
    /\ Bytes \in Nat /\ FtdiBytes \in 0..Bytes /\ MaxRequests \in Nat
    /\ Modules \in Seq(Module) \ {<<>>} /\ "" \notin Module /\ "closed" \notin Ftdi
    /\ Panel \notin Module \cup Ftdi /\ Module \cap Ftdi = {}
    /\ Initial \in [Board -> Block] /\ Suspect \subseteq Ftdi
    /\ \A r \in Request : /\ r.op \in {"option", "write", "read", "mac"}
                          /\ r.board \in Board /\ (r.op = "mac" => r.board = Panel)
                          /\ r.first \in Nat \ {0} /\ r.last \in Nat
                          /\ r.first <= r.last

(* What a request may have read or be about to write: a part of a block. *)
Over(new, old) ==
    [i \in DOMAIN old |-> IF i \in DOMAIN new THEN new[i] ELSE old[i]]
Part(b, r) == [i \in (r.first..r.last) \cap DOMAIN b |-> b[i]]

VARIABLES at,       \* where the client's request is
          req,      \* that request
          put,      \* the bytes it is about to write, or <<>>: it reads
          got,      \* the bytes it read
          sock,     \* the module its socket reaches; Panel: none
          sum,      \* the checksum it computed
          macs,     \* the addresses a GETMAC has read
          ans,      \* the answer
          memory,   \* the boards' EEPROMs
          netif,    \* g_szArg_netif: the module it names, or "" if empty
          ctx,      \* ux400_ftdic: the board it has open, or "closed"
          eeprom,   \* eeprom[]: the copy of an EEPROM
          history   \* of the run, for the properties

local  == <<at, req, put, got, sock, sum, macs, ans>>
shared == <<memory, netif, ctx, eeprom>>
vars   == <<local, shared, history>>

(* An EEPROM's identity (addresses, serial number), options and checksum,   *)
(* which is named by what it was computed from.                             *)
Image(id, block, s) == [id |-> id, block |-> block, sum |-> s]
Checksum(image) == [id |-> image.id, block |-> image.block]
Valid(image)    == image.sum = Checksum(image)
Fresh(b)        == Image(b, Initial[b], [id |-> b, block |-> Initial[b]])
Damaged(b)      == Image(b, Initial[b], [id |-> "damaged", block |-> Initial[b]])

NoRequest == [op |-> "none", board |-> Panel, first |-> 1, last |-> 0,
              bit |-> 0, data |-> 0, pwd |-> Panel]

Init == /\ at = [c \in Client |-> "idle"]
        /\ req = [c \in Client |-> NoRequest]
        /\ put = [c \in Client |-> <<>>]
        /\ got = [c \in Client |-> <<>>]
        /\ sock = [c \in Client |-> Panel]
        /\ sum = [c \in Client |-> <<>>]
        /\ macs = [c \in Client |-> <<>>]
        /\ ans = [c \in Client |-> "none"]
        /\ \E damaged \in {{}} \cup {{b} : b \in Suspect} :
             memory = [b \in Board |-> IF b \in damaged THEN Damaged(b) ELSE Fresh(b)]
        /\ netif = ""
        /\ ctx = "closed"
        /\ eeprom = Fresh(Panel)
        /\ history = [begun |-> 0, asked |-> {}, crossed |-> {},
                      disturbed |-> {},
                      before |-> [c \in Client |-> Fresh(Panel)]]

Goes(c, place) == at' = [at EXCEPT ![c] = place]
Kind(b) == CASE b = Panel -> "panel" [] b \in Module -> "module" [] b \in Ftdi -> "ftdi"
May(kind) == kind \in Fails

(* The board the next step is for: GETMAC reads the modules one by one. *)
Target(c) == IF req[c].op = "mac" THEN Modules[Len(macs[c]) + 1] ELSE req[c].board
Writing(c) == put[c] # <<>>

(* BitOptionDeal: a bit that is none, or data but 0 and 1, changes nothing. *)
BitOptionDeal(byte, bit, data) ==
    CASE data = 0 -> byte \ {bit}
      [] data = 1 -> byte \cup ({bit} \cap Bit)
      [] OTHER -> byte

(* The bytes a request makes of what it read; a WRITEMODULEBUF brings them. *)
Fill(r) == [i \in r.first..r.last |-> IF r.data = 0 THEN {} ELSE Bit]
Dealt(r, block) ==
    IF r.op = "write" THEN Fill(r)
    ELSE [i \in r.first..r.last |-> BitOptionDeal(block[i], r.bit, r.data)]

(* CheckPwd: the password is the one of the board whose identity was read. *)
CheckPwd(r, id) == r.pwd = id

-----------------------------------------------------------------------------
(* Requests that may get in each other's way: two with a writer on the      *)
(* panel; two on modules, unless neither needs what the other writes of the *)
(* one module both are for; any two on FTDI boards.                         *)
Kinds(r)   == IF r.op = "mac" THEN {"panel", "module"} ELSE {Kind(r.board)}
Targets(r) == IF r.op = "mac" THEN Module ELSE {r.board}
Writer(r)  == r.op \in {"option", "write"}
Disturbs(d, c) ==
    \/ "panel" \in Kinds(d) \cap Kinds(c) /\ Writer(d)
    \/ /\ "module" \in Kinds(d) \cap Kinds(c)
       /\ \/ Cardinality(Targets(d) \cup Targets(c)) > 1
          \/ Writer(d) /\ (d.first..d.last) \cap (c.first..c.last) # {}
    \/ "ftdi" \in Kinds(d) \cap Kinds(c)

Running == {c \in Client : at[c] \notin {"idle", "answered"}}
Asks(r) == IF r.op = "option" /\ r.pwd = r.board
             THEN {r.board} \X (r.first..r.last) \X {r.bit}
           ELSE IF r.op = "write" THEN {r.board} \X (r.first..r.last) \X Bit
           ELSE {}

Remember(c, r) ==
    LET others == {d \in Client \ {c} : at[d] # "idle"}
        crosses == {k \in UNION {Kinds(req[d]) \cap Kinds(r) : d \in others} :
                      \E d \in others : k \in Kinds(req[d])
                                        /\ Cardinality(Targets(req[d]) \cup Targets(r)) > 1}
    IN  history' = [begun |-> history.begun + 1,
                    asked |-> history.asked \cup Asks(r),
                    crossed |-> history.crossed \cup crosses,
                    disturbed |-> (history.disturbed \ {c})
                        \cup {d \in others : Disturbs(r, req[d])}
                        \cup (IF \E d \in others : Disturbs(req[d], r) THEN {c} ELSE {}),
                    before |-> [history.before EXCEPT ![c] = memory[r.board]]]

-----------------------------------------------------------------------------
(* A handler begins.  The range is checked before the board is read; the    *)
(* password of a 40G board is made of its serial number alone, which is no  *)
(* part of the EEPROM.                                                      *)
Room(b) == IF b \in Ftdi THEN FtdiBytes ELSE Bytes
Starts(r) ==
    CASE r.last > Room(r.board) -> "invalid"
      [] r.last <= Room(r.board) /\ Kind(r.board) = "ftdi" ->
            IF r.op = "option" /\ ~CheckPwd(r, r.board) THEN "denied" ELSE "init"
      [] r.last <= Room(r.board) /\ Kind(r.board) = "panel" ->
            IF r.op = "write" /\ r.first..r.last = Byte THEN "panelWrite" ELSE "panelRead"
      [] r.last <= Room(r.board) /\ Kind(r.board) = "module" -> "clear"

Ask(c, r) ==
    /\ at[c] = "idle"
    /\ history.begun < MaxRequests
    /\ req' = [req EXCEPT ![c] = r]
    /\ put' = [put EXCEPT ![c] = IF r.op = "write" THEN Fill(r) ELSE <<>>]
    /\ got' = [got EXCEPT ![c] = <<>>]
    /\ macs' = [macs EXCEPT ![c] = <<>>]
    /\ LET start == Starts(r) IN
         IF start \in {"invalid", "denied"}
         THEN Goes(c, "answered") /\ ans' = [ans EXCEPT ![c] = start]
         ELSE Goes(c, start) /\ UNCHANGED ans
    /\ Remember(c, r)
    /\ UNCHANGED <<sock, sum, shared>>

Answers(c, a) == Goes(c, "answered") /\ ans' = [ans EXCEPT ![c] = a]

(* The answer is sent; nothing of the request is left. *)
Send(c) ==
    /\ at[c] = "answered"
    /\ Goes(c, "idle")
    /\ req' = [req EXCEPT ![c] = NoRequest]
    /\ put' = [put EXCEPT ![c] = <<>>]
    /\ got' = [got EXCEPT ![c] = <<>>]
    /\ macs' = [macs EXCEPT ![c] = <<>>]
    /\ sum' = [sum EXCEPT ![c] = <<>>]
    /\ sock' = [sock EXCEPT ![c] = Panel]
    /\ ans' = [ans EXCEPT ![c] = "none"]
    /\ history' = [history EXCEPT !.disturbed = @ \ {c}, !.before[c] = Fresh(Panel)]
    /\ UNCHANGED shared

(* A module's address, or zeros, is put into the answer of a GETMAC. *)
MacRead(c, mac) ==
    /\ req[c].op = "mac"
    /\ macs' = [macs EXCEPT ![c] = Append(@, mac)]
    /\ IF Len(macs[c]) + 1 = Len(Modules) THEN Answers(c, "ok")
       ELSE Goes(c, "clear") /\ UNCHANGED ans

Failed(c) == \/ req[c].op # "mac" /\ Answers(c, "failed") /\ UNCHANGED macs
             \/ MacRead(c, "zeros")

-----------------------------------------------------------------------------
(* The panel: ReadOptionBuffer, WriteOptionBuffer and the eeprom_*_buf they *)
(* call.  A part of the block is written by writing the whole block.        *)
Changed(r, block) == Over(Dealt(r, block), block)

PanelRead(c) ==
    /\ at[c] = "panelRead"
    /\ LET r == req[c]  image == memory[Panel] IN
         \/ /\ r.op = "mac"
            /\ Goes(c, "clear")
            /\ UNCHANGED <<put, got, ans>>
         \/ /\ r.op = "read"
            /\ got' = [got EXCEPT ![c] = Part(image.block, r)]
            /\ Answers(c, "ok")
            /\ UNCHANGED put
         \/ /\ r.op = "option" /\ ~CheckPwd(r, image.id)
            /\ Answers(c, "denied")
            /\ UNCHANGED <<put, got>>
         \/ /\ r.op = "write" \/ (r.op = "option" /\ CheckPwd(r, image.id))
            /\ put' = [put EXCEPT ![c] = Changed(r, image.block)]
            /\ Goes(c, "panelWrite")
            /\ UNCHANGED <<got, ans>>
    /\ UNCHANGED <<req, sock, sum, macs, shared, history>>

PanelFails(c) ==
    /\ at[c] = "panelRead" /\ May("panel")
    /\ IF req[c].op = "mac" THEN Goes(c, "clear") /\ UNCHANGED ans
       ELSE Answers(c, "failed")
    /\ UNCHANGED <<req, put, got, sock, sum, macs, shared, history>>

(* A write that fails has written the first n bytes. *)
Written(c, n) == Over([i \in 1..n |-> put[c][i]], memory[Panel].block)

PanelWrite(c) ==
    /\ at[c] = "panelWrite"
    /\ \/ memory' = [memory EXCEPT ![Panel].block = put[c]] /\ Answers(c, "ok")
       \/ /\ May("panel")
          /\ \E n \in 0..Bytes : memory' = [memory EXCEPT ![Panel].block = Written(c, n)]
          /\ Answers(c, "failed")
    /\ UNCHANGED <<req, put, got, sock, sum, macs, netif, ctx, eeprom, history>>

-----------------------------------------------------------------------------
(* Modules: ReadOptionBufferIndex and WriteOptionBufferIndex.  The name of  *)
(* the interface is emptied, looked up, and used for a socket; the module   *)
(* that the socket reaches answers a command, too late or never if it fails.*)
(* A name that is half copied is as good as an empty one to its readers.    *)
Clear(c) ==
    /\ at[c] = "clear"
    /\ netif' = ""
    /\ Goes(c, "lookup")
    /\ UNCHANGED <<req, put, got, sock, sum, macs, ans, memory, ctx, eeprom, history>>

(* Bug seeded for the runs: a name that was found once is kept. *)
LookupKept(c) ==
    /\ at[c] = "lookup"
    /\ netif' = IF sock[c] = Panel THEN Target(c) ELSE sock[c]
    /\ Goes(c, "socket")
    /\ UNCHANGED <<req, put, got, sock, sum, macs, ans, memory, ctx, eeprom, history>>

Lookup(c) ==
    /\ at[c] = "lookup"
    /\ \/ netif' = Target(c) /\ Goes(c, "socket") /\ UNCHANGED <<ans, macs>>
       \/ May("module") /\ Failed(c) /\ UNCHANGED netif
    /\ UNCHANGED <<req, put, got, sock, sum, memory, ctx, eeprom, history>>

(* CreateModuleSocketClient, as far as the socket: an empty name, or one no *)
(* interface has, is refused.                                               *)
Socket(c) ==
    /\ at[c] = "socket"
    /\ \/ netif # "" /\ Goes(c, "bind") /\ UNCHANGED <<ans, macs>>
       \/ (netif = "" \/ May("module")) /\ Failed(c)
    /\ UNCHANGED <<req, put, got, sock, sum, shared, history>>

(* The rest of it: the name is read again, and what setsockopt makes of it  *)
(* is not looked at.  An unbound socket broadcasts by the default           *)
(* interface, where any one module may be, or none.                         *)
Bind(c) ==
    /\ at[c] = "bind"
    /\ \/ netif # "" /\ sock' = [sock EXCEPT ![c] = netif] /\ UNCHANGED history
       \/ /\ netif = "" \/ May("bind")
          /\ \E b \in Module \cup {Panel} : sock' = [sock EXCEPT ![c] = b]
          /\ history' = [history EXCEPT !.crossed = @ \cup {"module"},
                                        !.disturbed = @ \cup {c}]
    /\ Goes(c, "command")
    /\ UNCHANGED <<req, put, got, sum, macs, ans, shared>>

(* "opthex". *)
ModuleRead(c) ==
    /\ at[c] = "command" /\ ~Writing(c) /\ sock[c] # Panel
    /\ LET r == req[c]  image == memory[sock[c]] IN
         \/ MacRead(c, image.id) /\ UNCHANGED <<put, got>>
         \/ /\ r.op = "read"
            /\ got' = [got EXCEPT ![c] = Part(image.block, r)]
            /\ Answers(c, "ok")
            /\ UNCHANGED <<put, macs>>
         \/ /\ r.op = "option" /\ ~CheckPwd(r, image.id)
            /\ Answers(c, "denied")
            /\ UNCHANGED <<put, got, macs>>
         \/ /\ r.op = "option" /\ CheckPwd(r, image.id)
            /\ put' = [put EXCEPT ![c] = Dealt(r, image.block)]
            /\ Goes(c, "clear")
            /\ UNCHANGED <<got, ans, macs>>
    /\ UNCHANGED <<req, sock, sum, shared, history>>

(* "optfill": the bytes given and no others. *)
ModuleWrite(c) ==
    /\ at[c] = "command" /\ Writing(c) /\ sock[c] # Panel
    /\ memory' = [memory EXCEPT ![sock[c]].block = Over(put[c], @)]
    /\ \/ Answers(c, "ok")
       \/ May("module") /\ Answers(c, "failed")
    /\ UNCHANGED <<req, put, got, sock, sum, macs, netif, ctx, eeprom, history>>

(* A late or no answer, or "ERR:" and a text, whose hexadecimal digits      *)
(* GETMAC takes for the address.                                            *)
ModuleFails(c) ==
    /\ at[c] = "command"
    /\ \/ (May("module") \/ sock[c] = Panel) /\ Failed(c)
       \/ May("module") /\ MacRead(c, "text")
    /\ UNCHANGED <<req, put, got, sock, sum, shared, history>>

-----------------------------------------------------------------------------
(* 40G and 2.5G boards: ReadOptionBufferIndex_40g and                       *)
(* WriteOptionBufferIndex_40g, with sys_init, read_options, write_options   *)
(* and ftdi_deinit.  Every failure but that of sys_init closes the context. *)
Whole(c) == DOMAIN put[c] = 1..FtdiBytes

SysInit(c) ==
    /\ at[c] = "init"
    /\ \/ /\ ctx' = Target(c)
          /\ Goes(c, IF Writing(c) /\ Whole(c) THEN "readAgain" ELSE "read")
          /\ UNCHANGED ans
       \/ May("ftdi") /\ ctx' = "closed" /\ Answers(c, "failed")
    /\ UNCHANGED <<req, put, got, sock, sum, macs, memory, netif, eeprom, history>>

(* ftdi_read_eeprom. *)
FtdiRead(c) ==
    /\ at[c] \in {"read", "readAgain"}
    /\ \/ /\ ctx # "closed"
          /\ eeprom' = memory[ctx]
          /\ Goes(c, IF at[c] = "read" THEN "take" ELSE "patch")
          /\ UNCHANGED <<ctx, ans>>
       \/ /\ ctx = "closed" \/ May("ftdi")
          /\ ctx' = "closed"
          /\ Answers(c, "failed")
          /\ UNCHANGED eeprom
    /\ UNCHANGED <<req, put, got, sock, sum, macs, memory, netif, history>>

(* The checksum read_options compares, over the copy all clients share. *)
Checked(c) == Valid(eeprom)

(* Bug seeded for the runs: the other options are not read before. *)
TakeNothing(c) ==
    /\ at[c] = "take" /\ Writing(c)
    /\ put' = [put EXCEPT ![c] = Over(@, [i \in Byte |-> {}])]
    /\ Goes(c, "readAgain")
    /\ UNCHANGED <<req, got, sock, sum, macs, ans, shared, history>>

(* read_options checks the checksum and copies the options.  A writer then  *)
(* puts its bytes over them.                                                *)
Take(c) ==
    /\ at[c] = "take" /\ Writing(c) /\ Checked(c)
    /\ put' = [put EXCEPT ![c] = Over(@, eeprom.block)]
    /\ Goes(c, "readAgain")
    /\ UNCHANGED <<req, got, sock, sum, macs, ans, shared, history>>

(* A reader has its bytes; the reader of WriteOptionBit goes on to write. *)
TakeRead(c) ==
    /\ at[c] = "take" /\ ~Writing(c) /\ Checked(c)
    /\ ctx' = "closed"
    /\ LET r == req[c] IN
         \/ /\ r.op = "read"
            /\ got' = [got EXCEPT ![c] = Part(eeprom.block, r)]
            /\ Answers(c, "ok")
            /\ UNCHANGED put
         \/ /\ r.op = "option"
            /\ put' = [put EXCEPT ![c] = Dealt(r, eeprom.block)]
            /\ Goes(c, "init")
            /\ UNCHANGED <<got, ans>>
    /\ UNCHANGED <<req, sock, sum, macs, memory, netif, eeprom, history>>

TakeFails(c) ==
    /\ at[c] = "take" /\ ~Checked(c)
    /\ ctx' = "closed"
    /\ Answers(c, "failed")
    /\ UNCHANGED <<req, put, got, sock, sum, macs, memory, netif, eeprom, history>>

(* write_options, after its ftdi_read_eeprom. *)
Patch(c) ==
    /\ at[c] = "patch"
    /\ eeprom' = [eeprom EXCEPT !.block = Over(put[c], @)]
    /\ sum' = [sum EXCEPT ![c] = Checksum(eeprom')]
    /\ Goes(c, "store")
    /\ UNCHANGED <<req, put, got, sock, macs, ans, memory, netif, ctx, history>>

(* Bug seeded for the runs: the new checksum is not stored. *)
StoreOld(c) ==
    /\ at[c] = "store"
    /\ Goes(c, "write")
    /\ UNCHANGED <<req, put, got, sock, sum, macs, ans, shared, history>>

Store(c) ==
    /\ at[c] = "store"
    /\ eeprom' = [eeprom EXCEPT !.sum = sum[c]]
    /\ Goes(c, "write")
    /\ UNCHANGED <<req, put, got, sock, sum, macs, ans, memory, netif, ctx, history>>

(* ftdi_write_eeprom goes word by word; the checksum is the last of them. *)
Partly(b, n) ==
    Image(eeprom.id, Over([i \in 1..n |-> eeprom.block[i]], memory[b].block),
          memory[b].sum)

FtdiWrite(c) ==
    /\ at[c] = "write"
    /\ ctx' = "closed"
    /\ \/ /\ ctx # "closed"
          /\ memory' = [memory EXCEPT ![ctx] = eeprom]
          /\ Answers(c, "ok")
       \/ /\ ctx # "closed" /\ May("ftdi")
          /\ \E n \in 0..Bytes : memory' = [memory EXCEPT ![ctx] = Partly(ctx, n)]
          /\ Answers(c, "failed")
       \/ (ctx = "closed" \/ May("ftdi")) /\ Answers(c, "failed") /\ UNCHANGED memory
    /\ UNCHANGED <<req, put, got, sock, sum, macs, netif, eeprom, history>>

-----------------------------------------------------------------------------
PanelStep(c)  == PanelRead(c) \/ PanelFails(c) \/ PanelWrite(c)
ModuleStep(c) == \/ Clear(c) \/ Lookup(c) \/ Socket(c) \/ Bind(c)
                 \/ ModuleRead(c) \/ ModuleWrite(c) \/ ModuleFails(c)
FtdiStep(c)   == \/ SysInit(c) \/ FtdiRead(c) \/ Take(c) \/ TakeRead(c) \/ TakeFails(c)
                 \/ Patch(c) \/ Store(c) \/ FtdiWrite(c)
Next == \E c \in Client : \/ \E r \in Request : Ask(c, r)
                          \/ PanelStep(c) \/ ModuleStep(c) \/ FtdiStep(c)
                          \/ Send(c)
Spec == Init /\ [][Next]_vars

-----------------------------------------------------------------------------
Places == {"idle", "panelRead", "panelWrite", "clear", "lookup", "socket",
           "bind", "command", "init", "read", "take", "readAgain", "patch", "store",
           "write", "answered"}
Sums   == [id : Board \cup {"damaged"}, block : Block]
Images == [id : Board, block : Block, sum : Sums]
TypeOK ==
    /\ at \in [Client -> Places]
    /\ req \in [Client -> Request \cup {NoRequest}]
    /\ DOMAIN put = Client /\ DOMAIN got = Client
    /\ \A c \in Client : /\ put[c] \in [DOMAIN put[c] -> SUBSET Bit]
                         /\ got[c] \in [DOMAIN got[c] -> SUBSET Bit]
    /\ sock \in [Client -> Module \cup {Panel}]
    /\ sum \in [Client -> Sums \cup {<<>>}]
    /\ macs \in [Client -> Seq(Module \cup {"zeros", "text"})]
    /\ ans \in [Client -> {"none", "ok", "failed", "denied", "invalid"}]
    /\ memory \in [Board -> Images] /\ eeprom \in Images
    /\ DOMAIN history = {"begun", "asked", "crossed", "disturbed", "before"}
    /\ history.before \in [Client -> Images]
    /\ netif \in Module \cup {""}
    /\ ctx \in Ftdi \cup {"closed"}

Before(c)      == history.before[c]
Undisturbed(c) == at[c] = "answered" /\ c \notin history.disturbed
After(r, block) == Over(Dealt(r, block), block)

(* Whatever other clients do meanwhile, a request in whose way none of them *)
(* gets, and none of whose sockets was left unbound, does to its own board  *)
(* what it says: answered 0 (ok), a write has set its bytes and an option   *)
(* its bit, and with the right password; denied or refused, it has changed  *)
(* nothing; failed, each of its bytes is as before or as asked; what is     *)
(* read is the board's, and GETMAC has each module's own address in its     *)
(* place, or none, never another module's.                                  *)
UndisturbedIsExact == \A c \in Client : Undisturbed(c) =>
    LET r == req[c]
        now == Part(memory[r.board].block, r)
        old == Part(Before(c).block, r)
        new == Part(After(r, Before(c).block), r)
    IN  /\ r.op = "mac" =>
              \A i \in DOMAIN macs[c] : macs[c][i] \in {Modules[i], "zeros", "text"}
        /\ r.op = "read" /\ ans[c] = "ok" => got[c] = old
        /\ Writer(r) =>
              /\ ans[c] = "ok" => now = new /\ (r.op = "option" => r.pwd = r.board)
              /\ ans[c] = "failed" => \A i \in DOMAIN now : now[i] \in {old[i], new[i]}
              /\ ans[c] \in {"denied", "invalid"} => now = old

(* Lost updates never reach further than what was asked: a bit that nobody  *)
(* asked to write, with the password an option needs, is as it was, however *)
(* the requests for its board overlapped, unless requests for two boards of *)
(* that kind ran at once (they share g_szArg_netif, or eeprom[]) or, for a  *)
(* module, a socket was left unbound.                                       *)
UnaskedStays == \A b \in Board, i \in Byte, x \in Bit :
    <<b, i, x>> \notin history.asked /\ Kind(b) \notin history.crossed =>
        (x \in memory[b].block[i] <=> x \in Initial[b][i])

(* A 40G board's checksum: whatever is answered 0 undisturbed leaves a good *)
(* one, and unless all the options were written, it was good before: damage *)
(* is found (read_options), never covered up by a new checksum.             *)
ChecksumHolds == \A c \in Client :
    Undisturbed(c) /\ req[c].board \in Ftdi /\ ans[c] = "ok" =>
        LET r == req[c] IN
          /\ Valid(memory[r.board])
          /\ ~(r.op = "write" /\ r.first..r.last = 1..FtdiBytes) => Valid(Before(c))
=============================================================================
