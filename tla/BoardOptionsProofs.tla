------------------------- MODULE BoardOptionsProofs --------------------------
(* Proofs about BoardOptions, for any number of clients, modules and 40G    *)
(* boards, any requests and any kinds of failure: types, that bits nobody   *)
(* asked to write stay, and that an undisturbed request does exactly what   *)
(* it says and leaves good checksums.                                       *)
EXTENDS BoardOptions, FiniteSetTheorems, TLAPS

PanelPlaces  == {"panelRead", "panelWrite"}
ModulePlaces == {"clear", "lookup", "socket", "bind", "command"}
FtdiPlaces   == {"init", "read", "take", "readAgain", "patch", "store", "write"}
Span(r)      == r.first..r.last
AllWritten(r) == r.op = "write" /\ Span(r) = 1..FtdiBytes

(* What a request is where it stands. *)
Where(c) ==
    LET r == req[c] IN
    /\ at[c] # "idle" => r \in Request /\ (r.op = "mac" => put[c] = <<>>)
    /\ at[c] \in PanelPlaces => r.board = Panel /\ r.last <= Bytes
    /\ at[c] = "panelRead" => macs[c] = <<>>
    /\ at[c] = "panelWrite" => Writer(r) /\ DOMAIN put[c] = Byte
    /\ at[c] \in ModulePlaces =>
          /\ IF r.op = "mac" THEN Len(macs[c]) < Len(Modules)
                             ELSE r.board \in Module /\ r.last <= Bytes
          /\ put[c] # <<>> => Writer(r) /\ DOMAIN put[c] = Span(r)
    /\ at[c] \in FtdiPlaces =>
          /\ r.board \in Ftdi /\ r.last <= FtdiBytes
          /\ Writing(c) => Writer(r)
          /\ r.op = "option" => r.pwd = r.board
    /\ at[c] \in {"init", "read", "take"} /\ Writing(c) => DOMAIN put[c] = Span(r)
    /\ at[c] \in {"readAgain", "patch", "store", "write"} => Writing(c)
    /\ at[c] = "store" => sum[c] \in Sums

Named == \A b \in {Panel} \cup Module : memory[b].id = b

(* Requests that run at the same time are remembered as such. *)
Noted == \A c \in Client : at[c] # "idle" =>
            /\ Asks(req[c]) \subseteq history.asked
            /\ \A d \in Client \ {c} : at[d] # "idle" =>
                  /\ \A k \in Kinds(req[c]) \cap Kinds(req[d]) :
                        Cardinality(Targets(req[c]) \cup Targets(req[d])) > 1
                           => k \in history.crossed
                  /\ Disturbs(req[d], req[c]) => c \in history.disturbed

(* What a client shares is its own board's, while nobody crosses it. *)
Steady(c, k) == k \notin history.crossed \/ c \notin history.disturbed
Shares(c) ==
    /\ at[c] \in {"socket", "bind"} /\ Steady(c, "module") => netif \in {"", Target(c)}
    /\ at[c] = "command" /\ Steady(c, "module") => sock[c] = Target(c)
    /\ at[c] \in FtdiPlaces \ {"init"} /\ Steady(c, "ftdi")
          => ctx \in {"closed", req[c].board}

(* Bits that nobody asked to write. *)
Kept(asked, b, block) ==
    \A i \in DOMAIN block, x \in Bit :
       <<b, i, x>> \notin asked => (x \in block[i] <=> x \in Initial[b][i])
MemoryKept == \A b \in Board :
                 Kind(b) \notin history.crossed => Kept(history.asked, b, memory[b].block)
Carried(c) ==
    LET b == req[c].board IN
    at[c] # "idle" /\ Kind(b) \notin history.crossed =>
       /\ Kept(history.asked, b, put[c])
       /\ at[c] \in {"take", "patch", "store", "write"} => 
             Kept(history.asked, b, eeprom.block)

(* An undisturbed request, step by step. *)
PanelExact(c) ==
    LET r == req[c]  before == Before(c) IN
    /\ at[c] \in PanelPlaces => memory[Panel] = before
    /\ at[c] = "panelWrite" =>
          put[c] = After(r, before.block) /\ (r.op = "option" => r.pwd = r.board)
ModuleExact(c) ==
    LET r == req[c]  before == Before(c) IN
    at[c] \in ModulePlaces /\ r.op # "mac" =>
       /\ \A i \in Span(r) : memory[r.board].block[i] = before.block[i]
       /\ Writing(c) => /\ put[c] = Dealt(r, before.block)
                        /\ r.op = "option" => r.pwd = r.board
FtdiExact(c) ==
    LET r == req[c]  before == Before(c)  after == After(r, before.block) IN
    at[c] \in FtdiPlaces =>
       /\ memory[r.board] = before
       /\ Writing(c) => Over(put[c], before.block) = after
       /\ at[c] # "init" => ctx = r.board
       /\ at[c] \in {"take", "patch"} => eeprom = before
       /\ at[c] \in {"store", "write"} => eeprom.id = before.id /\ eeprom.block = after
       /\ at[c] = "store" => sum[c] = Checksum(eeprom)
       /\ at[c] = "write" => Valid(eeprom)
       /\ (at[c] \in {"readAgain", "patch", "store", "write"}
             \/ (r.op = "option" /\ Writing(c)))
          /\ ~AllWritten(r) => Valid(before)
MacsExact(c) ==
    req[c].op = "mac" =>
       \A i \in DOMAIN macs[c] : macs[c][i] \in {Modules[i], "zeros", "text"}
Answered(c) ==
    LET r == req[c]
        now == Part(memory[r.board].block, r)
        old == Part(Before(c).block, r)
        new == Part(After(r, Before(c).block), r)
    IN  at[c] = "answered" =>
        /\ r.op = "read" /\ ans[c] = "ok" => got[c] = old
        /\ Writer(r) =>
              /\ ans[c] = "ok" => now = new /\ (r.op = "option" => r.pwd = r.board)
              /\ ans[c] = "failed" => \A i \in DOMAIN now : now[i] \in {old[i], new[i]}
              /\ ans[c] \in {"denied", "invalid"} => now = old
        /\ r.board \in Ftdi /\ ans[c] = "ok" =>
              /\ Valid(memory[r.board])
              /\ ~AllWritten(r) => Valid(Before(c))
Exact(c) ==
    at[c] # "idle" /\ c \notin history.disturbed =>
       /\ PanelExact(c) /\ ModuleExact(c) /\ FtdiExact(c)
       /\ MacsExact(c) /\ Answered(c)

Own(c) == Where(c) /\ Shares(c) /\ Carried(c) /\ Exact(c)
IndInv == /\ TypeOK /\ Named /\ Noted /\ MemoryKept
          /\ \A c \in Client : Own(c)

-----------------------------------------------------------------------------
(* The three kinds of boards. *)
LEMMA KindFacts ==
    /\ Kind(Panel) = "panel"
    /\ \A b \in Module : Kind(b) = "module"
    /\ \A b \in Ftdi : Kind(b) = "ftdi"
    /\ \A b \in Board : Kind(b) \in {"panel", "module", "ftdi"}
  BY BoardAssumption DEF Kind, Board

LEMMA ModuleFacts ==
    /\ IsFiniteSet(Module)
    /\ \A i \in 1..Len(Modules) : Modules[i] \in Module
    /\ Len(Modules) \in Nat \ {0}
  <1>1. Modules \in Seq(Module) /\ Modules # <<>> BY BoardAssumption
  <1>2. Len(Modules) \in Nat /\ Len(Modules) # 0 /\ DOMAIN Modules = 1..Len(Modules)
    BY <1>1
  <1>3. IsFiniteSet(1..Len(Modules)) BY <1>2, FS_Interval
  <1>4. Modules \in Surjection(1..Len(Modules), Module)
    BY <1>1, <1>2 DEF Surjection, Module
  <1>5. IsFiniteSet(Module) BY <1>3, <1>4, FS_Surjection
  <1>6. QED BY <1>2, <1>5 DEF Module

(* Requests that do not cross are for one board. *)
LEMMA OneTarget ==
    ASSUME NEW r \in Request \cup {NoRequest}, NEW s \in Request \cup {NoRequest},
           ~(Cardinality(Targets(r) \cup Targets(s)) > 1),
           NEW x \in Targets(r) \cup Targets(s), NEW y \in Targets(r) \cup Targets(s)
    PROVE  x = y
  <1> DEFINE T == Targets(r) \cup Targets(s)
  <1>1. IsFiniteSet(Targets(r)) /\ IsFiniteSet(Targets(s))
    BY ModuleFacts, FS_Singleton DEF Targets
  <1>2. IsFiniteSet(T) BY <1>1, FS_Union
  <1>3. Cardinality({x, y}) <= Cardinality(T) /\ Cardinality(T) \in Nat
    BY <1>2, FS_Subset, FS_CardinalityType
  <1>4. ASSUME x # y PROVE Cardinality({x, y}) = 2
    <2>1. IsFiniteSet({x}) /\ Cardinality({x}) = 1 BY FS_Singleton
    <2>2. Cardinality({x} \cup {y}) = Cardinality({x}) + 1
      BY <1>4, <2>1, FS_AddElement
    <2>3. {x} \cup {y} = {x, y} OBVIOUS
    <2>4. QED BY <2>1, <2>2, <2>3
  <1>5. IsFiniteSet({x, y}) BY <1>2, FS_Subset
  <1>6. QED BY <1>3, <1>4

-----------------------------------------------------------------------------
(* Blocks. *)
LEMMA OverFacts ==
    ASSUME NEW new, NEW old
    PROVE  /\ DOMAIN Over(new, old) = DOMAIN old
           /\ \A i \in DOMAIN old :
                 Over(new, old)[i] = IF i \in DOMAIN new THEN new[i] ELSE old[i]
  BY DEF Over

LEMMA OverType ==
    ASSUME NEW block \in Block, NEW new, new \in [DOMAIN new -> SUBSET Bit]
    PROVE  Over(new, block) \in Block
  BY DEF Over, Block

LEMMA OverTwice ==
    ASSUME NEW new, NEW old
    PROVE  /\ Over(Over(new, old), old) = Over(new, old)
           /\ Over(old, old) = [i \in DOMAIN old |-> old[i]]
  BY DEF Over

LEMMA DealtFacts ==
    ASSUME NEW r, NEW block
    PROVE  /\ DOMAIN Dealt(r, block) = Span(r) /\ DOMAIN Fill(r) = Span(r)
           /\ \A i \in Span(r) :
                Dealt(r, block)[i] = IF r.op = "write"
                                       THEN IF r.data = 0 THEN {} ELSE Bit
                                       ELSE BitOptionDeal(block[i], r.bit, r.data)
           /\ r.op = "write" => Dealt(r, block) = Fill(r)
           /\ Fill(r) \in [Span(r) -> SUBSET Bit]
  BY DEF Dealt, Fill, Span

LEMMA SpanFacts ==
    ASSUME NEW r \in Request
    PROVE  /\ r.first \in Span(r) /\ r.first \in Nat \ {0} /\ r.last \in Nat
           /\ \A n \in Nat : r.last <= n => Span(r) \subseteq 1..n
           /\ \A f : DOMAIN f = Span(r) => f # <<>>
  <1>1. r.first \in Nat \ {0} /\ r.last \in Nat /\ r.first <= r.last
    BY BoardAssumption
  <1>2. r.first \in Span(r) BY <1>1 DEF Span
  <1>3. DOMAIN <<>> = {} OBVIOUS
  <1>4. QED BY <1>1, <1>2, <1>3 DEF Span

LEMMA DealtType ==
    ASSUME NEW r, NEW block \in Block, Span(r) \subseteq Byte
    PROVE  Dealt(r, block) \in [Span(r) -> SUBSET Bit]
  BY DEF Dealt, Fill, Span, Block, BitOptionDeal

(* Only the bits a request asks for differ in what it makes of a block. *)
LEMMA KeptOver ==
    ASSUME NEW asked, NEW b, NEW new, NEW old, Kept(asked, b, new), Kept(asked, b, old)
    PROVE  Kept(asked, b, Over(new, old))
  BY DEF Kept, Over

LEMMA KeptMore ==
    ASSUME NEW asked, NEW more, asked \subseteq more, NEW b, NEW block,
           Kept(asked, b, block)
    PROVE  Kept(more, b, block)
  BY DEF Kept

LEMMA KeptFill ==
    ASSUME NEW asked, NEW r \in Request, r.op = "write", Asks(r) \subseteq asked
    PROVE  Kept(asked, r.board, Fill(r))
  BY DEF Kept, Fill, Asks

LEMMA KeptDealt ==
    ASSUME NEW asked, NEW r \in Request, Writer(r), r.op = "option" => r.pwd = r.board,
           Asks(r) \subseteq asked, NEW block, Span(r) \subseteq DOMAIN block,
           Kept(asked, r.board, block)
    PROVE  Kept(asked, r.board, Dealt(r, block))
  <1>1. CASE r.op = "write" BY <1>1, KeptFill, DealtFacts
  <1>2. CASE r.op = "option"
    <2> SUFFICES ASSUME NEW i \in Span(r), NEW x \in Bit, <<r.board, i, x>> \notin asked
                 PROVE  x \in Dealt(r, block)[i] <=> x \in Initial[r.board][i]
      BY DealtFacts DEF Kept
    <2>1. x # r.bit BY <1>2 DEF Asks, Span
    <2>2. x \in BitOptionDeal(block[i], r.bit, r.data) <=> x \in block[i]
      BY <2>1 DEF BitOptionDeal
    <2>3. x \in block[i] <=> x \in Initial[r.board][i] BY DEF Kept
    <2>4. QED BY <1>2, <2>2, <2>3, DealtFacts
  <1>3. QED BY <1>1, <1>2 DEF Writer

(* Putting the dealt bytes over a block once more changes nothing. *)
LEMMA AfterFacts ==
    ASSUME NEW r, NEW block
    PROVE  /\ After(r, block) = Over(Dealt(r, block), block)
           /\ Changed(r, block) = After(r, block)
           /\ Over(After(r, block), block) = After(r, block)
           /\ DOMAIN After(r, block) = DOMAIN block
  BY OverTwice, OverFacts DEF After, Changed

(* What boards' EEPROMs hold at first. *)
LEMMA FreshFacts ==
    \A b \in Board : Fresh(b) \in Images /\ Damaged(b) \in Images
  <1>1. \A b \in Board : Initial[b] \in Block BY BoardAssumption
  <1>2. QED BY <1>1 DEF Fresh, Damaged, Image, Images, Sums

-----------------------------------------------------------------------------
(* A step of a client's running request changes nothing of the others', and *)
(* of what they share only what its place allows.                           *)
LocalStep(c) ==
    /\ at[c] \notin {"idle", "answered"} /\ at'[c] # "idle"
    /\ UNCHANGED <<req, history>>
    /\ \A d \in Client \ {c} :
          /\ at'[d] = at[d] /\ put'[d] = put[d] /\ got'[d] = got[d]
          /\ sock'[d] = sock[d] /\ sum'[d] = sum[d]
          /\ macs'[d] = macs[d] /\ ans'[d] = ans[d]
Writes(c) ==
    \/ memory' = memory
    \/ at[c] = "panelWrite" /\ \A b \in Board \ {Panel} : memory'[b] = memory[b]
    \/ /\ at[c] = "command" /\ Writing(c) /\ sock[c] \in Module
       /\ \A b \in Board \ {sock[c]} : memory'[b] = memory[b]
       /\ \A i \in Byte \ Span(req[c]) :
             memory'[sock[c]].block[i] = memory[sock[c]].block[i]
    \/ at[c] = "write" /\ \A b \in Board \ Ftdi : memory'[b] = memory[b]
SharedStep(c) ==
    /\ Writes(c) /\ MemoryKept'
    /\ netif' = netif \/ (at[c] \in ModulePlaces /\ netif' \in {"", Target(c)})
    /\ \/ UNCHANGED <<ctx, eeprom>>
       \/ /\ at[c] \in FtdiPlaces /\ ctx' \in {ctx, "closed", req[c].board}
          /\ "ftdi" \notin history.crossed /\ eeprom' # eeprom
                => Kept(history.asked, req[c].board, eeprom'.block)

(* Who is at a place has a request of that kind. *)
LEMMA PlaceKinds ==
    ASSUME TypeOK, NEW c \in Client, Where(c)
    PROVE  /\ req[c] \in Request \cup {NoRequest} /\ req[c].board \in Board
           /\ at[c] \in PanelPlaces => "panel" \in Kinds(req[c])
           /\ at[c] \in ModulePlaces =>
                 "module" \in Kinds(req[c]) /\ Target(c) \in Targets(req[c])
                 /\ Target(c) \in Module
           /\ at[c] \in FtdiPlaces =>
                 "ftdi" \in Kinds(req[c]) /\ Targets(req[c]) = {req[c].board}
                 /\ Target(c) = req[c].board /\ req[c].op # "mac"
           /\ Kind(req[c].board) \in Kinds(req[c])
  <1>1. req[c] \in Request \cup {NoRequest} BY DEF TypeOK
  <1>2. req[c].board \in Board /\ (req[c].op = "mac" => req[c].board = Panel)
    <2>1. CASE req[c] \in Request BY <2>1, BoardAssumption
    <2>2. CASE req[c] = NoRequest BY <2>2 DEF NoRequest, Board
    <2>3. QED BY <1>1, <2>1, <2>2
  <1>3. CASE req[c].op = "mac"
    <2>1. Kinds(req[c]) = {"panel", "module"} /\ Targets(req[c]) = Module
      BY <1>3 DEF Kinds, Targets
    <2>2. at[c] \notin FtdiPlaces
      BY <1>2, <1>3, BoardAssumption DEF Where
    <2>3. at[c] \in ModulePlaces => Target(c) \in Module
      <3>1. SUFFICES ASSUME at[c] \in ModulePlaces PROVE Target(c) \in Module OBVIOUS
      <3>2. Len(macs[c]) < Len(Modules) BY <1>3, <3>1 DEF Where
      <3>3. macs[c] \in Seq(Module \cup {"zeros", "text"}) BY DEF TypeOK
      <3> Len(macs[c]) \in Nat BY ONLY <3>3
      <3>4. Len(macs[c]) + 1 \in 1..Len(Modules) BY <3>2, <3>3, ModuleFacts
      <3>5. QED BY <1>3, <3>4, ModuleFacts DEF Target
    <2>4. QED BY <1>1, <1>2, <1>3, <2>1, <2>2, <2>3, KindFacts
  <1>4. CASE req[c].op # "mac"
    <2>1. /\ Kinds(req[c]) = {Kind(req[c].board)} /\ Targets(req[c]) = {req[c].board}
          /\ Target(c) = req[c].board
      BY <1>4 DEF Kinds, Targets, Target
    <2>2. /\ at[c] \in PanelPlaces => req[c].board = Panel
          /\ at[c] \in ModulePlaces => req[c].board \in Module
          /\ at[c] \in FtdiPlaces => req[c].board \in Ftdi
      BY <1>4 DEF Where
    <2>3. QED BY <1>1, <1>2, <1>4, <2>1, <2>2, KindFacts
  <1>5. QED BY <1>3, <1>4

(* Two that share something are for the same board, or noted. *)
LEMMA SteadyAlike ==
    ASSUME IndInv, NEW c \in Client, NEW d \in Client \ {c},
           at[c] # "idle", at[d] # "idle",
           NEW k \in {"module", "ftdi"}, k \in Kinds(req[c]), k \in Kinds(req[d]),
           Steady(c, k)
    PROVE  \A x, y \in Targets(req[c]) \cup Targets(req[d]) : x = y
  <1>1. req[c] \in Request \cup {NoRequest} /\ req[d] \in Request \cup {NoRequest}
    BY DEF IndInv, TypeOK
  <1>2. k = "ftdi" => Disturbs(req[d], req[c]) BY DEF Disturbs
  <1>3. Targets(req[d]) \cup Targets(req[c]) = Targets(req[c]) \cup Targets(req[d])
    OBVIOUS
  <1>4. k = "module" /\ Cardinality(Targets(req[c]) \cup Targets(req[d])) > 1
          => Disturbs(req[d], req[c])
    BY <1>3 DEF Disturbs
  <1>5. /\ Cardinality(Targets(req[c]) \cup Targets(req[d])) > 1 => k \in history.crossed
        /\ Disturbs(req[d], req[c]) => c \in history.disturbed
    BY DEF IndInv, Noted
  <1>6. ~(Cardinality(Targets(req[c]) \cup Targets(req[d])) > 1)
    BY <1>2, <1>4, <1>5 DEF Steady
  <1>7. QED BY <1>1, <1>6, OneTarget

(* What a step of c leaves an undisturbed client d. *)
LEMMA OthersMemory ==
    ASSUME IndInv, TypeOK', NEW c \in Client, LocalStep(c), SharedStep(c),
           NEW d \in Client \ {c}, at[d] # "idle", d \notin history.disturbed
    PROVE  LET b == req[d].board IN
           /\ b \notin Module => memory'[b] = memory[b]
           /\ \A i \in Span(req[d]) \cap Byte : memory'[b].block[i] = memory[b].block[i]
           /\ b \in Ftdi => UNCHANGED <<ctx, eeprom>>
  <1> DEFINE b == req[d].board
  <1>1. Where(c) /\ Where(d) BY DEF IndInv, Own
  <1>2. b \in Board /\ Kind(b) \in Kinds(req[d]) BY <1>1, PlaceKinds DEF IndInv
  <1>3. at[c] # "idle" BY DEF LocalStep
  <1>4. ~Disturbs(req[c], req[d]) BY <1>3 DEF IndInv, Noted
  <1>5. b \in Ftdi => at[c] \notin FtdiPlaces
    <2> SUFFICES ASSUME b \in Ftdi, at[c] \in FtdiPlaces PROVE FALSE OBVIOUS
    <2>1. "ftdi" \in Kinds(req[d]) /\ "ftdi" \in Kinds(req[c])
      BY <1>1, <1>2, KindFacts, PlaceKinds DEF IndInv
    <2>2. QED BY <1>4, <2>1 DEF Disturbs
  <1>6. b = Panel => at[c] # "panelWrite"
    <2> SUFFICES ASSUME b = Panel, at[c] = "panelWrite" PROVE FALSE OBVIOUS
    <2>1. "panel" \in Kinds(req[d]) /\ "panel" \in Kinds(req[c]) /\ Writer(req[c])
      BY <1>1, <1>2, KindFacts, PlaceKinds DEF IndInv, PanelPlaces, Where
    <2>2. QED BY <1>4, <2>1 DEF Disturbs
  <1>7. b \in Module /\ at[c] = "command" /\ Writing(c)
          => Span(req[c]) \cap Span(req[d]) = {}
    <2> SUFFICES ASSUME b \in Module, at[c] = "command", Writing(c)
                 PROVE  Span(req[c]) \cap Span(req[d]) = {}
      OBVIOUS
    <2>1. "module" \in Kinds(req[d]) /\ "module" \in Kinds(req[c]) /\ Writer(req[c])
      BY <1>1, <1>2, KindFacts, PlaceKinds DEF IndInv, ModulePlaces, Where, Writing
    <2>2. QED BY <1>4, <2>1 DEF Disturbs, Span
  <1>8. /\ b \notin Module => memory'[b] = memory[b]
        /\ \A i \in Span(req[d]) \cap Byte : memory'[b].block[i] = memory[b].block[i]
    <2>1. CASE memory' = memory BY <2>1
    <2>2. CASE at[c] = "panelWrite" /\ \A e \in Board \ {Panel} : memory'[e] = memory[e]
      BY <1>2, <1>6, <2>2
    <2>3. CASE /\ at[c] = "command" /\ Writing(c) /\ sock[c] \in Module
               /\ \A e \in Board \ {sock[c]} : memory'[e] = memory[e]
               /\ \A i \in Byte \ Span(req[c]) :
                     memory'[sock[c]].block[i] = memory[sock[c]].block[i]
      BY <1>2, <1>7, <2>3
    <2>4. CASE at[c] = "write" /\ \A e \in Board \ Ftdi : memory'[e] = memory[e]
      BY <1>2, <1>5, <2>4 DEF FtdiPlaces
    <2>5. QED BY <2>1, <2>2, <2>3, <2>4 DEF SharedStep, Writes
  <1>9. b \in Ftdi => UNCHANGED <<ctx, eeprom>> BY <1>5 DEF SharedStep
  <1>10. QED BY <1>8, <1>9

LEMMA OthersKeep ==
    ASSUME IndInv, TypeOK', NEW c \in Client, LocalStep(c), SharedStep(c),
           NEW d \in Client \ {c}
    PROVE  Own(d)'
  <1>1. /\ at'[d] = at[d] /\ req'[d] = req[d] /\ put'[d] = put[d] /\ got'[d] = got[d]
        /\ sock'[d] = sock[d] /\ sum'[d] = sum[d] /\ macs'[d] = macs[d]
        /\ ans'[d] = ans[d] /\ history' = history /\ at[c] # "idle"
    BY DEF LocalStep
  <1>2. Own(d) /\ Where(d) /\ Where(c) BY DEF IndInv, Own
  <1>3. Where(d)' BY <1>1, <1>2 DEF Where, Writing
  <1>4. Target(d)' = Target(d) /\ Writing(d)' = Writing(d) /\ Before(d)' = Before(d)
    BY <1>1 DEF Target, Writing, Before
  <1>5. Shares(d)'
    <2>1. ASSUME at[d] \in {"socket", "bind"}, Steady(d, "module")
          PROVE  netif' \in {"", Target(d)}
      <3>1. CASE netif' = netif BY <1>2, <2>1, <3>1 DEF Own, Shares
      <3>2. CASE at[c] \in ModulePlaces /\ netif' \in {"", Target(c)}
        <4>1. "module" \in Kinds(req[c]) /\ Target(c) \in Targets(req[c])
          BY <1>2, <3>2, PlaceKinds DEF IndInv
        <4>2. "module" \in Kinds(req[d]) /\ Target(d) \in Targets(req[d])
          BY <1>2, <2>1, PlaceKinds DEF IndInv, ModulePlaces
        <4>3. \A x, y \in Targets(req[d]) \cup Targets(req[c]) : x = y
          BY <1>1, <2>1, <4>1, <4>2, SteadyAlike
        <4>4. Target(c) = Target(d) BY <4>1, <4>2, <4>3
        <4>5. QED BY <3>2, <4>4
      <3>3. QED BY <3>1, <3>2 DEF SharedStep
    <2>2. ASSUME at[d] \in FtdiPlaces \ {"init"}, Steady(d, "ftdi")
          PROVE  ctx' \in {"closed", req[d].board}
      <3>1. ctx \in {"closed", req[d].board} BY <1>2, <2>2 DEF Own, Shares
      <3>2. CASE ctx' = ctx BY <3>1, <3>2
      <3>3. CASE at[c] \in FtdiPlaces /\ ctx' \in {ctx, "closed", req[c].board}
        <4>1. "ftdi" \in Kinds(req[c]) /\ req[c].board \in Targets(req[c])
          BY <1>2, <3>3, PlaceKinds DEF IndInv
        <4>2. "ftdi" \in Kinds(req[d]) /\ req[d].board \in Targets(req[d]) /\ at[d] # "idle"
          BY <1>2, <2>2, PlaceKinds DEF IndInv, FtdiPlaces
        <4>3. \A x, y \in Targets(req[d]) \cup Targets(req[c]) : x = y
          BY <1>1, <2>2, <4>1, <4>2, SteadyAlike
        <4>4. req[c].board = req[d].board BY <4>1, <4>2, <4>3
        <4>5. QED BY <3>1, <3>3, <4>4
      <3>4. QED BY <3>2, <3>3 DEF SharedStep
    <2>3. at[d] = "command" /\ Steady(d, "module") => sock[d] = Target(d)
      BY <1>2 DEF Own, Shares
    <2>4. QED BY <1>1, <1>4, <2>1, <2>2, <2>3 DEF Shares, Steady
  <1>6. Carried(d)'
    <2> SUFFICES ASSUME at[d] # "idle", Kind(req[d].board) \notin history.crossed
                 PROVE  /\ Kept(history.asked, req[d].board, put[d])
                        /\ at[d] \in {"take", "patch", "store", "write"} =>
                              Kept(history.asked, req[d].board, eeprom'.block)
      BY <1>1 DEF Carried, Kept
    <2>1. /\ Kept(history.asked, req[d].board, put[d])
          /\ at[d] \in {"take", "patch", "store", "write"} =>
                Kept(history.asked, req[d].board, eeprom.block)
      BY <1>2 DEF Own, Carried
    <2>2. ASSUME at[d] \in {"take", "patch", "store", "write"}, eeprom' # eeprom
          PROVE  Kept(history.asked, req[d].board, eeprom'.block)
      <3>1. at[c] \in FtdiPlaces BY <2>2 DEF SharedStep
      <3>2. at[d] \in FtdiPlaces BY <2>2 DEF FtdiPlaces
      <3>3. "ftdi" \in Kinds(req[c]) /\ req[c].board \in Targets(req[c])
        BY <1>2, <3>1, PlaceKinds DEF IndInv
      <3>4. "ftdi" \in Kinds(req[d]) /\ req[d].board \in Targets(req[d])
            /\ req[d].board \in Ftdi
        BY <1>2, <3>2, PlaceKinds DEF IndInv, Where
      <3>5. "ftdi" \notin history.crossed BY <3>4, KindFacts
      <3>6. \A x, y \in Targets(req[d]) \cup Targets(req[c]) : x = y
        BY <1>1, <3>3, <3>4, <3>5, SteadyAlike DEF Steady
      <3>7. req[c].board = req[d].board BY <3>3, <3>4, <3>6
      <3>8. QED BY <2>2, <3>5, <3>7 DEF SharedStep
    <2>3. QED BY <2>1, <2>2
  <1>7. Exact(d)'
    <2> SUFFICES ASSUME at[d] # "idle", d \notin history.disturbed
                 PROVE  /\ PanelExact(d)' /\ ModuleExact(d)' /\ FtdiExact(d)'
                        /\ MacsExact(d)' /\ Answered(d)'
      BY <1>1 DEF Exact
    <2> DEFINE r == req[d]
               b == r.board
    <2>1. PanelExact(d) /\ ModuleExact(d) /\ FtdiExact(d) /\ MacsExact(d) /\ Answered(d)
      BY <1>2 DEF Own, Exact
    <2>2. /\ b \notin Module => memory'[b] = memory[b]
          /\ \A i \in Span(r) \cap Byte : memory'[b].block[i] = memory[b].block[i]
          /\ b \in Ftdi => UNCHANGED <<ctx, eeprom>>
      BY OthersMemory
    <2>3. b \in Board BY <1>2, PlaceKinds DEF IndInv
    <2>4. PanelExact(d)'
      <3>1. at[d] \in PanelPlaces => memory'[Panel] = memory[Panel]
        BY <1>2, <2>2, BoardAssumption DEF Where
      <3>2. QED BY <1>1, <1>4, <2>1, <3>1 DEF PanelExact
    <2>5. ModuleExact(d)'
      <3>1. at[d] \in ModulePlaces /\ r.op # "mac" => Span(r) \subseteq Byte
        BY <1>2, SpanFacts, BoardAssumption DEF Where, ModulePlaces, Byte
      <3>2. QED BY <1>1, <1>4, <2>1, <2>2, <3>1 DEF ModuleExact
    <2>6. FtdiExact(d)'
      <3>1. at[d] \in FtdiPlaces => b \in Ftdi BY <1>2 DEF Where
      <3>2. at[d] \in FtdiPlaces => UNCHANGED <<ctx, eeprom>> /\ memory'[b] = memory[b]
        BY <2>2, <3>1, BoardAssumption
      <3>3. QED BY <1>1, <1>4, <2>1, <3>2 DEF FtdiExact, Valid, Checksum
    <2>7. MacsExact(d)' BY <1>1, <2>1 DEF MacsExact
    <2>8. Answered(d)'
      <3>1. memory[b].block \in Block /\ memory'[b].block \in Block
        BY <2>3 DEF IndInv, TypeOK, Images
      <3>2. Part(memory'[b].block, r) = Part(memory[b].block, r)
        BY <2>2, <3>1 DEF Part, Span, Block
      <3>3. b \in Ftdi => memory'[b] = memory[b] BY <2>2, BoardAssumption
      <3>4. QED BY <1>1, <1>4, <2>1, <3>2, <3>3 DEF Answered, Valid, Checksum
    <2>9. QED BY <2>4, <2>5, <2>6, <2>7, <2>8
  <1>8. QED BY <1>3, <1>5, <1>6, <1>7 DEF Own

(* What is left to show of a step: types, and the client's own part. *)
LEMMA StepKeeps ==
    ASSUME IndInv, TypeOK', Named', NEW c \in Client, LocalStep(c), SharedStep(c), Own(c)'
    PROVE  IndInv'
  <1>1. \A d \in Client : Own(d)' BY OthersKeep
  <1>2. \A d \in Client : (at'[d] # "idle" <=> at[d] # "idle") BY DEF LocalStep
  <1>3. req' = req /\ history' = history BY DEF LocalStep
  <1>4. Noted' BY <1>2, <1>3 DEF IndInv, Noted
  <1>5. QED BY <1>1, <1>4 DEF IndInv, SharedStep

-----------------------------------------------------------------------------
(* Nothing shared changes. *)
LEMMA QuietStep ==
    ASSUME IndInv, NEW c \in Client, UNCHANGED <<shared, history>>
    PROVE  SharedStep(c) /\ Named'
  <1>1. MemoryKept' BY DEF IndInv, MemoryKept, shared, Kept
  <1>2. Named' BY DEF IndInv, Named, shared
  <1>3. QED BY <1>1, <1>2 DEF SharedStep, Writes, shared

(* The bits of an undisturbed board's bytes are those before or those       *)
(* asked for.                                                               *)
LEMMA HereFacts ==
    ASSUME IndInv, NEW c \in Client, at[c] # "idle"
    PROVE  /\ Where(c) /\ Shares(c) /\ Carried(c) /\ Exact(c)
           /\ req[c] \in Request /\ req[c].board \in Board
           /\ Asks(req[c]) \subseteq history.asked
           /\ \A b \in Board : memory[b] \in Images /\ memory[b].block \in Block
           /\ eeprom \in Images /\ eeprom.block \in Block
           /\ Before(c) \in Images /\ Before(c).block \in Block
           /\ put[c] \in [DOMAIN put[c] -> SUBSET Bit]
  <1>1. Own(c) BY DEF IndInv
  <1>2. Asks(req[c]) \subseteq history.asked BY DEF IndInv, Noted
  <1>3. req[c] \in Request /\ req[c].board \in Board
    BY <1>1, BoardAssumption DEF Own, Where
  <1>4. /\ \A b \in Board : memory[b] \in Images
        /\ eeprom \in Images /\ Before(c) \in Images
        /\ put[c] \in [DOMAIN put[c] -> SUBSET Bit]
    BY DEF IndInv, TypeOK, Before
  <1>5. \A i \in Images : i.block \in Block BY DEF Images
  <1>6. QED BY <1>1, <1>2, <1>3, <1>4, <1>5 DEF Own

(* A request that is answered without having written: nothing to show but   *)
(* of the answer.                                                           *)
LEMMA AnswersOwn ==
    ASSUME IndInv, NEW c \in Client, at[c] # "idle", NEW a \in {"ok", "failed", "denied"},
           Answers(c, a), LocalStep(c),
           put'[c] = put[c],
           c \notin history.disturbed => MacsExact(c)' /\ Answered(c)'
    PROVE  /\ Own(c)'
           /\ at' \in [Client -> Places]
           /\ ans' \in [Client -> {"none", "ok", "failed", "denied", "invalid"}]
  <1>1. at'[c] = "answered" /\ ans'[c] = a
        /\ at' \in [Client -> Places]
        /\ ans' \in [Client -> {"none", "ok", "failed", "denied", "invalid"}]
    BY DEF Answers, Goes, IndInv, TypeOK, Places
  <1>2. Where(c) /\ Carried(c) BY HereFacts
  <1>3. req'[c] = req[c] /\ history' = history BY DEF LocalStep
  <1>4. Where(c)' BY <1>1, <1>2, <1>3 DEF Where, PanelPlaces, ModulePlaces, FtdiPlaces
  <1>5. Shares(c)' BY <1>1 DEF Shares, FtdiPlaces
  <1>6. Carried(c)' BY <1>1, <1>2, <1>3 DEF Carried, Kept
  <1>7. Exact(c)'
    BY <1>1, <1>3 DEF Exact, PanelExact, ModuleExact, FtdiExact, PanelPlaces,
       ModulePlaces, FtdiPlaces
  <1>8. QED BY <1>1, <1>4, <1>5, <1>6, <1>7 DEF Own

(* No byte has been written yet: what every refusal and failure may say. *)
Untouched(c) ==
    LET b == req[c].board IN
    \A i \in Span(req[c]) \cap Byte : memory[b].block[i] = Before(c).block[i]

LEMMA UntouchedAnswer ==
    ASSUME IndInv, NEW c \in Client, at[c] # "idle", Untouched(c),
           UNCHANGED <<req, memory, history>>, ans'[c] \in {"failed", "denied", "invalid"}
    PROVE  Answered(c)'
  <1> DEFINE r == req[c]
             b == r.board
  <1>1. memory[b].block \in Block /\ Before(c).block \in Block BY HereFacts
  <1>2. Part(memory[b].block, r) = Part(Before(c).block, r)
    BY <1>1 DEF Part, Span, Block, Untouched
  <1>3. Before(c)' = Before(c) BY DEF Before
  <1>4. QED BY <1>2, <1>3 DEF Answered

LEMMA PanelReadKeeps ==
    ASSUME IndInv, NEW c \in Client, PanelRead(c)
    PROVE  IndInv'
  <1> DEFINE r == req[c]
             image == memory[Panel]
  <1>1. at[c] = "panelRead" /\ UNCHANGED <<req, sock, sum, macs, shared, history>>
        /\ at[c] # "idle"
    BY DEF PanelRead
  <1>2. SharedStep(c) /\ Named' BY <1>1, QuietStep
  <1>3. /\ Where(c) /\ Carried(c) /\ Exact(c)
        /\ r \in Request /\ r.board = Panel /\ r.last <= Bytes /\ macs[c] = <<>>
        /\ Asks(r) \subseteq history.asked
        /\ image \in Images /\ image.block \in Block /\ Before(c).block \in Block
        /\ (r.op = "mac" => put[c] = <<>>)
    BY <1>1, HereFacts DEF Where, PanelPlaces
  <1>4. Span(r) \subseteq Byte BY <1>3, SpanFacts, BoardAssumption DEF Byte
  <1>5. image.id = Panel BY DEF IndInv, Named
  <1>6. c \notin history.disturbed => image = Before(c)
    BY <1>1, <1>3 DEF Exact, PanelExact, PanelPlaces
  <1>7. c \notin history.disturbed => Untouched(c)
    BY <1>3, <1>6 DEF Untouched
  <1>8. TypeOK' /\ Own(c)' /\ LocalStep(c)
    <2>1. CASE r.op = "mac" /\ Goes(c, "clear") /\ UNCHANGED <<put, got, ans>>
      <3>1. at' \in [Client -> Places] /\ at'[c] = "clear"
            /\ \A d \in Client \ {c} : at'[d] = at[d]
        BY <2>1 DEF Goes, IndInv, TypeOK, Places
      <3>2. TypeOK' BY <1>1, <2>1, <3>1 DEF IndInv, TypeOK, shared
      <3>3. LocalStep(c) BY <1>1, <2>1, <3>1 DEF LocalStep
      <3>4. Len(macs[c]) < Len(Modules) BY <1>3, ModuleFacts
      <3>5. Where(c)'
        BY <1>1, <1>3, <2>1, <3>1, <3>4 DEF Where, PanelPlaces, ModulePlaces, FtdiPlaces
      <3>6. Shares(c)' BY <3>1 DEF Shares, FtdiPlaces
      <3>7. Carried(c)' BY <1>1, <1>3, <2>1, <3>1 DEF Carried, Kept
      <3>8. Exact(c)'
        BY <1>1, <1>3, <2>1, <3>1 DEF Exact, PanelExact, ModuleExact, FtdiExact,
           MacsExact, Answered, PanelPlaces, ModulePlaces, FtdiPlaces
      <3>9. QED BY <3>2, <3>3, <3>5, <3>6, <3>7, <3>8 DEF Own
    <2>2. CASE /\ r.op = "read" /\ got' = [got EXCEPT ![c] = Part(image.block, r)]
               /\ Answers(c, "ok") /\ UNCHANGED put
      <3>1. LocalStep(c) BY <1>1, <2>2 DEF LocalStep, Answers, Goes, IndInv, TypeOK
      <3>2. Part(image.block, r) \in [DOMAIN Part(image.block, r) -> SUBSET Bit]
        BY <1>3 DEF Part, Block
      <3>3. got'[c] = Part(image.block, r) /\ DOMAIN got' = Client
            /\ \A d \in Client : got'[d] \in [DOMAIN got'[d] -> SUBSET Bit]
        BY <2>2, <3>2 DEF IndInv, TypeOK
      <3>4. c \notin history.disturbed => MacsExact(c)' /\ Answered(c)'
        BY <1>1, <1>3, <1>6, <2>2, <3>3, BoardAssumption
           DEF MacsExact, Answered, Before, Writer
      <3>5. /\ Own(c)' /\ at' \in [Client -> Places]
            /\ ans' \in [Client -> {"none", "ok", "failed", "denied", "invalid"}]
        BY <1>1, <2>2, <3>1, <3>4, AnswersOwn
      <3>6. TypeOK' BY <1>1, <2>2, <3>3, <3>5 DEF IndInv, TypeOK, shared
      <3>7. QED BY <3>1, <3>5, <3>6
    <2>3. CASE /\ r.op = "option" /\ ~CheckPwd(r, image.id)
               /\ Answers(c, "denied") /\ UNCHANGED <<put, got>>
      <3>1. LocalStep(c) BY <1>1, <2>3 DEF LocalStep, Answers, Goes, IndInv, TypeOK
      <3>2. ans'[c] = "denied" BY <2>3 DEF Answers, IndInv, TypeOK
      <3>3. c \notin history.disturbed => MacsExact(c)' /\ Answered(c)'
        BY <1>1, <1>7, <2>3, <3>2, UntouchedAnswer DEF MacsExact, shared
      <3>4. /\ Own(c)' /\ at' \in [Client -> Places]
            /\ ans' \in [Client -> {"none", "ok", "failed", "denied", "invalid"}]
        BY <1>1, <2>3, <3>1, <3>3, AnswersOwn
      <3>5. TypeOK' BY <1>1, <2>3, <3>4 DEF IndInv, TypeOK, shared
      <3>6. QED BY <3>1, <3>4, <3>5
    <2>4. CASE /\ r.op = "write" \/ (r.op = "option" /\ CheckPwd(r, image.id))
               /\ put' = [put EXCEPT ![c] = Changed(r, image.block)]
               /\ Goes(c, "panelWrite") /\ UNCHANGED <<got, ans>>
      <3>1. at' \in [Client -> Places] /\ at'[c] = "panelWrite"
            /\ \A d \in Client \ {c} : at'[d] = at[d]
        BY <2>4 DEF Goes, IndInv, TypeOK, Places
      <3>2. /\ put'[c] = After(r, image.block) /\ DOMAIN put' = Client
            /\ \A d \in Client \ {c} : put'[d] = put[d]
        BY <2>4, AfterFacts DEF IndInv, TypeOK
      <3>3. After(r, image.block) \in Block
        <4>1. Dealt(r, image.block) \in [Span(r) -> SUBSET Bit]
          BY <1>3, <1>4, DealtType
        <4>2. QED BY <1>3, <4>1, OverType DEF After
      <3>4. DOMAIN put'[c] = Byte /\ put'[c] \in [DOMAIN put'[c] -> SUBSET Bit]
        BY <3>2, <3>3 DEF Block
      <3>5. TypeOK' BY <1>1, <2>4, <3>1, <3>2, <3>4 DEF IndInv, TypeOK, shared
      <3>6. LocalStep(c) BY <1>1, <2>4, <3>1, <3>2 DEF LocalStep
      <3>7. Writer(r) /\ (r.op = "option" => r.pwd = r.board) /\ r.op # "mac"
        BY <1>3, <1>5, <2>4 DEF Writer, CheckPwd
      <3>8. Where(c)'
        BY <1>1, <1>3, <3>1, <3>4, <3>7 DEF Where, PanelPlaces, ModulePlaces, FtdiPlaces
      <3>9. Shares(c)' BY <3>1 DEF Shares, FtdiPlaces
      <3>10. Carried(c)'
        <4> SUFFICES ASSUME Kind(Panel) \notin history.crossed
                     PROVE  Kept(history.asked, Panel, put'[c])
          BY <1>1, <1>3, <3>1 DEF Carried, Kept
        <4>1. Kept(history.asked, Panel, image.block)
          BY DEF IndInv, MemoryKept, Board
        <4>2. Kept(history.asked, Panel, Dealt(r, image.block))
          BY <1>3, <1>4, <3>7, <4>1, KeptDealt DEF Block
        <4>3. QED BY <3>2, <4>1, <4>2, KeptOver DEF After
      <3>11. Exact(c)'
        BY <1>1, <1>3, <1>6, <3>1, <3>2, <3>7 DEF Exact, PanelExact, ModuleExact,
           FtdiExact, MacsExact, Answered, PanelPlaces, ModulePlaces, FtdiPlaces,
           Before, shared
      <3>12. QED BY <3>5, <3>6, <3>8, <3>9, <3>10, <3>11 DEF Own
    <2>5. QED BY <2>1, <2>2, <2>3, <2>4 DEF PanelRead
  <1>9. QED BY <1>2, <1>8, StepKeeps

(* A write that was done, or failed half way. *)
LEMMA PartlyAnswer ==
    ASSUME IndInv, NEW c \in Client, at[c] # "idle", UNCHANGED <<req, history>>,
           Writer(req[c]), ans'[c] = "failed",
           memory'[req[c].board].block \in Block,
           \A i \in Span(req[c]) \cap Byte :
              memory'[req[c].board].block[i]
                 \in {Before(c).block[i], After(req[c], Before(c).block)[i]}
    PROVE  Answered(c)'
  <1> DEFINE r == req[c]
             b == r.board
  <1>1. Before(c).block \in Block BY HereFacts
  <1>2. DOMAIN After(r, Before(c).block) = Byte BY <1>1, AfterFacts DEF Block
  <1>3. Before(c)' = Before(c) BY DEF Before
  <1>4. \A i \in DOMAIN Part(memory'[b].block, r) :
           Part(memory'[b].block, r)[i]
              \in {Part(Before(c).block, r)[i], Part(After(r, Before(c).block), r)[i]}
    BY <1>1, <1>2 DEF Part, Span, Block
  <1>5. QED BY <1>3, <1>4 DEF Answered, Writer

LEMMA DoneAnswer ==
    ASSUME IndInv, NEW c \in Client, at[c] # "idle", UNCHANGED <<req, history>>,
           Writer(req[c]), ans'[c] = "ok",
           req[c].board \in Ftdi => /\ Valid(memory'[req[c].board])
                                    /\ ~AllWritten(req[c]) => Valid(Before(c)),
           req[c].op = "option" => req[c].pwd = req[c].board,
           memory'[req[c].board].block \in Block,
           \A i \in Span(req[c]) \cap Byte :
              memory'[req[c].board].block[i] = After(req[c], Before(c).block)[i]
    PROVE  Answered(c)'
  <1> DEFINE r == req[c]
             b == r.board
  <1>1. Before(c).block \in Block BY HereFacts
  <1>2. DOMAIN After(r, Before(c).block) = Byte BY <1>1, AfterFacts DEF Block
  <1>3. Before(c)' = Before(c) BY DEF Before
  <1>4. Part(memory'[b].block, r) = Part(After(r, Before(c).block), r)
    BY <1>1, <1>2 DEF Part, Span, Block
  <1>5. QED BY <1>3, <1>4 DEF Answered, Writer

LEMMA PanelFailsKeeps ==
    ASSUME IndInv, NEW c \in Client, PanelFails(c)
    PROVE  IndInv'
  <1> DEFINE r == req[c]
  <1>1. at[c] = "panelRead" /\ at[c] # "idle"
        /\ UNCHANGED <<req, put, got, sock, sum, macs, shared, history>>
    BY DEF PanelFails
  <1>2. SharedStep(c) /\ Named' BY <1>1, QuietStep
  <1>3. /\ Where(c) /\ Carried(c) /\ Exact(c)
        /\ r \in Request /\ r.board = Panel /\ r.last <= Bytes /\ macs[c] = <<>>
        /\ (r.op = "mac" => put[c] = <<>>)
    BY <1>1, HereFacts DEF Where, PanelPlaces
  <1>4. c \notin history.disturbed => Untouched(c)
    BY <1>1, <1>3 DEF Exact, PanelExact, PanelPlaces, Untouched
  <1>5. TypeOK' /\ Own(c)' /\ LocalStep(c)
    <2>1. CASE r.op = "mac" /\ Goes(c, "clear") /\ UNCHANGED ans
      <3>1. at' \in [Client -> Places] /\ at'[c] = "clear"
            /\ \A d \in Client \ {c} : at'[d] = at[d]
        BY <2>1 DEF Goes, IndInv, TypeOK, Places
      <3>2. TypeOK' BY <1>1, <2>1, <3>1 DEF IndInv, TypeOK, shared
      <3>3. LocalStep(c) BY <1>1, <2>1, <3>1 DEF LocalStep
      <3>4. Len(macs[c]) < Len(Modules) BY <1>3, ModuleFacts
      <3>5. Where(c)'
        BY <1>1, <1>3, <2>1, <3>1, <3>4 DEF Where, PanelPlaces, ModulePlaces, FtdiPlaces
      <3>6. Shares(c)' BY <3>1 DEF Shares, FtdiPlaces
      <3>7. Carried(c)' BY <1>1, <1>3, <2>1, <3>1 DEF Carried, Kept
      <3>8. Exact(c)'
        BY <1>1, <1>3, <2>1, <3>1 DEF Exact, PanelExact, ModuleExact, FtdiExact,
           MacsExact, Answered, PanelPlaces, ModulePlaces, FtdiPlaces
      <3>9. QED BY <3>2, <3>3, <3>5, <3>6, <3>7, <3>8 DEF Own
    <2>2. CASE r.op # "mac" /\ Answers(c, "failed")
      <3>1. LocalStep(c) BY <1>1, <2>2 DEF LocalStep, Answers, Goes, IndInv, TypeOK
      <3>2. ans'[c] = "failed" BY <2>2 DEF Answers, IndInv, TypeOK
      <3>3. c \notin history.disturbed => MacsExact(c)' /\ Answered(c)'
        BY <1>1, <1>4, <2>2, <3>2, UntouchedAnswer DEF MacsExact, shared
      <3>4. /\ Own(c)' /\ at' \in [Client -> Places]
            /\ ans' \in [Client -> {"none", "ok", "failed", "denied", "invalid"}]
        BY <1>1, <2>2, <3>1, <3>3, AnswersOwn
      <3>5. TypeOK' BY <1>1, <3>4 DEF IndInv, TypeOK, shared
      <3>6. QED BY <3>1, <3>4, <3>5
    <2>3. QED BY <2>1, <2>2 DEF PanelFails
  <1>6. QED BY <1>2, <1>5, StepKeeps

(* The block of one board changes, nothing else of it. *)
LEMMA BlockWritten ==
    ASSUME TypeOK, NEW b \in Board, NEW block \in Block,
           memory' = [memory EXCEPT ![b].block = block]
    PROVE  /\ memory' \in [Board -> Images]
           /\ memory'[b].block = block /\ memory'[b].id = memory[b].id
           /\ memory'[b].sum = memory[b].sum
           /\ \A e \in Board \ {b} : memory'[e] = memory[e]
  <1>1. memory \in [Board -> Images] BY DEF TypeOK
  <1>2. memory[b] \in Images BY <1>1
  <1>3. [memory[b] EXCEPT !.block = block] \in Images BY <1>2 DEF Images
  <1>4. memory'[b] = [memory[b] EXCEPT !.block = block] BY <1>1
  <1>5. QED BY <1>1, <1>2, <1>3, <1>4 DEF Images

LEMMA PanelWriteKeeps ==
    ASSUME IndInv, NEW c \in Client, PanelWrite(c)
    PROVE  IndInv'
  <1> DEFINE r == req[c]
             old == memory[Panel].block
             new == memory'[Panel].block
  <1>1. at[c] = "panelWrite" /\ at[c] # "idle"
        /\ UNCHANGED <<req, put, got, sock, sum, macs, netif, ctx, eeprom, history>>
    BY DEF PanelWrite
  <1>2. /\ Where(c) /\ Carried(c) /\ Exact(c)
        /\ r \in Request /\ r.board = Panel /\ r.last <= Bytes
        /\ Writer(r) /\ DOMAIN put[c] = Byte
        /\ old \in Block /\ put[c] \in Block /\ Panel \in Board /\ Panel \notin Ftdi
    BY <1>1, HereFacts, BoardAssumption DEF Where, PanelPlaces, Block, Board
  <1>3. PICK a \in {"ok", "failed"}, block \in Block :
          /\ memory' = [memory EXCEPT ![Panel].block = block] /\ Answers(c, a)
          /\ \A i \in Byte : block[i] \in {old[i], put[c][i]}
          /\ a = "ok" => block = put[c]
    <2>1. CASE memory' = [memory EXCEPT ![Panel].block = put[c]] /\ Answers(c, "ok")
      BY <1>2, <2>1
    <2>2. CASE /\ \E n \in 0..Bytes : memory' = [memory EXCEPT ![Panel].block = Written(c, n)]
               /\ Answers(c, "failed")
      <3>1. PICK n \in 0..Bytes : memory' = [memory EXCEPT ![Panel].block = Written(c, n)]
        BY <2>2
      <3> Bytes \in Nat BY BoardAssumption
      <3>2. \A i \in 1..n : i \in Byte BY ONLY Bytes \in Nat, n \in 0..Bytes DEF Byte
      <3>3. [i \in 1..n |-> put[c][i]] \in [1..n -> SUBSET Bit]
        BY <1>2, <3>2 DEF Block
      <3>4. Written(c, n) \in Block BY <1>2, <3>3, OverType DEF Written
      <3>5. \A i \in Byte : Written(c, n)[i] \in {old[i], put[c][i]}
        BY <1>2 DEF Written, Over, Block
      <3>6. QED BY <2>2, <3>1, <3>4, <3>5
    <2>3. QED BY <2>1, <2>2 DEF PanelWrite
  <1>4. /\ memory' \in [Board -> Images] /\ new = block
        /\ memory'[Panel].id = memory[Panel].id
        /\ \A e \in Board \ {Panel} : memory'[e] = memory[e]
    BY <1>2, <1>3, BlockWritten DEF IndInv
  <1>5. Named' BY <1>4, BoardAssumption DEF IndInv, Named, Board
  <1>6. MemoryKept'
    <2>1. ASSUME "panel" \notin history.crossed PROVE Kept(history.asked, Panel, block)
      <3>1. Kept(history.asked, Panel, old) /\ Kept(history.asked, Panel, put[c])
        BY <1>1, <1>2, <2>1, KindFacts DEF IndInv, MemoryKept, Carried
      <3>2. QED BY <1>2, <1>3, <3>1 DEF Kept, Block
    <2>2. QED BY <1>1, <1>4, <2>1, KindFacts DEF IndInv, MemoryKept, Kept
  <1>7. LocalStep(c) BY <1>1, <1>3 DEF LocalStep, Answers, Goes, IndInv, TypeOK
  <1>8. SharedStep(c) BY <1>1, <1>4, <1>6 DEF SharedStep, Writes
  <1>9. ans'[c] = a BY <1>3 DEF Answers, IndInv, TypeOK
  <1>10. c \notin history.disturbed => MacsExact(c)' /\ Answered(c)'
    <2> SUFFICES ASSUME c \notin history.disturbed PROVE MacsExact(c)' /\ Answered(c)'
      OBVIOUS
    <2>1. /\ old = Before(c).block /\ put[c] = After(r, Before(c).block)
          /\ r.op = "option" => r.pwd = r.board
      BY <1>1, <1>2 DEF Exact, PanelExact, PanelPlaces
    <2>2. Answered(c)'
      <3>1. CASE a = "failed"
        BY <1>1, <1>2, <1>3, <1>4, <1>9, <2>1, <3>1, PartlyAnswer
      <3>2. CASE a = "ok"
        BY <1>1, <1>2, <1>3, <1>4, <1>9, <2>1, <3>2, DoneAnswer
      <3>3. QED BY <3>1, <3>2
    <2>3. MacsExact(c)' BY <1>1, <1>2 DEF MacsExact, Writer
    <2>4. QED BY <2>2, <2>3
  <1>11. /\ Own(c)' /\ at' \in [Client -> Places]
         /\ ans' \in [Client -> {"none", "ok", "failed", "denied", "invalid"}]
    BY <1>1, <1>3, <1>7, <1>10, AnswersOwn
  <1>12. TypeOK' BY <1>1, <1>4, <1>11 DEF IndInv, TypeOK
  <1>13. QED BY <1>5, <1>7, <1>8, <1>11, <1>12, StepKeeps

-----------------------------------------------------------------------------
(* Modules.  What a client at such a place has.                             *)
LEMMA ModuleHere ==
    ASSUME IndInv, NEW c \in Client, at[c] \in ModulePlaces
    PROVE  /\ at[c] \notin {"idle", "answered"}
           /\ Where(c) /\ Shares(c) /\ Carried(c)
           /\ req[c] \in Request /\ Target(c) \in Module
           /\ req[c].op = "mac" => /\ put[c] = <<>> /\ Len(macs[c]) < Len(Modules)
                                   /\ Target(c) = Modules[Len(macs[c]) + 1]
           /\ req[c].op # "mac" => /\ req[c].board \in Module
                                   /\ req[c].board \notin Ftdi
                                   /\ Target(c) = req[c].board
                                   /\ Span(req[c]) \subseteq Byte
           /\ c \notin history.disturbed => ModuleExact(c) /\ MacsExact(c)
           /\ c \notin history.disturbed /\ req[c].op # "mac" => Untouched(c)
  <1> DEFINE r == req[c]
  <1>1. at[c] \notin {"idle", "answered"} BY DEF ModulePlaces
  <1>2. Where(c) /\ Shares(c) /\ Carried(c) /\ Exact(c) /\ r \in Request
    BY <1>1, HereFacts
  <1>3. Target(c) \in Module BY <1>2, PlaceKinds DEF IndInv
  <1>4. r.op # "mac" => r.board \in Module /\ r.last <= Bytes BY <1>2 DEF Where
  <1>5. r.op # "mac" => Span(r) \subseteq Byte
    <2> Bytes \in Nat BY BoardAssumption
    <2>1. QED BY <1>2, <1>4, SpanFacts DEF Byte
  <1>6. r.op # "mac" => r.board \notin Ftdi BY <1>4, BoardAssumption
  <1>7. c \notin history.disturbed => ModuleExact(c) /\ MacsExact(c)
    BY <1>1, <1>2 DEF Exact
  <1>8. c \notin history.disturbed /\ r.op # "mac" => Untouched(c)
    BY <1>7 DEF ModuleExact, Untouched
  <1>9. QED
    BY <1>1, <1>2, <1>3, <1>4, <1>5, <1>6, <1>7, <1>8 DEF Where, Target

(* A client that goes on to another place of these, its bytes as they are.  *)
LEMMA GoesOn ==
    ASSUME IndInv, NEW c \in Client, at[c] \in ModulePlaces,
           LocalStep(c), at'[c] \in ModulePlaces, put'[c] = put[c], macs'[c] = macs[c],
           memory' = memory,
           at'[c] \in {"socket", "bind"} /\ Steady(c, "module") => netif' \in {"", Target(c)},
           at'[c] = "command" /\ Steady(c, "module") => sock'[c] = Target(c)
    PROVE  Own(c)'
  <1>1. /\ Where(c) /\ Carried(c) /\ at[c] # "idle"
        /\ c \notin history.disturbed => ModuleExact(c) /\ MacsExact(c)
        /\ req'[c] = req[c] /\ history' = history
    BY ModuleHere DEF LocalStep
  <1>2. Where(c)'
    BY <1>1 DEF Where, PanelPlaces, ModulePlaces, FtdiPlaces
  <1>3. Target(c)' = Target(c) BY <1>1 DEF Target
  <1>4. Shares(c)' BY <1>1, <1>3 DEF Shares, Steady, FtdiPlaces, ModulePlaces
  <1>5. Carried(c)' BY <1>1 DEF Carried, Kept, ModulePlaces
  <1>6. Exact(c)'
    BY <1>1 DEF Exact, PanelExact, ModuleExact, FtdiExact, MacsExact, Answered,
       PanelPlaces, ModulePlaces, FtdiPlaces, Before, Writing
  <1>7. QED BY <1>2, <1>4, <1>5, <1>6 DEF Own

LEMMA MacReadOwn ==
    ASSUME IndInv, NEW c \in Client, at[c] \in ModulePlaces,
           NEW mac \in Module \cup {"zeros", "text"},
           c \notin history.disturbed => mac \in {Target(c), "zeros", "text"},
           MacRead(c, mac), UNCHANGED <<req, put, got, sum, history>>,
           \A d \in Client \ {c} : sock'[d] = sock[d]
    PROVE  /\ LocalStep(c) /\ Own(c)'
           /\ at' \in [Client -> Places]
           /\ ans' \in [Client -> {"none", "ok", "failed", "denied", "invalid"}]
           /\ macs' \in [Client -> Seq(Module \cup {"zeros", "text"})]
  <1> DEFINE n == Len(macs[c])
  <1>1. /\ at[c] \notin {"idle", "answered"} /\ Where(c) /\ Carried(c) /\ req[c] \in Request
        /\ req[c].op = "mac" /\ put[c] = <<>> /\ n < Len(Modules)
        /\ Target(c) = Modules[n + 1]
        /\ c \notin history.disturbed => MacsExact(c)
    BY ModuleHere DEF MacRead
  <1>2. macs' = [macs EXCEPT ![c] = Append(macs[c], mac)] BY DEF MacRead
  <1>3. macs \in [Client -> Seq(Module \cup {"zeros", "text"})] BY DEF IndInv, TypeOK
  <1>4. macs[c] \in Seq(Module \cup {"zeros", "text"}) /\ n \in Nat BY <1>3
  <1>5. Append(macs[c], mac) \in Seq(Module \cup {"zeros", "text"}) BY <1>4
  <1>6. /\ macs' \in [Client -> Seq(Module \cup {"zeros", "text"})]
        /\ macs'[c] = Append(macs[c], mac)
        /\ \A d \in Client \ {c} : macs'[d] = macs[d]
    BY <1>2, <1>3, <1>5
  <1>7. /\ Len(macs'[c]) = n + 1 /\ DOMAIN macs'[c] = 1..n + 1
        /\ macs'[c][n + 1] = mac
        /\ \A i \in 1..n : macs'[c][i] = macs[c][i]
    BY <1>4, <1>6
  <1>8. MacsExact(c)' \/ c \in history.disturbed
    <2> SUFFICES ASSUME c \notin history.disturbed, NEW i \in 1..n + 1
                 PROVE  macs'[c][i] \in {Modules[i], "zeros", "text"}
      BY <1>7 DEF MacsExact
    <2>1. CASE i = n + 1
      <3>1. mac \in {Modules[n + 1], "zeros", "text"} BY <1>1
      <3>2. macs'[c][n + 1] = mac BY <1>7
      <3> HIDE DEF n
      <3>3. QED BY <2>1, <3>1, <3>2
    <2>2. CASE i # n + 1
      <3>1. i \in 1..n BY <1>4, <2>2
      <3>2. DOMAIN macs[c] = 1..n BY <1>4
      <3>3. macs[c][i] \in {Modules[i], "zeros", "text"}
        BY <1>1, <3>1, <3>2 DEF MacsExact
      <3>4. QED BY <1>7, <3>1, <3>3
    <2>3. QED BY <2>1, <2>2
  <1>9. CASE n + 1 = Len(Modules) /\ Answers(c, "ok")
    <2>1. LocalStep(c) BY <1>1, <1>6, <1>9 DEF LocalStep, Answers, Goes, IndInv, TypeOK
    <2>2. c \notin history.disturbed => Answered(c)'
      <3>1. req[c].board \notin Ftdi BY <1>1, BoardAssumption
      <3>2. QED BY <1>1, <3>1 DEF Answered, Writer
    <2>3. QED BY <1>1, <1>6, <1>8, <1>9, <2>1, <2>2, AnswersOwn
  <1>10. CASE n + 1 # Len(Modules) /\ Goes(c, "clear") /\ UNCHANGED ans
    <2>1. at' \in [Client -> Places] /\ at'[c] = "clear"
          /\ \A d \in Client \ {c} : at'[d] = at[d]
      BY <1>10 DEF Goes, IndInv, TypeOK, Places
    <2>2. LocalStep(c) BY <1>1, <1>6, <1>10, <2>1 DEF LocalStep
    <2>3. Len(macs'[c]) < Len(Modules) BY <1>1, <1>4, <1>7, <1>10, ModuleFacts
    <2>4. Where(c)'
      BY <1>1, <2>1, <2>3 DEF Where, PanelPlaces, ModulePlaces, FtdiPlaces
    <2>5. Shares(c)' BY <2>1 DEF Shares, FtdiPlaces
    <2>6. Carried(c)' BY <1>1, <2>1 DEF Carried, Kept
    <2>7. Exact(c)'
      BY <1>1, <1>8, <2>1 DEF Exact, PanelExact, ModuleExact, FtdiExact, Answered,
         PanelPlaces, ModulePlaces, FtdiPlaces
    <2>8. ans' \in [Client -> {"none", "ok", "failed", "denied", "invalid"}]
      BY <1>10 DEF IndInv, TypeOK
    <2>9. QED BY <1>6, <2>1, <2>2, <2>4, <2>5, <2>6, <2>7, <2>8 DEF Own
  <1>11. QED BY <1>4, <1>9, <1>10, ModuleFacts DEF MacRead

LEMMA FailedOwn ==
    ASSUME IndInv, NEW c \in Client, at[c] \in ModulePlaces, Failed(c),
           UNCHANGED <<req, put, got, sock, sum, memory, history>>
    PROVE  /\ LocalStep(c) /\ Own(c)'
           /\ at' \in [Client -> Places]
           /\ ans' \in [Client -> {"none", "ok", "failed", "denied", "invalid"}]
           /\ macs' \in [Client -> Seq(Module \cup {"zeros", "text"})]
  <1>1. CASE MacRead(c, "zeros") BY <1>1, MacReadOwn
  <1>2. CASE req[c].op # "mac" /\ Answers(c, "failed") /\ UNCHANGED macs
    <2>1. at[c] # "idle" /\ (c \notin history.disturbed => Untouched(c))
      BY <1>2, ModuleHere
    <2>2. LocalStep(c)
      BY <1>2, ModuleHere DEF LocalStep, Answers, Goes, IndInv, TypeOK
    <2>3. ans'[c] = "failed" BY <1>2 DEF Answers, IndInv, TypeOK
    <2>4. c \notin history.disturbed => MacsExact(c)' /\ Answered(c)'
      BY <1>2, <2>1, <2>3, UntouchedAnswer DEF MacsExact
    <2>5. macs' \in [Client -> Seq(Module \cup {"zeros", "text"})]
      BY <1>2 DEF IndInv, TypeOK
    <2>6. QED BY <1>2, <2>1, <2>2, <2>4, <2>5, AnswersOwn
  <1>3. QED BY <1>1, <1>2 DEF Failed

LEMMA ClearKeeps ==
    ASSUME IndInv, NEW c \in Client, Clear(c)
    PROVE  IndInv'
  <1>1. /\ at[c] = "clear" /\ at[c] \in ModulePlaces /\ netif' = ""
        /\ UNCHANGED <<req, put, got, sock, sum, macs, ans, memory, ctx, eeprom, history>>
    BY DEF Clear, ModulePlaces
  <1>2. at' \in [Client -> Places] /\ at'[c] = "lookup"
        /\ \A d \in Client \ {c} : at'[d] = at[d]
    BY DEF Clear, Goes, IndInv, TypeOK, Places
  <1>3. TypeOK' BY <1>1, <1>2 DEF IndInv, TypeOK
  <1>4. LocalStep(c) BY <1>1, <1>2 DEF LocalStep
  <1>5. MemoryKept' /\ Named'
    BY <1>1 DEF IndInv, MemoryKept, Kept, Named
  <1>6. SharedStep(c) BY <1>1, <1>5 DEF SharedStep, Writes
  <1>7. Own(c)' BY <1>1, <1>2, <1>4, GoesOn DEF ModulePlaces
  <1>8. QED BY <1>3, <1>4, <1>5, <1>6, <1>7, StepKeeps

LEMMA LookupKeeps ==
    ASSUME IndInv, NEW c \in Client, Lookup(c)
    PROVE  IndInv'
  <1>1. /\ at[c] = "lookup" /\ at[c] \in ModulePlaces
        /\ UNCHANGED <<req, put, got, sock, sum, memory, ctx, eeprom, history>>
    BY DEF Lookup, ModulePlaces
  <1>2. Target(c) \in Module BY <1>1, ModuleHere
  <1>3. MemoryKept' /\ Named' BY <1>1 DEF IndInv, MemoryKept, Kept, Named
  <1>4. CASE netif' = Target(c) /\ Goes(c, "socket") /\ UNCHANGED <<ans, macs>>
    <2>1. at' \in [Client -> Places] /\ at'[c] = "socket"
          /\ \A d \in Client \ {c} : at'[d] = at[d]
      BY <1>4 DEF Goes, IndInv, TypeOK, Places
    <2>2. TypeOK' BY <1>1, <1>2, <1>4, <2>1 DEF IndInv, TypeOK
    <2>3. LocalStep(c) BY <1>1, <1>4, <2>1 DEF LocalStep
    <2>4. SharedStep(c) BY <1>1, <1>3, <1>4 DEF SharedStep, Writes
    <2>5. Own(c)' BY <1>1, <1>4, <2>1, <2>3, GoesOn DEF ModulePlaces
    <2>6. QED BY <1>3, <2>2, <2>3, <2>4, <2>5, StepKeeps
  <1>5. CASE Failed(c) /\ UNCHANGED netif
    <2>1. /\ LocalStep(c) /\ Own(c)'
          /\ at' \in [Client -> Places]
          /\ ans' \in [Client -> {"none", "ok", "failed", "denied", "invalid"}]
          /\ macs' \in [Client -> Seq(Module \cup {"zeros", "text"})]
      BY <1>1, <1>5, FailedOwn
    <2>2. TypeOK' BY <1>1, <1>5, <2>1 DEF IndInv, TypeOK
    <2>3. SharedStep(c) BY <1>1, <1>3, <1>5 DEF SharedStep, Writes
    <2>4. QED BY <1>3, <2>1, <2>2, <2>3, StepKeeps
  <1>6. QED BY <1>4, <1>5 DEF Lookup

LEMMA SocketKeeps ==
    ASSUME IndInv, NEW c \in Client, Socket(c)
    PROVE  IndInv'
  <1>1. /\ at[c] = "socket" /\ at[c] \in ModulePlaces
        /\ UNCHANGED <<req, put, got, sock, sum, shared, history>>
    BY DEF Socket, ModulePlaces
  <1>2. SharedStep(c) /\ Named' BY <1>1, QuietStep
  <1>3. CASE netif # "" /\ Goes(c, "bind") /\ UNCHANGED <<ans, macs>>
    <2>1. at' \in [Client -> Places] /\ at'[c] = "bind"
          /\ \A d \in Client \ {c} : at'[d] = at[d]
      BY <1>3 DEF Goes, IndInv, TypeOK, Places
    <2>2. TypeOK' BY <1>1, <1>3, <2>1 DEF IndInv, TypeOK, shared
    <2>3. LocalStep(c) BY <1>1, <1>3, <2>1 DEF LocalStep
    <2>4. Steady(c, "module") => netif \in {"", Target(c)}
      BY <1>1, ModuleHere DEF Shares
    <2>5. Own(c)' BY <1>1, <1>3, <2>1, <2>3, <2>4, GoesOn DEF ModulePlaces, shared
    <2>6. QED BY <1>2, <2>2, <2>3, <2>5, StepKeeps
  <1>4. CASE Failed(c)
    <2>1. /\ LocalStep(c) /\ Own(c)'
          /\ at' \in [Client -> Places]
          /\ ans' \in [Client -> {"none", "ok", "failed", "denied", "invalid"}]
          /\ macs' \in [Client -> Seq(Module \cup {"zeros", "text"})]
      BY <1>1, <1>4, FailedOwn DEF shared
    <2>2. TypeOK' BY <1>1, <1>4, <2>1 DEF IndInv, TypeOK, shared
    <2>3. QED BY <1>2, <2>1, <2>2, StepKeeps
  <1>5. QED BY <1>3, <1>4 DEF Socket

LEMMA ModuleFailsKeeps ==
    ASSUME IndInv, NEW c \in Client, ModuleFails(c)
    PROVE  IndInv'
  <1>1. /\ at[c] = "command" /\ at[c] \in ModulePlaces
        /\ UNCHANGED <<req, put, got, sock, sum, shared, history>>
        /\ Failed(c) \/ MacRead(c, "text")
    BY DEF ModuleFails, ModulePlaces
  <1>2. SharedStep(c) /\ Named' BY <1>1, QuietStep
  <1>3. /\ LocalStep(c) /\ Own(c)'
        /\ at' \in [Client -> Places]
        /\ ans' \in [Client -> {"none", "ok", "failed", "denied", "invalid"}]
        /\ macs' \in [Client -> Seq(Module \cup {"zeros", "text"})]
    <2>1. CASE Failed(c) BY <1>1, <2>1, FailedOwn DEF shared
    <2>2. CASE MacRead(c, "text") BY <1>1, <2>2, MacReadOwn
    <2>3. QED BY <1>1, <2>1, <2>2
  <1>4. TypeOK' BY <1>1, <1>3 DEF IndInv, TypeOK, shared
  <1>5. QED BY <1>2, <1>3, <1>4, StepKeeps

LEMMA ModuleReadKeeps ==
    ASSUME IndInv, NEW c \in Client, ModuleRead(c)
    PROVE  IndInv'
  <1> DEFINE r == req[c]
             image == memory[sock[c]]
  <1>1. /\ at[c] = "command" /\ at[c] \in ModulePlaces /\ at[c] # "idle" /\ ~Writing(c)
        /\ UNCHANGED <<req, sock, sum, shared, history>>
    BY DEF ModuleRead, ModulePlaces
  <1>2. SharedStep(c) /\ Named' BY <1>1, QuietStep
  <1>3. sock[c] \in Module /\ (Steady(c, "module") => sock[c] = Target(c))
    BY <1>1, ModuleHere DEF ModuleRead, IndInv, TypeOK, Shares
  <1>4. image.id = sock[c] /\ image.block \in Block
    BY <1>3 DEF IndInv, Named, TypeOK, Images, Board
  <1>5. c \notin history.disturbed => sock[c] = Target(c) BY <1>3 DEF Steady
  <1>6. CASE MacRead(c, image.id) /\ UNCHANGED <<put, got>>
    <2>1. /\ LocalStep(c) /\ Own(c)'
          /\ at' \in [Client -> Places]
          /\ ans' \in [Client -> {"none", "ok", "failed", "denied", "invalid"}]
          /\ macs' \in [Client -> Seq(Module \cup {"zeros", "text"})]
      BY <1>1, <1>3, <1>4, <1>5, <1>6, MacReadOwn
    <2>2. TypeOK' BY <1>1, <1>6, <2>1 DEF IndInv, TypeOK, shared
    <2>3. QED BY <1>2, <2>1, <2>2, StepKeeps
  <1>7. ASSUME r.op # "mac"
        PROVE  /\ r \in Request /\ r.board \in Module /\ Span(r) \subseteq Byte
               /\ Where(c) /\ Carried(c) /\ Target(c) = r.board /\ r.board \notin Ftdi
               /\ Asks(r) \subseteq history.asked
               /\ c \notin history.disturbed => Untouched(c) /\ MacsExact(c)
               /\ Before(c).block \in Block /\ memory[r.board].block \in Block
    BY <1>1, <1>7, ModuleHere, HereFacts
  <1>8. CASE /\ r.op = "read" /\ got' = [got EXCEPT ![c] = Part(image.block, r)]
             /\ Answers(c, "ok") /\ UNCHANGED <<put, macs>>
    <2>1. LocalStep(c) BY <1>1, <1>8 DEF LocalStep, Answers, Goes, IndInv, TypeOK
    <2>2. Part(image.block, r) \in [DOMAIN Part(image.block, r) -> SUBSET Bit]
      BY <1>4 DEF Part, Block
    <2>3. got'[c] = Part(image.block, r) /\ DOMAIN got' = Client
          /\ \A d \in Client : got'[d] \in [DOMAIN got'[d] -> SUBSET Bit]
      BY <1>8, <2>2 DEF IndInv, TypeOK
    <2>4. c \notin history.disturbed => Part(image.block, r) = Part(Before(c).block, r)
      <3> SUFFICES ASSUME c \notin history.disturbed
                   PROVE  Part(image.block, r) = Part(Before(c).block, r)
        OBVIOUS
      <3>1. image = memory[r.board] BY <1>5, <1>7, <1>8
      <3>2. Untouched(c) BY <1>7, <1>8
      <3>3. Span(r) \subseteq Byte /\ Before(c).block \in Block BY <1>7, <1>8
      <3>4. QED BY <1>4, <3>1, <3>2, <3>3 DEF Part, Span, Block, Untouched
    <2>5. c \notin history.disturbed => MacsExact(c)' /\ Answered(c)'
      BY <1>1, <1>7, <1>8, <2>3, <2>4 DEF MacsExact, Answered, Before, Writer
    <2>6. /\ Own(c)' /\ at' \in [Client -> Places]
          /\ ans' \in [Client -> {"none", "ok", "failed", "denied", "invalid"}]
      BY <1>1, <1>8, <2>1, <2>5, AnswersOwn
    <2>7. TypeOK' BY <1>1, <1>8, <2>3, <2>6 DEF IndInv, TypeOK, shared
    <2>8. QED BY <1>2, <2>1, <2>6, <2>7, StepKeeps
  <1>9. CASE /\ r.op = "option" /\ ~CheckPwd(r, image.id)
             /\ Answers(c, "denied") /\ UNCHANGED <<put, got, macs>>
    <2>1. LocalStep(c) BY <1>1, <1>9 DEF LocalStep, Answers, Goes, IndInv, TypeOK
    <2>2. ans'[c] = "denied" BY <1>9 DEF Answers, IndInv, TypeOK
    <2>3. c \notin history.disturbed => MacsExact(c)' /\ Answered(c)'
      BY <1>1, <1>7, <1>9, <2>2, UntouchedAnswer DEF MacsExact, shared
    <2>4. /\ Own(c)' /\ at' \in [Client -> Places]
          /\ ans' \in [Client -> {"none", "ok", "failed", "denied", "invalid"}]
      BY <1>1, <1>9, <2>1, <2>3, AnswersOwn
    <2>5. TypeOK' BY <1>1, <1>9, <2>4 DEF IndInv, TypeOK, shared
    <2>6. QED BY <1>2, <2>1, <2>4, <2>5, StepKeeps
  <1>10. CASE /\ r.op = "option" /\ CheckPwd(r, image.id)
              /\ put' = [put EXCEPT ![c] = Dealt(r, image.block)]
              /\ Goes(c, "clear") /\ UNCHANGED <<got, ans, macs>>
    <2>1. at' \in [Client -> Places] /\ at'[c] = "clear"
          /\ \A d \in Client \ {c} : at'[d] = at[d]
      BY <1>10 DEF Goes, IndInv, TypeOK, Places
    <2>2. /\ put'[c] = Dealt(r, image.block) /\ DOMAIN put' = Client
          /\ \A d \in Client \ {c} : put'[d] = put[d]
      BY <1>10 DEF IndInv, TypeOK
    <2>3. DOMAIN put'[c] = Span(r) /\ put'[c] \in [DOMAIN put'[c] -> SUBSET Bit]
          /\ Writer(r)
      <3>1. put'[c] \in [Span(r) -> SUBSET Bit]
        BY <1>4, <1>7, <1>10, <2>2, DealtType
      <3>2. QED BY <1>10, <3>1 DEF Writer
    <2>4. TypeOK' BY <1>1, <1>10, <2>1, <2>2, <2>3 DEF IndInv, TypeOK, shared
    <2>5. LocalStep(c) BY <1>1, <1>10, <2>1, <2>2 DEF LocalStep
    <2>6. Where(c)'
      BY <1>1, <1>7, <1>10, <2>1, <2>3 DEF Where, PanelPlaces, ModulePlaces, FtdiPlaces
    <2>7. Shares(c)' BY <2>1 DEF Shares, FtdiPlaces
    <2>8. Steady(c, "module") => image = memory[r.board] /\ r.pwd = r.board
      BY <1>3, <1>4, <1>7, <1>10 DEF CheckPwd
    <2>9. Carried(c)'
      <3> SUFFICES ASSUME Kind(r.board) \notin history.crossed
                   PROVE  Kept(history.asked, r.board, put'[c])
        BY <1>1, <2>1 DEF Carried, Kept
      <3>1. Steady(c, "module") BY <1>7, <1>10, KindFacts DEF Steady
      <3>2. Kept(history.asked, r.board, image.block)
        BY <1>7, <1>10, <2>8, <3>1 DEF IndInv, MemoryKept, Board
      <3>3. Span(r) \subseteq DOMAIN image.block BY <1>4, <1>7, <1>10 DEF Block
      <3>4. QED BY <1>7, <1>10, <2>2, <2>3, <2>8, <3>1, <3>2, <3>3, KeptDealt
    <2>10. Exact(c)'
      <3> SUFFICES ASSUME c \notin history.disturbed
                   PROVE  ModuleExact(c)' /\ MacsExact(c)'
        BY <1>1, <2>1 DEF Exact, PanelExact, FtdiExact, Answered, PanelPlaces, FtdiPlaces
      <3>1. image = memory[r.board] /\ r.pwd = r.board /\ Untouched(c)
        BY <1>7, <1>10, <2>8 DEF Steady
      <3>2. Dealt(r, image.block) = Dealt(r, Before(c).block)
        BY <1>7, <1>10, <3>1 DEF Dealt, Untouched, Span
      <3>3. ModuleExact(c)'
        BY <1>1, <1>7, <1>10, <2>2, <3>1, <3>2
           DEF ModuleExact, Untouched, Before, shared
      <3>4. QED BY <1>1, <1>10, <3>3 DEF MacsExact
    <2>11. QED BY <1>2, <2>4, <2>5, <2>6, <2>7, <2>9, <2>10, StepKeeps DEF Own
  <1>11. QED BY <1>6, <1>8, <1>9, <1>10 DEF ModuleRead

LEMMA ModuleWriteKeeps ==
    ASSUME IndInv, NEW c \in Client, ModuleWrite(c)
    PROVE  IndInv'
  <1> DEFINE r == req[c]
             m == sock[c]
             old == memory[m].block
  <1>1. /\ at[c] = "command" /\ at[c] \in ModulePlaces /\ at[c] # "idle" /\ Writing(c)
        /\ UNCHANGED <<req, put, got, sock, sum, macs, netif, ctx, eeprom, history>>
        /\ memory' = [memory EXCEPT ![m].block = Over(put[c], old)]
        /\ \E a \in {"ok", "failed"} : Answers(c, a)
    BY DEF ModuleWrite, ModulePlaces
  <1>2. m \in Module /\ (Steady(c, "module") => m = Target(c))
    BY <1>1, ModuleHere DEF ModuleWrite, IndInv, TypeOK, Shares
  <1>3. Writer(r) /\ DOMAIN put[c] = Span(r) /\ r.op # "mac"
    BY <1>1, ModuleHere DEF Where, Writing
  <1>4. /\ r \in Request /\ r.board \in Module /\ Span(r) \subseteq Byte
        /\ Where(c) /\ Carried(c) /\ Target(c) = r.board /\ r.board \notin Ftdi
        /\ c \notin history.disturbed =>
              Untouched(c) /\ MacsExact(c) /\ ModuleExact(c)
        /\ Before(c).block \in Block
        /\ put[c] \in [Span(r) -> SUBSET Bit]
    BY <1>1, <1>3, ModuleHere, HereFacts
  <1>5. m \in Board /\ old \in Block /\ Over(put[c], old) \in Block
    <2>1. m \in Board /\ old \in Block BY <1>1, <1>2, HereFacts DEF Board
    <2>2. QED BY <1>4, <2>1, OverType
  <1>6. /\ memory' \in [Board -> Images] /\ memory'[m].block = Over(put[c], old)
        /\ memory'[m].id = memory[m].id
        /\ \A e \in Board \ {m} : memory'[e] = memory[e]
    BY <1>1, <1>5, BlockWritten DEF IndInv
  <1>7. Named' BY <1>6 DEF IndInv, Named, Board
  <1>8. MemoryKept'
    <2>1. ASSUME "module" \notin history.crossed
          PROVE  Kept(history.asked, m, Over(put[c], old))
      <3>1. m = r.board BY <1>2, <1>4, <2>1 DEF Steady
      <3>2. Kept(history.asked, m, put[c])
        BY <1>1, <1>4, <2>1, <3>1, KindFacts DEF Carried
      <3>3. Kept(history.asked, m, old)
        BY <1>2, <1>5, <2>1, KindFacts DEF IndInv, MemoryKept
      <3>4. QED BY <3>2, <3>3, KeptOver
    <2>2. \A b \in Board : Kind(b) \notin history.crossed =>
             Kept(history.asked, b, memory'[b].block)
      BY <1>2, <1>6, <2>1, KindFacts DEF IndInv, MemoryKept
    <2>3. QED BY <1>1, <2>2 DEF MemoryKept, Kept
  <1>9. LocalStep(c) BY <1>1 DEF LocalStep, Answers, Goes, IndInv, TypeOK
  <1>10. SharedStep(c)
    <2>1. \A i \in Byte \ Span(r) : memory'[m].block[i] = old[i]
      BY <1>3, <1>5, <1>6 DEF Over, Block
    <2>2. QED BY <1>1, <1>2, <1>6, <1>8, <2>1 DEF SharedStep, Writes
  <1>11. PICK a \in {"ok", "failed"} : Answers(c, a) BY <1>1
  <1>12. ans'[c] = a BY <1>11 DEF Answers, IndInv, TypeOK
  <1>13. c \notin history.disturbed => MacsExact(c)' /\ Answered(c)'
    <2> SUFFICES ASSUME c \notin history.disturbed PROVE MacsExact(c)' /\ Answered(c)'
      OBVIOUS
    <2>1. m = r.board BY <1>2, <1>4 DEF Steady
    <2>2. put[c] = Dealt(r, Before(c).block) /\ (r.op = "option" => r.pwd = r.board)
      BY <1>1, <1>3, <1>4 DEF ModuleExact
    <2>3. \A i \in Span(r) \cap Byte :
             memory'[r.board].block[i] = After(r, Before(c).block)[i]
      BY <1>3, <1>4, <1>5, <1>6, <2>1, <2>2 DEF Over, After, Block
    <2>4. memory'[r.board].block \in Block BY <1>5, <1>6, <2>1
    <2>5. Answered(c)'
      <3>1. CASE a = "failed" BY <1>1, <1>3, <1>4, <1>12, <2>3, <2>4, <3>1, PartlyAnswer
      <3>2. CASE a = "ok" BY <1>1, <1>3, <1>4, <1>12, <2>2, <2>3, <2>4, <3>2, DoneAnswer
      <3>3. QED BY <3>1, <3>2
    <2>6. MacsExact(c)' BY <1>1, <1>3 DEF MacsExact
    <2>7. QED BY <2>5, <2>6
  <1>14. /\ Own(c)' /\ at' \in [Client -> Places]
         /\ ans' \in [Client -> {"none", "ok", "failed", "denied", "invalid"}]
    BY <1>1, <1>9, <1>11, <1>13, AnswersOwn
  <1>15. TypeOK' BY <1>1, <1>6, <1>14 DEF IndInv, TypeOK
  <1>16. QED BY <1>7, <1>9, <1>10, <1>14, <1>15, StepKeeps

-----------------------------------------------------------------------------
(* 40G and 2.5G boards.  What a client at such a place has.                 *)
LEMMA FtdiHere ==
    ASSUME IndInv, NEW c \in Client, at[c] \in FtdiPlaces
    PROVE  /\ at[c] \notin {"idle", "answered"}
           /\ Where(c) /\ Shares(c) /\ Carried(c)
           /\ req[c] \in Request /\ req[c].board \in Ftdi /\ req[c].board \in Board
           /\ req[c].op # "mac" /\ Target(c) = req[c].board
           /\ Kind(req[c].board) = "ftdi"
           /\ req[c].op = "option" => req[c].pwd = req[c].board
           /\ Asks(req[c]) \subseteq history.asked
           /\ Span(req[c]) \subseteq Byte /\ Span(req[c]) # {}
           /\ memory[req[c].board] \in Images /\ memory[req[c].board].block \in Block
           /\ eeprom \in Images /\ eeprom.block \in Block
           /\ Before(c) \in Images /\ Before(c).block \in Block
           /\ put[c] \in [DOMAIN put[c] -> SUBSET Bit]
           /\ c \notin history.disturbed => FtdiExact(c) /\ Untouched(c)
  <1> DEFINE r == req[c]
  <1>1. at[c] \notin {"idle", "answered"} BY DEF FtdiPlaces
  <1>2. /\ Where(c) /\ Shares(c) /\ Carried(c) /\ Exact(c)
        /\ r \in Request /\ r.board \in Board
        /\ Asks(r) \subseteq history.asked
        /\ memory[r.board] \in Images /\ memory[r.board].block \in Block
        /\ eeprom \in Images /\ eeprom.block \in Block
        /\ Before(c) \in Images /\ Before(c).block \in Block
        /\ put[c] \in [DOMAIN put[c] -> SUBSET Bit]
    BY <1>1, HereFacts
  <1>3. r.board \in Ftdi /\ r.last <= FtdiBytes /\ (r.op = "option" => r.pwd = r.board)
    BY <1>2 DEF Where
  <1>4. r.op # "mac" /\ Target(c) = r.board BY <1>2, PlaceKinds DEF IndInv
  <1>5. Kind(r.board) = "ftdi" BY <1>3, KindFacts
  <1>6. Span(r) \subseteq Byte /\ Span(r) # {}
    <2>1. Bytes \in Nat /\ FtdiBytes \in 0..Bytes BY BoardAssumption
    <2>2. r.last \in Nat /\ r.first \in Span(r) BY <1>2, SpanFacts
    <2>3. r.last <= Bytes BY <1>3, <2>1, <2>2
    <2>4. QED BY <1>2, <2>1, <2>2, <2>3, SpanFacts DEF Byte
  <1>7. c \notin history.disturbed => FtdiExact(c)
    BY <1>1, <1>2 DEF Exact
  <1>8. c \notin history.disturbed => Untouched(c)
    BY <1>7 DEF FtdiExact, Untouched
  <1>9. QED BY <1>1, <1>2, <1>3, <1>4, <1>5, <1>6, <1>7, <1>8

(* On to another place of these, the EEPROMs as they are. *)
LEMMA FtdiGoes ==
    ASSUME IndInv, NEW c \in Client, at[c] \in FtdiPlaces,
           NEW place \in FtdiPlaces, Goes(c, place),
           UNCHANGED <<req, got, sock, macs, ans, memory, netif, history>>,
           DOMAIN put' = Client, sum' \in [Client -> Sums \cup {<<>>}],
           \A d \in Client \ {c} : put'[d] = put[d] /\ sum'[d] = sum[d],
           put'[c] \in [DOMAIN put'[c] -> SUBSET Bit],
           \/ ctx' = ctx /\ at[c] # "init"
           \/ ctx' = req[c].board
           \/ ctx' = "closed",
           eeprom' \in Images,
           "ftdi" \notin history.crossed =>
              /\ Kept(history.asked, req[c].board, put'[c])
              /\ eeprom' # eeprom \/ place \in {"take", "patch", "store", "write"}
                    => Kept(history.asked, req[c].board, eeprom'.block),
           Where(c)', c \notin history.disturbed => FtdiExact(c)'
    PROVE  IndInv'
  <1> DEFINE r == req[c]
  <1>1. at' \in [Client -> Places] /\ at'[c] = place
        /\ \A d \in Client \ {c} : at'[d] = at[d]
    BY DEF Goes, IndInv, TypeOK, Places, FtdiPlaces
  <1>2. /\ at[c] \notin {"idle", "answered"} /\ Shares(c) /\ r \in Request
        /\ r.board \in Ftdi /\ r.op # "mac" /\ Kind(r.board) = "ftdi"
    BY FtdiHere
  <1>3. TypeOK'
    <2>1. ctx' \in Ftdi \cup {"closed"} BY <1>2 DEF IndInv, TypeOK
    <2>2. \A d \in Client : put'[d] \in [DOMAIN put'[d] -> SUBSET Bit]
      BY DEF IndInv, TypeOK
    <2>3. QED BY <1>1, <2>1, <2>2 DEF IndInv, TypeOK
  <1>4. LocalStep(c) BY <1>1, <1>2 DEF LocalStep, FtdiPlaces
  <1>5. MemoryKept' /\ Named' BY DEF IndInv, MemoryKept, Kept, Named
  <1>6. SharedStep(c) BY <1>5 DEF SharedStep, Writes
  <1>7. Shares(c)'
    <2>1. place \notin {"socket", "bind", "command"} BY DEF FtdiPlaces
    <2>2. Steady(c, "ftdi") => ctx' \in {"closed", r.board} BY <1>2 DEF Shares
    <2>3. QED BY <1>1, <2>1, <2>2 DEF Shares, Steady
  <1>8. Carried(c)' BY <1>1, <1>2 DEF Carried, Kept
  <1>9. Exact(c)'
    <2>1. PanelExact(c)' /\ ModuleExact(c)' /\ MacsExact(c)' /\ Answered(c)'
      BY <1>1, <1>2 DEF PanelExact, ModuleExact, MacsExact, Answered, PanelPlaces,
         ModulePlaces, FtdiPlaces
    <2>2. QED BY <2>1 DEF Exact
  <1>10. QED BY <1>3, <1>4, <1>5, <1>6, <1>7, <1>8, <1>9, StepKeeps DEF Own

(* A failure closes the context and is answered. *)
LEMMA FtdiFails ==
    ASSUME IndInv, NEW c \in Client, at[c] \in FtdiPlaces, Answers(c, "failed"),
           ctx' = "closed",
           UNCHANGED <<req, put, got, sock, sum, macs, memory, netif, eeprom, history>>
    PROVE  IndInv'
  <1>1. /\ at[c] \notin {"idle", "answered"} /\ req[c].op # "mac"
        /\ c \notin history.disturbed => Untouched(c)
    BY FtdiHere
  <1>2. LocalStep(c) BY <1>1 DEF LocalStep, Answers, Goes, IndInv, TypeOK
  <1>3. MemoryKept' /\ Named' BY DEF IndInv, MemoryKept, Kept, Named
  <1>4. SharedStep(c) BY <1>3 DEF SharedStep, Writes
  <1>5. ans'[c] = "failed" BY DEF Answers, IndInv, TypeOK
  <1>6. c \notin history.disturbed => MacsExact(c)' /\ Answered(c)'
    BY <1>1, <1>5, UntouchedAnswer DEF MacsExact
  <1>7. /\ Own(c)' /\ at' \in [Client -> Places]
        /\ ans' \in [Client -> {"none", "ok", "failed", "denied", "invalid"}]
    BY <1>1, <1>2, <1>6, AnswersOwn
  <1>8. TypeOK' BY <1>7 DEF IndInv, TypeOK
  <1>9. QED BY <1>2, <1>3, <1>4, <1>7, <1>8, StepKeeps

LEMMA SysInitKeeps ==
    ASSUME IndInv, NEW c \in Client, SysInit(c)
    PROVE  IndInv'
  <1> DEFINE r == req[c]
  <1>1. /\ at[c] = "init" /\ at[c] \in FtdiPlaces
        /\ UNCHANGED <<req, put, got, sock, sum, macs, memory, netif, eeprom, history>>
    BY DEF SysInit, FtdiPlaces
  <1>2. CASE ctx' = "closed" /\ Answers(c, "failed") BY <1>1, <1>2, FtdiFails
  <1>3. CASE /\ ctx' = Target(c) /\ UNCHANGED ans
             /\ Goes(c, IF Writing(c) /\ Whole(c) THEN "readAgain" ELSE "read")
    <2>1. PICK place \in {"read", "readAgain"} :
             /\ Goes(c, place)
             /\ place = "readAgain" => Writing(c) /\ Whole(c)
      BY <1>3
    <2>2. place \in FtdiPlaces /\ at'[c] = place BY <2>1 DEF Goes, IndInv, TypeOK, FtdiPlaces
    <2>3. /\ Where(c) /\ Carried(c) /\ Kind(r.board) = "ftdi" /\ ctx' = r.board
          /\ eeprom \in Images /\ put[c] \in [DOMAIN put[c] -> SUBSET Bit]
          /\ c \notin history.disturbed => FtdiExact(c)
      BY <1>1, <1>3, FtdiHere
    <2>4. Writing(c) => DOMAIN put[c] = Span(r) /\ Writer(r) BY <1>1, <2>3 DEF Where
    <2>5. Where(c)'
      BY <1>1, <2>1, <2>2, <2>3, <2>4 DEF Where, Writing, PanelPlaces, ModulePlaces,
         FtdiPlaces
    <2>6. c \notin history.disturbed => FtdiExact(c)'
      <3> SUFFICES ASSUME c \notin history.disturbed PROVE FtdiExact(c)' OBVIOUS
      <3>1. place = "readAgain" /\ ~AllWritten(r) => r.op = "option" /\ Writing(c)
        BY <2>1, <2>4 DEF AllWritten, Whole, Writer
      <3>2. QED
        BY <1>1, <2>1, <2>2, <2>3, <3>1 DEF FtdiExact, Writing, Before
    <2>7. "ftdi" \notin history.crossed => Kept(history.asked, r.board, put[c])
      BY <1>1, <2>3 DEF Carried
    <2>8. DOMAIN put' = Client /\ sum' \in [Client -> Sums \cup {<<>>}]
      BY <1>1 DEF IndInv, TypeOK
    <2>9. place \notin {"take", "patch", "store", "write"} BY <2>1
    <2>10. QED
      BY <1>1, <1>3, <2>1, <2>2, <2>3, <2>5, <2>6, <2>7, <2>8, <2>9, FtdiGoes
  <1>4. QED BY <1>2, <1>3 DEF SysInit

LEMMA FtdiReadKeeps ==
    ASSUME IndInv, NEW c \in Client, FtdiRead(c)
    PROVE  IndInv'
  <1> DEFINE r == req[c]
  <1>1. /\ at[c] \in {"read", "readAgain"} /\ at[c] \in FtdiPlaces
        /\ UNCHANGED <<req, put, got, sock, sum, macs, memory, netif, history>>
    BY DEF FtdiRead, FtdiPlaces
  <1>2. CASE ctx' = "closed" /\ Answers(c, "failed") /\ UNCHANGED eeprom
    BY <1>1, <1>2, FtdiFails
  <1>3. CASE /\ ctx # "closed" /\ eeprom' = memory[ctx] /\ UNCHANGED <<ctx, ans>>
             /\ Goes(c, IF at[c] = "read" THEN "take" ELSE "patch")
    <2>1. PICK place \in {"take", "patch"} :
             Goes(c, place) /\ (place = "take" <=> at[c] = "read")
      BY <1>3
    <2>2. place \in FtdiPlaces /\ at'[c] = place BY <2>1 DEF Goes, IndInv, TypeOK, FtdiPlaces
    <2>3. /\ Where(c) /\ Shares(c) /\ Carried(c)
          /\ r.board \in Ftdi /\ r.board \in Board /\ Kind(r.board) = "ftdi"
          /\ put[c] \in [DOMAIN put[c] -> SUBSET Bit]
          /\ c \notin history.disturbed => FtdiExact(c)
      BY <1>1, FtdiHere
    <2>4. ctx \in Ftdi /\ eeprom' \in Images BY <1>3 DEF IndInv, TypeOK, Board
    <2>5. Steady(c, "ftdi") => ctx = r.board BY <1>1, <1>3, <2>3 DEF Shares
    <2>6. Where(c)'
      BY <1>1, <2>1, <2>2, <2>3 DEF Where, Writing, PanelPlaces, ModulePlaces, FtdiPlaces
    <2>7. c \notin history.disturbed => FtdiExact(c)'
      <3> SUFFICES ASSUME c \notin history.disturbed PROVE FtdiExact(c)' OBVIOUS
      <3>1. eeprom' = memory[r.board] /\ ctx' = r.board BY <1>3, <2>5 DEF Steady
      <3>2. QED BY <1>1, <2>1, <2>2, <2>3, <3>1 DEF FtdiExact, Writing, Before
    <2>8. "ftdi" \notin history.crossed =>
             Kept(history.asked, r.board, put[c])
             /\ Kept(history.asked, r.board, eeprom'.block)
      BY <1>1, <1>3, <2>3, <2>5 DEF Carried, Steady, IndInv, MemoryKept, FtdiPlaces
    <2>9. DOMAIN put' = Client /\ sum' \in [Client -> Sums \cup {<<>>}]
      BY <1>1 DEF IndInv, TypeOK
    <2>10. ctx' = ctx /\ at[c] # "init" BY <1>1, <1>3
    <2>11. QED
      BY <1>1, <1>3, <2>1, <2>2, <2>3, <2>4, <2>6, <2>7, <2>8, <2>9, <2>10, FtdiGoes
  <1>4. QED BY <1>2, <1>3 DEF FtdiRead

LEMMA TakeKeeps ==
    ASSUME IndInv, NEW c \in Client, Take(c)
    PROVE  IndInv'
  <1> DEFINE r == req[c]
  <1>1. /\ at[c] = "take" /\ at[c] \in FtdiPlaces /\ Writing(c) /\ Valid(eeprom)
        /\ Goes(c, "readAgain") /\ "readAgain" \in FtdiPlaces
        /\ UNCHANGED <<req, got, sock, sum, macs, ans, shared, history>>
    BY DEF Take, FtdiPlaces, Checked
  <1>2. /\ Where(c) /\ Carried(c) /\ Kind(r.board) = "ftdi"
        /\ Span(r) \subseteq Byte /\ Span(r) # {}
        /\ eeprom \in Images /\ eeprom.block \in Block
        /\ put[c] \in [DOMAIN put[c] -> SUBSET Bit]
        /\ c \notin history.disturbed => FtdiExact(c)
    BY <1>1, FtdiHere
  <1>3. /\ put'[c] = Over(put[c], eeprom.block) /\ DOMAIN put' = Client
        /\ \A d \in Client \ {c} : put'[d] = put[d]
    BY DEF Take, IndInv, TypeOK
  <1>4. Over(put[c], eeprom.block) \in Block BY <1>2, OverType
  <1>5. put'[c] \in [DOMAIN put'[c] -> SUBSET Bit] /\ DOMAIN put'[c] = Byte
    BY <1>3, <1>4 DEF Block
  <1>6. put'[c] # <<>>
    <2>1. DOMAIN put'[c] # {} BY <1>2, <1>5
    <2>2. DOMAIN <<>> = {} OBVIOUS
    <2>3. QED BY <2>1, <2>2
  <1>7. at'[c] = "readAgain" BY <1>1 DEF Goes, IndInv, TypeOK
  <1>8. Where(c)'
    BY <1>1, <1>2, <1>6, <1>7 DEF Where, Writing, PanelPlaces, ModulePlaces, FtdiPlaces
  <1>9. c \notin history.disturbed => FtdiExact(c)'
    <2> SUFFICES ASSUME c \notin history.disturbed PROVE FtdiExact(c)' OBVIOUS
    <2>1. eeprom = Before(c) /\ Valid(Before(c)) BY <1>1, <1>2 DEF FtdiExact
    <2>2. Over(put'[c], Before(c).block) = Over(put[c], Before(c).block)
      BY <1>3, <2>1, OverTwice
    <2>3. QED
      BY <1>1, <1>2, <1>7, <2>1, <2>2 DEF FtdiExact, Writing, Before, shared, Valid, Checksum
  <1>10. "ftdi" \notin history.crossed => Kept(history.asked, r.board, put'[c])
    <2> SUFFICES ASSUME "ftdi" \notin history.crossed
                 PROVE  Kept(history.asked, r.board, Over(put[c], eeprom.block))
      BY <1>3
    <2>1. Kept(history.asked, r.board, put[c]) /\ Kept(history.asked, r.board, eeprom.block)
      BY <1>1, <1>2 DEF Carried
    <2>2. QED BY <2>1, KeptOver
  <1>11. sum' \in [Client -> Sums \cup {<<>>}] /\ UNCHANGED <<memory, netif, ctx, eeprom>>
    BY <1>1 DEF IndInv, TypeOK, shared
  <1>12. QED
    BY <1>1, <1>2, <1>3, <1>5, <1>8, <1>9, <1>10, <1>11, FtdiGoes

LEMMA TakeReadKeeps ==
    ASSUME IndInv, NEW c \in Client, TakeRead(c)
    PROVE  IndInv'
  <1> DEFINE r == req[c]
  <1>1. /\ at[c] = "take" /\ at[c] \in FtdiPlaces /\ ~Writing(c) /\ Valid(eeprom)
        /\ ctx' = "closed"
        /\ UNCHANGED <<req, sock, sum, macs, memory, netif, eeprom, history>>
    BY DEF TakeRead, FtdiPlaces, Checked
  <1>2. /\ Where(c) /\ Carried(c) /\ Kind(r.board) = "ftdi" /\ r.board \in Ftdi
        /\ at[c] \notin {"idle", "answered"} /\ r \in Request
        /\ Span(r) \subseteq Byte /\ Span(r) # {} /\ Asks(r) \subseteq history.asked
        /\ r.op = "option" => r.pwd = r.board
        /\ eeprom \in Images /\ eeprom.block \in Block
        /\ put[c] \in [DOMAIN put[c] -> SUBSET Bit]
        /\ c \notin history.disturbed => FtdiExact(c)
    BY <1>1, FtdiHere
  <1>3. c \notin history.disturbed =>
           /\ eeprom = Before(c) /\ memory[r.board] = Before(c)
           /\ Valid(Before(c))
    BY <1>1, <1>2 DEF FtdiExact
  <1>4. CASE /\ r.op = "read" /\ got' = [got EXCEPT ![c] = Part(eeprom.block, r)]
             /\ Answers(c, "ok") /\ UNCHANGED put
    <2>1. LocalStep(c) BY <1>1, <1>2, <1>4 DEF LocalStep, Answers, Goes, IndInv, TypeOK
    <2>2. Part(eeprom.block, r) \in [DOMAIN Part(eeprom.block, r) -> SUBSET Bit]
      BY <1>2 DEF Part, Block
    <2>3. got'[c] = Part(eeprom.block, r) /\ DOMAIN got' = Client
          /\ \A d \in Client : got'[d] \in [DOMAIN got'[d] -> SUBSET Bit]
      BY <1>4, <2>2 DEF IndInv, TypeOK
    <2>4. c \notin history.disturbed => MacsExact(c)' /\ Answered(c)'
      BY <1>1, <1>3, <1>4, <2>3
         DEF MacsExact, Answered, Before, Writer, Valid, Checksum
    <2>5. /\ Own(c)' /\ at' \in [Client -> Places]
          /\ ans' \in [Client -> {"none", "ok", "failed", "denied", "invalid"}]
      BY <1>1, <1>2, <1>4, <2>1, <2>4, AnswersOwn
    <2>6. TypeOK' BY <1>1, <1>4, <2>3, <2>5 DEF IndInv, TypeOK
    <2>7. MemoryKept' /\ Named' BY <1>1 DEF IndInv, MemoryKept, Kept, Named
    <2>8. SharedStep(c) BY <1>1, <2>7 DEF SharedStep, Writes
    <2>9. QED BY <2>1, <2>5, <2>6, <2>7, <2>8, StepKeeps
  <1>5. CASE /\ r.op = "option" /\ put' = [put EXCEPT ![c] = Dealt(r, eeprom.block)]
             /\ Goes(c, "init") /\ UNCHANGED <<got, ans>>
    <2>1. /\ put'[c] = Dealt(r, eeprom.block) /\ DOMAIN put' = Client
          /\ \A d \in Client \ {c} : put'[d] = put[d]
      BY <1>5 DEF IndInv, TypeOK
    <2>2. put'[c] \in [Span(r) -> SUBSET Bit] BY <1>2, <2>1, DealtType
    <2>3. DOMAIN put'[c] = Span(r) /\ put'[c] \in [DOMAIN put'[c] -> SUBSET Bit]
          /\ Writer(r)
      BY <1>5, <2>2 DEF Writer
    <2>4. at'[c] = "init" BY <1>5 DEF Goes, IndInv, TypeOK
    <2>5. Where(c)'
      BY <1>1, <1>2, <1>5, <2>3, <2>4 DEF Where, PanelPlaces, ModulePlaces, FtdiPlaces
    <2>6. c \notin history.disturbed => FtdiExact(c)'
      BY <1>1, <1>3, <2>1, <2>4 DEF FtdiExact, Before, After, Valid, Checksum
    <2>7. "ftdi" \notin history.crossed => Kept(history.asked, r.board, put'[c])
      <3> SUFFICES ASSUME "ftdi" \notin history.crossed
                   PROVE  Kept(history.asked, r.board, Dealt(r, eeprom.block))
        BY <2>1
      <3>1. Kept(history.asked, r.board, eeprom.block) BY <1>1, <1>2 DEF Carried
      <3>2. Span(r) \subseteq DOMAIN eeprom.block BY <1>2 DEF Block
      <3>3. QED BY <1>2, <2>3, <3>1, <3>2, KeptDealt
    <2>8. sum' \in [Client -> Sums \cup {<<>>}] BY <1>1 DEF IndInv, TypeOK
    <2>9. "init" \in FtdiPlaces /\ "init" \notin {"take", "patch", "store", "write"}
      BY DEF FtdiPlaces
    <2>10. QED
      BY <1>1, <1>2, <1>5, <2>1, <2>3, <2>5, <2>6, <2>7, <2>8, <2>9, FtdiGoes
  <1>6. QED BY <1>4, <1>5 DEF TakeRead

LEMMA TakeFailsKeeps ==
    ASSUME IndInv, NEW c \in Client, TakeFails(c)
    PROVE  IndInv'
  BY FtdiFails DEF TakeFails, FtdiPlaces

LEMMA PatchKeeps ==
    ASSUME IndInv, NEW c \in Client, Patch(c)
    PROVE  IndInv'
  <1> DEFINE r == req[c]
             block == Over(put[c], eeprom.block)
  <1>1. /\ at[c] = "patch" /\ at[c] \in FtdiPlaces
        /\ Goes(c, "store") /\ "store" \in FtdiPlaces
        /\ UNCHANGED <<req, put, got, sock, macs, ans, memory, netif, ctx, history>>
    BY DEF Patch, FtdiPlaces
  <1>2. /\ Where(c) /\ Carried(c) /\ Kind(r.board) = "ftdi" /\ Writing(c)
        /\ eeprom \in Images /\ eeprom.block \in Block
        /\ put[c] \in [DOMAIN put[c] -> SUBSET Bit]
        /\ c \notin history.disturbed => FtdiExact(c)
    BY <1>1, FtdiHere DEF Where
  <1>3. block \in Block BY <1>2, OverType
  <1>4. /\ eeprom' = [eeprom EXCEPT !.block = block]
        /\ eeprom'.block = block /\ eeprom'.id = eeprom.id /\ eeprom' \in Images
    <2>1. eeprom' = [eeprom EXCEPT !.block = block] BY DEF Patch
    <2>2. QED BY <1>2, <1>3, <2>1 DEF Images
  <1>5. Checksum(eeprom') \in Sums BY <1>3, <1>4 DEF Checksum, Sums, Images
  <1>6. /\ sum' \in [Client -> Sums \cup {<<>>}] /\ sum'[c] = Checksum(eeprom')
        /\ \A d \in Client \ {c} : sum'[d] = sum[d]
    BY <1>5 DEF Patch, IndInv, TypeOK
  <1>7. at'[c] = "store" BY <1>1 DEF Goes, IndInv, TypeOK
  <1>8. Where(c)'
    BY <1>1, <1>2, <1>5, <1>6, <1>7 DEF Where, Writing, PanelPlaces, ModulePlaces,
       FtdiPlaces
  <1>9. c \notin history.disturbed => FtdiExact(c)'
    <2> SUFFICES ASSUME c \notin history.disturbed PROVE FtdiExact(c)' OBVIOUS
    <2>1. block = After(r, Before(c).block) /\ eeprom.id = Before(c).id
      BY <1>1, <1>2 DEF FtdiExact
    <2>2. Checksum(eeprom)' = sum'[c] BY <1>6 DEF Checksum
    <2>3. QED
      BY <1>1, <1>2, <1>4, <1>7, <2>1, <2>2 DEF FtdiExact, Writing, Before, Valid
  <1>10. "ftdi" \notin history.crossed =>
            Kept(history.asked, r.board, put[c]) /\ Kept(history.asked, r.board, block)
    BY <1>1, <1>2, KeptOver DEF Carried
  <1>11. DOMAIN put' = Client BY <1>1 DEF IndInv, TypeOK
  <1>12. QED
    BY <1>1, <1>2, <1>4, <1>6, <1>8, <1>9, <1>10, <1>11, FtdiGoes

LEMMA StoreKeeps ==
    ASSUME IndInv, NEW c \in Client, Store(c)
    PROVE  IndInv'
  <1> DEFINE r == req[c]
  <1>1. /\ at[c] = "store" /\ at[c] \in FtdiPlaces
        /\ Goes(c, "write") /\ "write" \in FtdiPlaces
        /\ UNCHANGED <<req, put, got, sock, sum, macs, ans, memory, netif, ctx, history>>
    BY DEF Store, FtdiPlaces
  <1>2. /\ Where(c) /\ Carried(c) /\ Kind(r.board) = "ftdi" /\ Writing(c)
        /\ sum[c] \in Sums
        /\ eeprom \in Images /\ eeprom.block \in Block
        /\ put[c] \in [DOMAIN put[c] -> SUBSET Bit]
        /\ c \notin history.disturbed => FtdiExact(c)
    BY <1>1, FtdiHere DEF Where
  <1>3. /\ eeprom'.block = eeprom.block /\ eeprom'.id = eeprom.id
        /\ eeprom'.sum = sum[c] /\ eeprom' \in Images
    <2>1. eeprom' = [eeprom EXCEPT !.sum = sum[c]] BY DEF Store
    <2>2. QED BY <1>2, <2>1 DEF Images
  <1>4. at'[c] = "write" BY <1>1 DEF Goes, IndInv, TypeOK
  <1>5. Where(c)'
    BY <1>1, <1>2, <1>4 DEF Where, Writing, PanelPlaces, ModulePlaces, FtdiPlaces
  <1>6. c \notin history.disturbed => FtdiExact(c)'
    <2> SUFFICES ASSUME c \notin history.disturbed PROVE FtdiExact(c)' OBVIOUS
    <2>1. sum[c] = Checksum(eeprom) BY <1>1, <1>2 DEF FtdiExact
    <2>2. Valid(eeprom)' BY <1>3, <2>1 DEF Valid, Checksum
    <2>3. QED BY <1>1, <1>2, <1>3, <1>4, <2>2 DEF FtdiExact, Writing, Before, Valid
  <1>7. "ftdi" \notin history.crossed =>
            Kept(history.asked, r.board, put[c])
            /\ Kept(history.asked, r.board, eeprom.block)
    BY <1>1, <1>2 DEF Carried
  <1>8. DOMAIN put' = Client /\ sum' \in [Client -> Sums \cup {<<>>}]
    BY <1>1 DEF IndInv, TypeOK
  <1>9. QED BY <1>1, <1>2, <1>3, <1>5, <1>6, <1>7, <1>8, FtdiGoes

LEMMA FtdiWriteKeeps ==
    ASSUME IndInv, NEW c \in Client, FtdiWrite(c)
    PROVE  IndInv'
  <1> DEFINE r == req[c]
  <1>1. /\ at[c] = "write" /\ at[c] \in FtdiPlaces /\ ctx' = "closed"
        /\ UNCHANGED <<req, put, got, sock, sum, macs, netif, eeprom, history>>
    BY DEF FtdiWrite, FtdiPlaces
  <1>2. CASE Answers(c, "failed") /\ UNCHANGED memory BY <1>1, <1>2, FtdiFails
  <1>3. ASSUME ctx # "closed", NEW a \in {"ok", "failed"}, Answers(c, a),
               NEW image \in Images, memory' = [memory EXCEPT ![ctx] = image],
               a = "ok" => image = eeprom,
               \A i \in Byte : image.block[i] \in {memory[ctx].block[i], eeprom.block[i]}
        PROVE  IndInv'
    <2>1. /\ at[c] \notin {"idle", "answered"} /\ Shares(c) /\ Carried(c) /\ Where(c)
          /\ r.board \in Ftdi /\ r.board \in Board /\ Kind(r.board) = "ftdi"
          /\ r.op # "mac" /\ r \in Request /\ Span(r) \subseteq Byte
          /\ r.op = "option" => r.pwd = r.board
          /\ eeprom.block \in Block /\ Before(c).block \in Block /\ Writing(c) /\ Writer(r)
          /\ c \notin history.disturbed => FtdiExact(c)
      BY <1>1, FtdiHere DEF Where
    <2>2. ctx \in Ftdi /\ ctx \in Board BY <1>3 DEF IndInv, TypeOK, Board
    <2>3. /\ memory' \in [Board -> Images] /\ memory'[ctx] = image
          /\ \A e \in Board \ {ctx} : memory'[e] = memory[e]
      BY <1>3, <2>2 DEF IndInv, TypeOK
    <2>4. Steady(c, "ftdi") => ctx = r.board BY <1>1, <1>3, <2>1 DEF Shares
    <2>5. Named' BY <2>2, <2>3, BoardAssumption DEF IndInv, Named, Board
    <2>6. image.block \in Block /\ memory[ctx].block \in Block
      BY <1>3, <2>2 DEF IndInv, TypeOK, Images
    <2>7. MemoryKept'
      <3>1. ASSUME "ftdi" \notin history.crossed
            PROVE  Kept(history.asked, ctx, image.block)
        <4>1. ctx = r.board BY <2>4, <3>1 DEF Steady
        <4>2. Kept(history.asked, ctx, eeprom.block)
          BY <1>1, <2>1, <3>1, <4>1 DEF Carried
        <4>3. Kept(history.asked, ctx, memory[ctx].block)
          BY <2>1, <2>2, <3>1, <4>1 DEF IndInv, MemoryKept
        <4>4. QED BY <1>3, <2>1, <2>6, <4>2, <4>3 DEF Kept, Block
      <3>2. \A b \in Board : Kind(b) \notin history.crossed =>
               Kept(history.asked, b, memory'[b].block)
        BY <2>2, <2>3, <3>1, KindFacts DEF IndInv, MemoryKept
      <3>3. QED BY <1>1, <3>2 DEF MemoryKept, Kept
    <2>8. LocalStep(c)
      BY <1>1, <1>3, <2>1 DEF LocalStep, Answers, Goes, IndInv, TypeOK
    <2>9. SharedStep(c) BY <1>1, <2>2, <2>3, <2>7 DEF SharedStep, Writes
    <2>10. ans'[c] = a BY <1>3 DEF Answers, IndInv, TypeOK
    <2>11. c \notin history.disturbed => MacsExact(c)' /\ Answered(c)'
      <3> SUFFICES ASSUME c \notin history.disturbed PROVE MacsExact(c)' /\ Answered(c)'
        OBVIOUS
      <3>1. memory'[r.board] = image /\ memory[ctx] = Before(c)
        <4>1. ctx = r.board BY <2>4 DEF Steady
        <4>2. memory[r.board] = Before(c) BY <1>1, <2>1 DEF FtdiExact
        <4>3. QED BY <2>3, <4>1, <4>2
      <3>2. /\ eeprom.block = After(r, Before(c).block) /\ Valid(eeprom)
            /\ ~AllWritten(r) => Valid(Before(c))
        BY <1>1, <2>1 DEF FtdiExact
      <3>3. Answered(c)'
        <4>1. CASE a = "failed"
          BY <1>1, <1>3, <2>1, <2>6, <2>10, <3>1, <3>2, <4>1, PartlyAnswer
        <4>2. CASE a = "ok"
          BY <1>1, <1>3, <2>1, <2>6, <2>10, <3>1, <3>2, <4>2, DoneAnswer
        <4>3. QED BY <4>1, <4>2
      <3>4. MacsExact(c)' BY <1>1, <2>1 DEF MacsExact
      <3>5. QED BY <3>3, <3>4
    <2>12. /\ Own(c)' /\ at' \in [Client -> Places]
           /\ ans' \in [Client -> {"none", "ok", "failed", "denied", "invalid"}]
      BY <1>1, <1>3, <2>1, <2>8, <2>11, AnswersOwn
    <2>13. TypeOK' BY <1>1, <2>3, <2>12 DEF IndInv, TypeOK
    <2>14. QED BY <2>5, <2>8, <2>9, <2>12, <2>13, StepKeeps
  <1>4. CASE ctx # "closed" /\ memory' = [memory EXCEPT ![ctx] = eeprom] /\ Answers(c, "ok")
    <2>1. eeprom \in Images BY DEF IndInv, TypeOK
    <2>2. QED BY <1>3, <1>4, <2>1
  <1>5. CASE /\ ctx # "closed" /\ Answers(c, "failed")
             /\ \E n \in 0..Bytes : memory' = [memory EXCEPT ![ctx] = Partly(ctx, n)]
    <2>1. PICK n \in 0..Bytes : memory' = [memory EXCEPT ![ctx] = Partly(ctx, n)]
      BY <1>5
    <2>2. eeprom \in Images /\ eeprom.block \in Block
          /\ memory[ctx] \in Images /\ memory[ctx].block \in Block
      BY <1>5 DEF IndInv, TypeOK, Images, Board
    <2> Bytes \in Nat BY BoardAssumption
    <2>3. \A i \in 1..n : i \in Byte BY ONLY Bytes \in Nat, n \in 0..Bytes DEF Byte
    <2>4. [i \in 1..n |-> eeprom.block[i]] \in [1..n -> SUBSET Bit]
      BY <2>2, <2>3 DEF Block
    <2>5. Partly(ctx, n).block \in Block BY <2>2, <2>4, OverType DEF Partly, Image
    <2>6. Partly(ctx, n) \in Images BY <2>2, <2>5 DEF Partly, Image, Images
    <2>7. \A i \in Byte :
             Partly(ctx, n).block[i] \in {memory[ctx].block[i], eeprom.block[i]}
      BY <2>2 DEF Partly, Image, Over, Block
    <2>8. QED BY <1>3, <1>5, <2>1, <2>6, <2>7
  <1>6. QED BY <1>2, <1>4, <1>5 DEF FtdiWrite

-----------------------------------------------------------------------------
(* A request that comes or goes leaves the others theirs, if what is        *)
(* remembered only grows.                                                   *)
LEMMA OthersAlone ==
    ASSUME IndInv, NEW c \in Client, UNCHANGED shared,
           \A d \in Client \ {c} :
              /\ at'[d] = at[d] /\ req'[d] = req[d] /\ put'[d] = put[d]
              /\ got'[d] = got[d] /\ sock'[d] = sock[d] /\ sum'[d] = sum[d]
              /\ macs'[d] = macs[d] /\ ans'[d] = ans[d]
              /\ history'.before[d] = history.before[d]
              /\ d \in history.disturbed => d \in history'.disturbed,
           history.asked \subseteq history'.asked,
           history.crossed \subseteq history'.crossed
    PROVE  MemoryKept' /\ Named' /\ \A d \in Client \ {c} : Own(d)'
  <1>1. UNCHANGED <<memory, netif, ctx, eeprom>> BY DEF shared
  <1>2. Named' BY <1>1 DEF IndInv, Named
  <1>3. MemoryKept'
    <2> SUFFICES ASSUME NEW b \in Board, Kind(b) \notin history'.crossed
                 PROVE  Kept(history'.asked, b, memory[b].block)
      BY <1>1 DEF MemoryKept, Kept
    <2>1. Kept(history.asked, b, memory[b].block) BY DEF IndInv, MemoryKept
    <2>2. QED BY <2>1, KeptMore
  <1>4. ASSUME NEW d \in Client \ {c} PROVE Own(d)'
    <2>1. /\ at'[d] = at[d] /\ req'[d] = req[d] /\ put'[d] = put[d]
          /\ got'[d] = got[d] /\ sock'[d] = sock[d] /\ sum'[d] = sum[d]
          /\ macs'[d] = macs[d] /\ ans'[d] = ans[d]
          /\ Before(d)' = Before(d)
          /\ d \in history.disturbed => d \in history'.disturbed
      BY DEF Before
    <2>2. Where(d) /\ Shares(d) /\ Carried(d) /\ Exact(d) BY DEF IndInv, Own
    <2>3. Where(d)' BY <2>1, <2>2 DEF Where, Writing
    <2>4. Target(d)' = Target(d) BY <2>1 DEF Target
    <2>5. \A k : Steady(d, k)' => Steady(d, k) BY <2>1 DEF Steady
    <2>6. Shares(d)' BY <1>1, <2>1, <2>2, <2>4, <2>5 DEF Shares
    <2>7. Carried(d)'
      <3> DEFINE b == req[d].board
      <3> SUFFICES ASSUME at[d] # "idle", Kind(b) \notin history'.crossed
                   PROVE  /\ Kept(history'.asked, b, put[d])
                          /\ at[d] \in {"take", "patch", "store", "write"} =>
                                Kept(history'.asked, b, eeprom.block)
        BY <1>1, <2>1 DEF Carried, Kept
      <3>1. /\ Kept(history.asked, b, put[d])
            /\ at[d] \in {"take", "patch", "store", "write"} =>
                  Kept(history.asked, b, eeprom.block)
        BY <2>2 DEF Carried
      <3>2. QED BY <3>1, KeptMore
    <2>8. Exact(d)'
      <3> SUFFICES ASSUME at[d] # "idle", d \notin history.disturbed
                   PROVE  /\ PanelExact(d)' /\ ModuleExact(d)' /\ FtdiExact(d)'
                          /\ MacsExact(d)' /\ Answered(d)'
        BY <2>1 DEF Exact
      <3>1. PanelExact(d) /\ ModuleExact(d) /\ FtdiExact(d) /\ MacsExact(d) /\ Answered(d)
        BY <2>2 DEF Exact
      <3>2. PanelExact(d)' /\ ModuleExact(d)' /\ MacsExact(d)'
        BY <1>1, <2>1, <3>1 DEF PanelExact, ModuleExact, MacsExact, Writing
      <3>3. FtdiExact(d)'
        BY <1>1, <2>1, <3>1 DEF FtdiExact, Valid, Checksum, Writing
      <3>4. Answered(d)' BY <1>1, <2>1, <3>1 DEF Answered, Valid, Checksum
      <3>5. QED BY <3>1, <3>2, <3>3, <3>4
    <2>9. QED BY <2>3, <2>6, <2>7, <2>8 DEF Own
  <1>5. QED BY <1>2, <1>3, <1>4

(* A socket that is bound is bound to what the name is; one that is not is  *)
(* remembered, and nothing is claimed of its client any more.               *)
LEMMA BindKeeps ==
    ASSUME IndInv, NEW c \in Client, Bind(c)
    PROVE  IndInv'
  <1>1. /\ at[c] = "bind" /\ at[c] \in ModulePlaces
        /\ UNCHANGED <<req, put, got, sum, macs, ans, shared>>
    BY DEF Bind, ModulePlaces
  <1>2. at' \in [Client -> Places] /\ at'[c] = "command"
        /\ \A d \in Client \ {c} : at'[d] = at[d]
    BY DEF Bind, Goes, IndInv, TypeOK, Places
  <1>3. PICK b \in Module \cup {Panel} : sock' = [sock EXCEPT ![c] = b]
    BY DEF Bind, IndInv, TypeOK
  <1>4. /\ sock' \in [Client -> Module \cup {Panel}] /\ sock'[c] = b
        /\ \A d \in Client \ {c} : sock'[d] = sock[d]
    BY <1>3 DEF IndInv, TypeOK
  <1>5. CASE netif # "" /\ sock' = [sock EXCEPT ![c] = netif] /\ UNCHANGED history
    <2>1. SharedStep(c) /\ Named' BY <1>1, <1>5, QuietStep
    <2>2. TypeOK' BY <1>1, <1>2, <1>4, <1>5 DEF IndInv, TypeOK, shared
    <2>3. LocalStep(c) BY <1>1, <1>2, <1>4, <1>5 DEF LocalStep
    <2>4. sock'[c] = netif BY <1>5 DEF IndInv, TypeOK
    <2>5. Steady(c, "module") => netif = Target(c)
      BY <1>1, <1>5, ModuleHere DEF Shares
    <2>6. Own(c)' BY <1>1, <1>2, <2>3, <2>4, <2>5, GoesOn DEF ModulePlaces, shared
    <2>7. QED BY <2>1, <2>2, <2>3, <2>6, StepKeeps
  <1>6. CASE history' = [history EXCEPT !.crossed = @ \cup {"module"},
                                        !.disturbed = @ \cup {c}]
    <2>1. /\ DOMAIN history' = DOMAIN history
          /\ history'.before = history.before /\ history'.asked = history.asked
          /\ history'.crossed = history.crossed \cup {"module"}
          /\ history'.disturbed = history.disturbed \cup {c}
      BY <1>6 DEF IndInv, TypeOK
    <2>2. MemoryKept' /\ Named' /\ \A d \in Client \ {c} : Own(d)'
      BY <1>1, <1>2, <1>4, <2>1, OthersAlone
    <2>3. TypeOK' BY <1>1, <1>2, <1>4, <2>1 DEF IndInv, TypeOK, shared
    <2>4. Where(c) /\ Carried(c) BY <1>1, ModuleHere
    <2>5. Where(c)'
      BY <1>1, <1>2, <2>4 DEF Where, PanelPlaces, ModulePlaces, FtdiPlaces
    <2>6. Shares(c)' BY <1>2, <2>1 DEF Shares, Steady, FtdiPlaces
    <2>7. Carried(c)' BY <1>1, <1>2, <2>1, <2>4 DEF Carried, Kept
    <2>8. Exact(c)' BY <2>1 DEF Exact
    <2>9. Noted'
      <3>1. /\ history.crossed \subseteq history'.crossed
            /\ history.disturbed \subseteq history'.disturbed
            /\ \A d \in Client : at'[d] # "idle" => at[d] # "idle"
        BY <1>1, <1>2, <2>1
      <3>2. QED BY <1>1, <2>1, <3>1 DEF IndInv, Noted
    <2>10. QED BY <2>2, <2>3, <2>5, <2>6, <2>7, <2>8, <2>9 DEF IndInv, Own
  <1>7. QED BY <1>5, <1>6 DEF Bind

LEMMA SendKeeps ==
    ASSUME IndInv, NEW c \in Client, Send(c)
    PROVE  IndInv'
  <1>1. /\ at' \in [Client -> Places] /\ at'[c] = "idle" /\ UNCHANGED shared
        /\ history' = [history EXCEPT !.disturbed = @ \ {c}, !.before[c] = Fresh(Panel)]
    BY DEF Send, Goes, IndInv, TypeOK, Places
  <1>2. \A d \in Client \ {c} :
              /\ at'[d] = at[d] /\ req'[d] = req[d] /\ put'[d] = put[d]
              /\ got'[d] = got[d] /\ sock'[d] = sock[d] /\ sum'[d] = sum[d]
              /\ macs'[d] = macs[d] /\ ans'[d] = ans[d]
    BY DEF Send, Goes, IndInv, TypeOK
  <1>3. /\ DOMAIN history' = DOMAIN history
        /\ history'.before \in [Client -> Images]
        /\ history'.asked = history.asked /\ history'.crossed = history.crossed
        /\ \A d \in Client \ {c} : /\ history'.before[d] = history.before[d]
                                   /\ d \in history.disturbed => d \in history'.disturbed
    <2>1. Fresh(Panel) \in Images BY FreshFacts DEF Board
    <2>2. QED BY <1>1, <2>1 DEF IndInv, TypeOK
  <1>4. TypeOK'
    <2>1. /\ req' \in [Client -> Request \cup {NoRequest}]
          /\ sock' \in [Client -> Module \cup {Panel}]
          /\ sum' \in [Client -> Sums \cup {<<>>}]
          /\ ans' \in [Client -> {"none", "ok", "failed", "denied", "invalid"}]
      BY DEF Send, IndInv, TypeOK
    <2>2. macs' \in [Client -> Seq(Module \cup {"zeros", "text"})]
      <3>1. <<>> \in Seq(Module \cup {"zeros", "text"}) OBVIOUS
      <3> DEFINE S == Seq(Module \cup {"zeros", "text"})
      <3>2. macs \in [Client -> S] /\ macs' = [macs EXCEPT ![c] = <<>>] /\ <<>> \in S
        BY <3>1 DEF Send, IndInv, TypeOK
      <3> HIDE DEF S
      <3>3. macs' \in [Client -> S] BY <3>2
      <3>4. QED BY <3>3 DEF S
    <2>3. /\ DOMAIN put' = Client /\ DOMAIN got' = Client
          /\ put'[c] = <<>> /\ got'[c] = <<>>
      BY DEF Send, IndInv, TypeOK
    <2>4. <<>> \in [DOMAIN <<>> -> SUBSET Bit] OBVIOUS
    <2>5. \A d \in Client : /\ put'[d] \in [DOMAIN put'[d] -> SUBSET Bit]
                            /\ got'[d] \in [DOMAIN got'[d] -> SUBSET Bit]
      BY <1>2, <2>3, <2>4 DEF IndInv, TypeOK
    <2>6. QED BY <1>1, <1>3, <2>1, <2>2, <2>3, <2>5 DEF IndInv, TypeOK, shared
  <1>5. MemoryKept' /\ Named' /\ \A d \in Client \ {c} : Own(d)'
    BY <1>1, <1>2, <1>3, OthersAlone
  <1>6. Own(c)'
    BY <1>1 DEF Own, Where, Shares, Carried, Exact, PanelPlaces, ModulePlaces, FtdiPlaces
  <1>7. Noted' BY <1>1, <1>2, <1>3 DEF IndInv, Noted
  <1>8. QED BY <1>4, <1>5, <1>6, <1>7 DEF IndInv

(* What is remembered of a request that comes. *)
LEMMA RememberFacts ==
    ASSUME IndInv, NEW c \in Client, at[c] = "idle", NEW r \in Request, Remember(c, r),
           req' = [req EXCEPT ![c] = r],
           \A d \in Client \ {c} : at'[d] = at[d]
    PROVE  /\ history.asked \subseteq history'.asked
           /\ Asks(r) \subseteq history'.asked
           /\ history.crossed \subseteq history'.crossed
           /\ DOMAIN history' = {"begun", "asked", "crossed", "disturbed", "before"}
           /\ history'.before \in [Client -> Images] /\ history'.before[c] = memory[r.board]
           /\ \A d \in Client \ {c} : /\ history'.before[d] = history.before[d]
                                      /\ d \in history.disturbed => d \in history'.disturbed
           /\ Noted'
  <1> DEFINE others == {d \in Client \ {c} : at[d] # "idle"}
             crosses == {k \in UNION {Kinds(req[d]) \cap Kinds(r) : d \in others} :
                           \E d \in others : k \in Kinds(req[d])
                              /\ Cardinality(Targets(req[d]) \cup Targets(r)) > 1}
  <1>1. /\ history'.asked = history.asked \cup Asks(r)
        /\ history'.crossed = history.crossed \cup crosses
        /\ history'.disturbed = (history.disturbed \ {c})
                        \cup {d \in others : Disturbs(r, req[d])}
                        \cup (IF \E d \in others : Disturbs(req[d], r) THEN {c} ELSE {})
        /\ history'.before = [history.before EXCEPT ![c] = memory[r.board]]
        /\ DOMAIN history' = {"begun", "asked", "crossed", "disturbed", "before"}
    BY DEF Remember
  <1>2. memory[r.board] \in Images /\ history.before \in [Client -> Images]
    BY BoardAssumption DEF IndInv, TypeOK
  <1>3. /\ history'.before \in [Client -> Images] /\ history'.before[c] = memory[r.board]
        /\ \A d \in Client \ {c} : history'.before[d] = history.before[d]
    BY <1>1, <1>2
  <1>4. req'[c] = r /\ \A d \in Client \ {c} : req'[d] = req[d] BY DEF IndInv, TypeOK
  <1>5. ASSUME NEW d \in others
        PROVE  /\ \A k \in Kinds(r) \cap Kinds(req[d]) :
                     Cardinality(Targets(req[d]) \cup Targets(r)) > 1
                        => k \in history'.crossed
               /\ Disturbs(req[d], r) => c \in history'.disturbed
               /\ Disturbs(r, req[d]) => d \in history'.disturbed
    <2>1. ASSUME NEW k \in Kinds(r) \cap Kinds(req[d]),
                 Cardinality(Targets(req[d]) \cup Targets(r)) > 1
          PROVE  k \in crosses
      <3>1. k \in UNION {Kinds(req[e]) \cap Kinds(r) : e \in others} BY <1>5, <2>1
      <3>2. QED BY <1>5, <2>1, <3>1
    <2>2. Disturbs(req[d], r) => \E e \in others : Disturbs(req[e], r) BY <1>5
    <2>3. Disturbs(r, req[d]) => d \in {e \in others : Disturbs(r, req[e])} BY <1>5
    <2> HIDE DEF crosses
    <2>4. QED BY <1>1, <2>1, <2>2, <2>3
  <1>6. \A d \in others : Targets(req[d]) \cup Targets(r) = Targets(r) \cup Targets(req[d])
    OBVIOUS
  <1>7. Noted'
    <2> SUFFICES ASSUME NEW d \in Client, at'[d] # "idle"
                 PROVE  /\ Asks(req'[d]) \subseteq history'.asked
                        /\ \A e \in Client \ {d} : at'[e] # "idle" =>
                             /\ \A k \in Kinds(req'[d]) \cap Kinds(req'[e]) :
                                  Cardinality(Targets(req'[d]) \cup Targets(req'[e])) > 1
                                     => k \in history'.crossed
                             /\ Disturbs(req'[e], req'[d]) => d \in history'.disturbed
      BY DEF Noted
    <2>1. CASE d = c
      <3>1. Asks(req'[d]) \subseteq history'.asked BY <1>1, <1>4, <2>1
      <3>2. ASSUME NEW e \in Client \ {d}, at'[e] # "idle"
            PROVE  /\ \A k \in Kinds(req'[d]) \cap Kinds(req'[e]) :
                        Cardinality(Targets(req'[d]) \cup Targets(req'[e])) > 1
                           => k \in history'.crossed
                   /\ Disturbs(req'[e], req'[d]) => d \in history'.disturbed
        <4>1. e \in others /\ req'[e] = req[e] /\ req'[d] = r BY <1>4, <2>1, <3>2
        <4>2. QED BY <1>5, <1>6, <2>1, <4>1
      <3>3. QED BY <3>1, <3>2
    <2>2. CASE d # c
      <3>1. d \in others /\ req'[d] = req[d] BY <1>4, <2>2
      <3>2. Asks(req'[d]) \subseteq history'.asked BY <1>1, <3>1 DEF IndInv, Noted
      <3>3. ASSUME NEW e \in Client \ {d}, at'[e] # "idle"
            PROVE  /\ \A k \in Kinds(req'[d]) \cap Kinds(req'[e]) :
                        Cardinality(Targets(req'[d]) \cup Targets(req'[e])) > 1
                           => k \in history'.crossed
                   /\ Disturbs(req'[e], req'[d]) => d \in history'.disturbed
        <4>1. CASE e = c BY <1>4, <1>5, <3>1, <4>1
        <4>2. CASE e # c
          <5>1. e \in others /\ req'[e] = req[e] BY <1>4, <3>3, <4>2
          <5>2. /\ \A k \in Kinds(req[d]) \cap Kinds(req[e]) :
                        Cardinality(Targets(req[d]) \cup Targets(req[e])) > 1
                           => k \in history.crossed
                /\ Disturbs(req[e], req[d]) => d \in history.disturbed
            BY <3>1, <3>3, <5>1 DEF IndInv, Noted
          <5>3. QED BY <1>1, <2>2, <3>1, <5>1, <5>2
        <4>3. QED BY <4>1, <4>2
      <3>4. QED BY <3>2, <3>3
    <2>3. QED BY <2>1, <2>2
  <1>8. QED BY <1>1, <1>3, <1>7

LEMMA AskKeeps ==
    ASSUME IndInv, NEW c \in Client, NEW r \in Request, Ask(c, r)
    PROVE  IndInv'
  <1> DEFINE start == Starts(r)
             b == r.board
             before == memory[b]
  <1>1. /\ at[c] = "idle" /\ UNCHANGED <<sock, sum, shared>>
        /\ req' = [req EXCEPT ![c] = r] /\ Remember(c, r)
    BY DEF Ask
  <1>2. /\ \A d \in Client \ {c} :
              /\ at'[d] = at[d] /\ req'[d] = req[d] /\ put'[d] = put[d]
              /\ got'[d] = got[d] /\ sock'[d] = sock[d] /\ sum'[d] = sum[d]
              /\ macs'[d] = macs[d] /\ ans'[d] = ans[d]
        /\ req'[c] = r /\ macs'[c] = <<>> /\ got'[c] = <<>>
        /\ put'[c] = IF r.op = "write" THEN Fill(r) ELSE <<>>
        /\ DOMAIN put' = Client /\ DOMAIN got' = Client
    BY DEF Ask, Goes, IndInv, TypeOK
  <1>3. /\ history.asked \subseteq history'.asked
        /\ Asks(r) \subseteq history'.asked
        /\ history.crossed \subseteq history'.crossed
        /\ DOMAIN history' = {"begun", "asked", "crossed", "disturbed", "before"}
        /\ history'.before \in [Client -> Images] /\ history'.before[c] = before
        /\ \A d \in Client \ {c} : /\ history'.before[d] = history.before[d]
                                   /\ d \in history.disturbed => d \in history'.disturbed
        /\ Noted'
    BY <1>1, <1>2, RememberFacts
  <1>4. MemoryKept' /\ Named' /\ \A d \in Client \ {c} : Own(d)'
    BY <1>1, <1>2, <1>3, OthersAlone
  <1>5. b \in Board /\ (r.op = "mac" => b = Panel)
        /\ r.op \in {"option", "write", "read", "mac"} /\ Span(r) # {}
        /\ before.block \in Block
    BY BoardAssumption, SpanFacts DEF IndInv, TypeOK, Images
  <1>6. /\ start \in {"invalid", "denied", "init", "panelWrite", "panelRead", "clear"}
        /\ start = "init" => /\ b \in Ftdi /\ r.last <= FtdiBytes
                             /\ r.op = "option" => r.pwd = b
        /\ start \in {"panelRead", "panelWrite"} => b = Panel /\ r.last <= Bytes
        /\ start = "panelWrite" => r.op = "write" /\ Span(r) = Byte
        /\ start = "clear" => b \in Module /\ r.last <= Bytes
    <2>1. b = Panel \/ b \in Module \/ b \in Ftdi BY <1>5 DEF Board
    <2>2. b \notin Ftdi => Room(b) = Bytes BY DEF Room
    <2>3. b \in Ftdi => Room(b) = FtdiBytes BY DEF Room
    <2>4. r.last \in Nat /\ Bytes \in Nat /\ FtdiBytes \in Nat /\ Room(b) \in Nat
      <3>1. r.last \in Nat BY SpanFacts
      <3>2. Bytes \in Nat /\ FtdiBytes \in 0..Bytes BY BoardAssumption
      <3>3. FtdiBytes \in Nat BY ONLY <3>2
      <3>4. QED BY <3>1, <3>2, <3>3 DEF Room
    <2>5. r.last > Room(b) \/ r.last <= Room(b) BY <2>4
    <2>6. CASE b = Panel
      BY <2>2, <2>4, <2>5, <2>6, KindFacts, BoardAssumption DEF Starts, Span
    <2>7. CASE b \in Module
      BY <2>2, <2>4, <2>5, <2>7, KindFacts, BoardAssumption DEF Starts
    <2>8. CASE b \in Ftdi
      BY <2>3, <2>4, <2>5, <2>8, KindFacts, BoardAssumption DEF Starts, CheckPwd
    <2>9. QED BY <2>1, <2>6, <2>7, <2>8
  <1>7. /\ at' \in [Client -> Places]
        /\ ans' \in [Client -> {"none", "ok", "failed", "denied", "invalid"}]
        /\ \/ at'[c] = "answered" /\ ans'[c] \in {"invalid", "denied"}
           \/ at'[c] = start /\ start \in {"init", "panelWrite", "panelRead", "clear"}
    <2>1. /\ at \in [Client -> Places]
          /\ ans \in [Client -> {"none", "ok", "failed", "denied", "invalid"}]
          /\ "answered" \in Places
          /\ start \notin {"invalid", "denied"} => start \in Places
      BY <1>6 DEF IndInv, TypeOK, Places
    <2>2. CASE start \in {"invalid", "denied"}
      BY <2>1, <2>2 DEF Ask, Goes
    <2>3. CASE start \notin {"invalid", "denied"}
      BY <1>6, <2>1, <2>3 DEF Ask, Goes
    <2>4. QED BY <2>2, <2>3
  <1>8. /\ r.op = "write" => DOMAIN put'[c] = Span(r) /\ put'[c] = Fill(r)
        /\ put'[c] # <<>> => r.op = "write"
        /\ put'[c] \in [DOMAIN put'[c] -> SUBSET Bit]
        /\ got'[c] \in [DOMAIN got'[c] -> SUBSET Bit]
    <2>1. <<>> \in [DOMAIN <<>> -> SUBSET Bit] OBVIOUS
    <2>2. QED BY <1>2, <2>1, DealtFacts
  <1>9. TypeOK'
    <2>1. macs' \in [Client -> Seq(Module \cup {"zeros", "text"})]
      <3> DEFINE S == Seq(Module \cup {"zeros", "text"})
      <3>1. <<>> \in S OBVIOUS
      <3>2. macs \in [Client -> S] /\ macs' = [macs EXCEPT ![c] = <<>>]
        BY DEF Ask, IndInv, TypeOK
      <3> HIDE DEF S
      <3>3. macs' \in [Client -> S] BY <3>1, <3>2
      <3>4. QED BY <3>3 DEF S
    <2>2. req' \in [Client -> Request \cup {NoRequest}] BY <1>1 DEF IndInv, TypeOK
    <2>3. \A d \in Client : /\ put'[d] \in [DOMAIN put'[d] -> SUBSET Bit]
                            /\ got'[d] \in [DOMAIN got'[d] -> SUBSET Bit]
      BY <1>2, <1>8 DEF IndInv, TypeOK
    <2>4. QED BY <1>1, <1>2, <1>3, <1>7, <2>1, <2>2, <2>3 DEF IndInv, TypeOK, shared
  <1>10. Where(c)'
    <2>1. put'[c] # <<>> => Writer(r) /\ DOMAIN put'[c] = Span(r) BY <1>8 DEF Writer
    <2>2. r.op = "mac" => put'[c] = <<>> BY <1>8
    <2>3. start = "clear" => r.op # "mac"
      BY <1>5, <1>6, BoardAssumption
    <2>4. start = "panelWrite" => Writer(r) /\ DOMAIN put'[c] = Byte
      BY <1>6, <1>8 DEF Writer
    <2>5. QED
      BY <1>2, <1>6, <1>7, <2>1, <2>2, <2>3, <2>4
         DEF Where, Writing, PanelPlaces, ModulePlaces, FtdiPlaces
  <1>11. Shares(c)' BY <1>7 DEF Shares, FtdiPlaces
  <1>12. Carried(c)'
    <2>1. Kept(history'.asked, b, put'[c])
      <3>1. CASE r.op = "write" BY <1>3, <1>8, <3>1, KeptFill
      <3>2. CASE r.op # "write"
        <4>1. DOMAIN put'[c] = {} BY <1>2, <3>2
        <4>2. QED BY <4>1 DEF Kept
      <3>3. QED BY <3>1, <3>2
    <2>2. at'[c] \notin {"take", "patch", "store", "write"} BY <1>7
    <2>3. QED BY <1>2, <2>1, <2>2 DEF Carried, Kept
  <1>13. Exact(c)'
    <2>1. memory' = memory /\ Before(c)' = before BY <1>1, <1>3 DEF Before, shared
    <2>2. r.op = "write" => put'[c] = Dealt(r, before.block)
      BY <1>8, DealtFacts
    <2>3. PanelExact(c)'
      <3>1. start = "panelWrite" => put'[c] = After(r, before.block)
        <4> SUFFICES ASSUME start = "panelWrite" PROVE put'[c] = After(r, before.block)
          OBVIOUS
        <4>1. /\ put'[c] = Dealt(r, before.block) /\ r.op = "write"
              /\ DOMAIN Dealt(r, before.block) = Byte
          BY <1>6, <2>2, DealtFacts
        <4>2. Dealt(r, before.block) = [i \in Byte |-> Dealt(r, before.block)[i]]
          BY <4>1 DEF Dealt, Fill
        <4>3. After(r, before.block) = [i \in Byte |-> Dealt(r, before.block)[i]]
          BY <1>5, <4>1 DEF After, Over, Block
        <4>4. QED BY <4>1, <4>2, <4>3
      <3>2. start = "panelWrite" => r.op # "option" BY <1>6
      <3>3. QED BY <1>2, <1>6, <1>7, <2>1, <3>1, <3>2 DEF PanelExact, PanelPlaces
    <2>4. ModuleExact(c)'
      BY <1>2, <1>7, <1>8, <2>1, <2>2 DEF ModuleExact, Writing
    <2>5. FtdiExact(c)'
      BY <1>2, <1>7, <1>8, <2>1, <2>2 DEF FtdiExact, Writing, After, FtdiPlaces
    <2>6. MacsExact(c)' BY <1>2 DEF MacsExact
    <2>7. Answered(c)' BY <1>2, <1>7, <2>1 DEF Answered
    <2>8. QED BY <2>3, <2>4, <2>5, <2>6, <2>7 DEF Exact
  <1>14. QED BY <1>3, <1>4, <1>9, <1>10, <1>11, <1>12, <1>13 DEF IndInv, Own

-----------------------------------------------------------------------------
LEMMA InitIndInv == Init => IndInv
  <1> SUFFICES ASSUME Init PROVE IndInv OBVIOUS
  <1>1. at = [c \in Client |-> "idle"] BY DEF Init
  <1>2. PICK damaged \in {{}} \cup {{b} : b \in Suspect} :
          memory = [b \in Board |-> IF b \in damaged THEN Damaged(b) ELSE Fresh(b)]
    BY DEF Init
  <1>3. \A b \in Board : memory[b] \in Images /\ memory[b].block = Initial[b]
                         /\ memory[b].id = b
    BY <1>2, FreshFacts DEF Fresh, Damaged, Image
  <1>4. TypeOK
    <2>1. memory \in [Board -> Images] BY <1>2, <1>3
    <2>2. Fresh(Panel) \in Images BY FreshFacts DEF Board
    <2>3. eeprom \in Images /\ history.before \in [Client -> Images]
      BY <2>2 DEF Init
    <2>4. <<>> \in Seq(Module \cup {"zeros", "text"}) OBVIOUS
    <2>5. macs \in [Client -> Seq(Module \cup {"zeros", "text"})] BY <2>4 DEF Init
    <2>6. <<>> \in [DOMAIN <<>> -> SUBSET Bit] OBVIOUS
    <2>7. /\ DOMAIN put = Client /\ DOMAIN got = Client
          /\ \A c \in Client : put[c] = <<>> /\ got[c] = <<>>
      BY DEF Init
    <2>8. /\ at \in [Client -> Places] /\ req \in [Client -> Request \cup {NoRequest}]
          /\ sock \in [Client -> Module \cup {Panel}]
          /\ sum \in [Client -> Sums \cup {<<>>}]
          /\ ans \in [Client -> {"none", "ok", "failed", "denied", "invalid"}]
          /\ DOMAIN history = {"begun", "asked", "crossed", "disturbed", "before"}
          /\ netif \in Module \cup {""} /\ ctx \in Ftdi \cup {"closed"}
      BY DEF Init, Places
    <2>9. QED BY <2>1, <2>3, <2>5, <2>6, <2>7, <2>8 DEF TypeOK
  <1>5. Named BY <1>3 DEF Named, Board
  <1>6. Noted BY <1>1 DEF Noted
  <1>7. MemoryKept BY <1>3 DEF MemoryKept, Kept
  <1>8. \A c \in Client : Own(c)
    BY <1>1 DEF Own, Where, Shares, Carried, Exact, PanelPlaces, ModulePlaces, FtdiPlaces
  <1>9. QED BY <1>4, <1>5, <1>6, <1>7, <1>8 DEF IndInv

LEMMA NextIndInv == IndInv /\ [Next]_vars => IndInv'
  <1> SUFFICES ASSUME IndInv, [Next]_vars PROVE IndInv' OBVIOUS
  <1>1. ASSUME NEW c \in Client, NEW r \in Request, Ask(c, r) PROVE IndInv'
    BY <1>1, AskKeeps
  <1>2. ASSUME NEW c \in Client, PanelStep(c) PROVE IndInv'
    BY <1>2, PanelReadKeeps, PanelFailsKeeps, PanelWriteKeeps DEF PanelStep
  <1>3. ASSUME NEW c \in Client, ModuleStep(c) PROVE IndInv'
    BY <1>3, ClearKeeps, LookupKeeps, SocketKeeps, BindKeeps, ModuleReadKeeps,
       ModuleWriteKeeps, ModuleFailsKeeps DEF ModuleStep
  <1>4. ASSUME NEW c \in Client, FtdiStep(c) PROVE IndInv'
    BY <1>4, SysInitKeeps, FtdiReadKeeps, TakeKeeps, TakeReadKeeps, TakeFailsKeeps,
       PatchKeeps, StoreKeeps, FtdiWriteKeeps DEF FtdiStep
  <1>5. ASSUME NEW c \in Client, Send(c) PROVE IndInv'
    BY <1>5, SendKeeps
  <1>6. CASE UNCHANGED vars
    <2>1. UNCHANGED <<at, req, put, got, sock, sum, macs, ans, memory, netif, ctx, eeprom,
                      history>>
      BY <1>6 DEF vars, local, shared
    <2>2. TypeOK' BY <2>1 DEF IndInv, TypeOK
    <2>3. Noted' BY <2>1 DEF IndInv, Noted
    <2>4. ASSUME NEW c \in Client PROVE Own(c)'
      <3>1. Where(c) /\ Shares(c) /\ Carried(c) /\ Exact(c) BY DEF IndInv, Own
      <3>2. Where(c)' BY <2>1, <3>1 DEF Where, Writing
      <3>3. Shares(c)' BY <2>1, <3>1 DEF Shares, Steady, Target
      <3>4. Carried(c)' BY <2>1, <3>1 DEF Carried, Kept
      <3>5. Exact(c)'
        BY <2>1, <3>1 DEF Exact, PanelExact, ModuleExact, FtdiExact, MacsExact,
           Answered, Writing, Before, Valid, Checksum
      <3>6. QED BY <3>2, <3>3, <3>4, <3>5 DEF Own
    <2>5. MemoryKept' /\ Named' BY <2>1 DEF IndInv, MemoryKept, Kept, Named
    <2>6. QED BY <2>2, <2>3, <2>4, <2>5 DEF IndInv
  <1>7. QED BY <1>1, <1>2, <1>3, <1>4, <1>5, <1>6 DEF Next

LEMMA InvHolds == Spec => []IndInv
  BY InitIndInv, NextIndInv, PTL DEF Spec

-----------------------------------------------------------------------------
(* Every variable keeps its type. *)
THEOREM TypeCorrect == Spec => []TypeOK
  <1>1. IndInv => TypeOK BY DEF IndInv
  <1>2. QED BY <1>1, InvHolds, PTL

(* Bits nobody asked to write stay as they are, in every EEPROM of a kind   *)
(* no requests for two boards of which ran at once and, for modules, while  *)
(* no socket was left unbound.                                              *)
THEOREM UnaskedBitsStay == Spec => []UnaskedStays
  <1>1. IndInv => UnaskedStays
    <2> SUFFICES ASSUME IndInv, NEW b \in Board, NEW i \in Byte, NEW x \in Bit,
                        <<b, i, x>> \notin history.asked,
                        Kind(b) \notin history.crossed
                 PROVE  x \in memory[b].block[i] <=> x \in Initial[b][i]
      BY DEF UnaskedStays
    <2>1. memory[b].block \in Block BY DEF IndInv, TypeOK, Images
    <2>2. i \in DOMAIN memory[b].block BY <2>1 DEF Block
    <2>3. Kept(history.asked, b, memory[b].block) BY DEF IndInv, MemoryKept
    <2>4. QED BY <2>2, <2>3 DEF Kept
  <1>2. QED BY <1>1, InvHolds, PTL

(* A request in whose way no other gets, and none of whose sockets was left *)
(* unbound, does to its board what it says.                                 *)
THEOREM UndisturbedRequestIsExact == Spec => []UndisturbedIsExact
  <1>1. IndInv => UndisturbedIsExact
    <2> SUFFICES ASSUME IndInv, NEW c \in Client, Undisturbed(c)
                 PROVE  MacsExact(c) /\ Answered(c)
      BY DEF UndisturbedIsExact, MacsExact, Answered, Undisturbed
    <2>1. Exact(c) BY DEF IndInv, Own
    <2>2. QED BY <2>1 DEF Exact, Undisturbed
  <1>2. QED BY <1>1, InvHolds, PTL

(* What is answered 0 undisturbed leaves a 40G board a good checksum, and   *)
(* unless it wrote every option, found a good one.                          *)
THEOREM GoodChecksumsHold == Spec => []ChecksumHolds
  <1>1. IndInv => ChecksumHolds
    <2> SUFFICES ASSUME IndInv, NEW c \in Client, Undisturbed(c)
                 PROVE  Answered(c) /\ at[c] = "answered"
      BY DEF ChecksumHolds, Answered, AllWritten, Span
    <2>1. Exact(c) BY DEF IndInv, Own
    <2>2. QED BY <2>1 DEF Exact, Undisturbed
  <1>2. QED BY <1>1, InvHolds, PTL

=============================================================================
