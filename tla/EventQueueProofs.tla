-------------------------- MODULE EventQueueProofs --------------------------
(* Proofs about EventQueue, for every capacity, every set of events and     *)
(* every set of addresses: the list is always whole, the destructor follows *)
(* no stale pointer and frees everything, and the queue implements          *)
(* BoundedFifo.                                                             *)
EXTENDS EventQueue, FiniteSetTheorems, SequenceTheorems, TLAPS

(* Nothing the destructor has left is allocated. *)
IndInv == TypeOK /\ WellFormed /\ ClosingList /\ DestroyedFreesAll

LEMMA InitIndInv == Init => IndInv
<1> SUFFICES ASSUME Init PROVE IndInv
  OBVIOUS
<1> USE QueueAssumption
<1>1. TypeOK
  BY DEF Init, TypeOK, Pointer, Cell, Blank, Answer
<1>2. WellFormed
  <2> DEFINE p == [i \in 1..0 |-> Null]
  <2>1. p \in [1..count -> live]
    BY DEF Init
  <2>2. Chain(p)
    BY DEF Init, Chain, ListFrom
  <2> QED
    BY <2>1, <2>2 DEF WellFormed
<1>3. ClosingList /\ DestroyedFreesAll
  BY DEF Init, ClosingList, DestroyedFreesAll
<1> QED
  BY <1>1, <1>2, <1>3 DEF IndInv

(* One lemma per action: the action keeps every part of IndInv. *)

LEMMA EnqueueFirstInv ==
  ASSUME IndInv, NEW e \in Event, EnqueueFirst(e)
  PROVE  IndInv'
<1> USE QueueAssumption
<1>1. PICK n \in Node \ live : /\ live' = live \cup {n}
                               /\ cell' = [cell EXCEPT ![n] = NewNode(e, Null)]
                               /\ first' = n
                               /\ last' = n
  BY DEF EnqueueFirst
<1>2. /\ mode = "open" /\ mode' = "open" /\ tmp' = tmp
      /\ count = 0 /\ count' = 1 /\ 0 < MaxCount
      /\ reply' = Answer("Enqueue", TRUE, e)
  BY DEF EnqueueFirst, Room, IndInv, TypeOK
<1>3. TypeOK'
  BY <1>1, <1>2 DEF IndInv, TypeOK, Pointer, Cell, NewNode, Answer
<1>4. live = {}
  BY <1>2 DEF IndInv, WellFormed, Chain, ListFrom
<1>5. WellFormed'
  <2> DEFINE p == [i \in 1..1 |-> n]
  <2>1. p \in [1..count' -> live'] /\ p[1] = n
    BY <1>1, <1>2
  <2>2. cell'[n] = NewNode(e, Null)
    BY <1>1 DEF IndInv, TypeOK
  <2>3. Chain(p)'
    BY <1>1, <1>2, <1>4, <2>1, <2>2 DEF Chain, ListFrom, NewNode
  <2> QED
    BY <2>1, <2>3 DEF WellFormed
<1>6. ClosingList' /\ DestroyedFreesAll'
  BY <1>2 DEF ClosingList, DestroyedFreesAll
<1> QED
  BY <1>3, <1>5, <1>6 DEF IndInv

LEMMA EnqueueNextInv ==
  ASSUME IndInv, NEW e \in Event, EnqueueNext(e)
  PROVE  IndInv'
<1> USE QueueAssumption
<1>1. PICK n \in Node \ live :
         /\ live' = live \cup {n}
         /\ cell' = [cell EXCEPT ![n] = NewNode(e, last), ![last].Next = n]
         /\ last' = n
  BY DEF EnqueueNext
<1>2. /\ mode = "open" /\ mode' = "open" /\ tmp' = tmp /\ first' = first
      /\ count \in Nat /\ count > 0 /\ count' = count + 1 /\ count < MaxCount
      /\ reply' = Answer("Enqueue", TRUE, e)
  BY DEF EnqueueNext, Room, IndInv, TypeOK
<1>3. PICK p \in [1..count -> live] : Chain(p)
  BY <1>2 DEF IndInv, WellFormed
<1>4. last \in live /\ last # n /\ p[count] = last /\ p[1] = first
  BY <1>1, <1>2, <1>3 DEF Chain, ListFrom
<1>5. cell \in [Node -> Cell] /\ live \subseteq Node
  BY DEF IndInv, TypeOK
<1>6. /\ cell'[n] = NewNode(e, last)
      /\ cell'[last] = [cell[last] EXCEPT !.Next = n]
      /\ \A x \in Node \ {n, last} : cell'[x] = cell[x]
  BY <1>1, <1>4, <1>5
<1>7. cell' \in [Node -> Cell]
  BY <1>1, <1>4, <1>5 DEF Cell, Pointer, NewNode
<1>8. TypeOK'
  BY <1>1, <1>2, <1>7 DEF IndInv, TypeOK, Pointer, Answer
<1>9. WellFormed'
  <2>0. PICK q : q = [i \in 1..(count + 1) |-> IF i = count + 1 THEN n ELSE p[i]]
    OBVIOUS
  <2>1. q \in [1..count' -> live'] /\ q[count'] = n
    BY <1>1, <1>2, <2>0
  <2>2. \A i \in 1..count : q[i] = p[i] /\ p[i] \in live /\ p[i] # n
    BY <1>1, <1>2, <2>0
  <2>3. \A i \in 1..count : p[i] = last => i = count
    BY <1>2, <1>3, <1>4 DEF Chain, ListFrom
  <2>4. \A x \in live' : \E i \in 1..count' : q[i] = x
    BY <1>1, <1>2, <1>3, <2>1, <2>2 DEF Chain, ListFrom
  <2>5. \A i \in 1..count' : \A j \in 1..count' : q[i] = q[j] => i = j
    BY <1>2, <1>3, <2>1, <2>2 DEF Chain, ListFrom
  <2>6. \A i \in 1..count' :
           /\ cell'[q[i]].Next = IF i = count' THEN Null ELSE q[i+1]
           /\ i > 1 => cell'[q[i]].Pre = q[i-1]
           /\ cell'[q[i]].Data \in Event
    <3> SUFFICES ASSUME NEW i \in 1..count'
                 PROVE  /\ cell'[q[i]].Next = IF i = count' THEN Null ELSE q[i+1]
                        /\ i > 1 => cell'[q[i]].Pre = q[i-1]
                        /\ cell'[q[i]].Data \in Event
      OBVIOUS
    <3>1. CASE i = count'
      BY <3>1, <1>2, <1>4, <1>6, <2>1, <2>2 DEF NewNode
    <3>2. CASE i = count
      <4>1. q[i] = last /\ q[i+1] = n /\ (i > 1 => q[i-1] = p[i-1])
        BY <3>2, <1>2, <1>4, <2>1, <2>2
      <4>2. cell[last] \in Cell
        BY <1>4, <1>5
      <4>3. /\ cell'[last].Next = n /\ cell'[last].Pre = cell[last].Pre
            /\ cell'[last].Data = cell[last].Data
        BY <4>2, <1>6 DEF Cell
      <4>4. (count > 1 => cell[last].Pre = p[count-1]) /\ cell[last].Data \in Event
        BY <1>2, <1>3, <1>4 DEF Chain, ListFrom
      <4> QED
        BY <3>2, <4>1, <4>3, <4>4, <1>2
    <3>3. CASE i < count
      <4>1. p[i] # last /\ p[i] # n /\ p[i] \in Node
        BY <3>3, <1>2, <1>5, <2>2, <2>3
      <4>2. cell'[q[i]] = cell[p[i]]
        BY <4>1, <3>3, <1>2, <1>6, <2>2
      <4>0. i \in 1..count /\ i # count
        BY <3>3, <1>2
      <4>3. /\ cell[p[i]].Next = p[i+1] /\ (i > 1 => cell[p[i]].Pre = p[i-1])
            /\ cell[p[i]].Data \in Event
        BY <4>0, <1>3 DEF Chain, ListFrom
      <4>4. q[i+1] = p[i+1] /\ (i > 1 => q[i-1] = p[i-1])
        BY <3>3, <1>2, <2>2
      <4> QED
        BY <3>3, <1>2, <4>2, <4>3, <4>4
    <3> QED
      BY <3>1, <3>2, <3>3, <1>2
  <2>7. q[1] = first'
    BY <1>2, <1>4, <2>2
  <2>8. cell'[first'].Pre = Null
    <3>1. cell[first].Pre = Null /\ first \in live /\ first # n
      BY <1>1, <1>2, <1>3, <1>4 DEF Chain
    <3>2. cell[first] \in Cell
      BY <3>1, <1>5
    <3> QED
      BY <3>1, <3>2, <1>2, <1>5, <1>6 DEF Cell
  <2>9. Chain(q)'
    <3>1. ListFrom(q, count, first)'
      BY <2>4, <2>5, <2>6, <2>7 DEF ListFrom
    <3>2. q[count'] = last' /\ count' # 0
      BY <1>1, <1>2, <2>1
    <3> QED
      BY <3>1, <3>2, <2>8 DEF Chain
  <2> QED
    BY <2>1, <2>9 DEF WellFormed, Chain, ListFrom
<1>10. ClosingList' /\ DestroyedFreesAll'
  BY <1>2 DEF ClosingList, DestroyedFreesAll
<1> QED
  BY <1>8, <1>9, <1>10 DEF IndInv

(* Deleting the first node of a list leaves the list of the others. *)
LEMMA ListTail ==
  ASSUME NEW m \in Nat \ {0}, NEW p \in [1..m -> live], NEW h, ListFrom(p, m, h),
         live' = live \ {p[1]},
         \A i \in 2..m : /\ cell'[p[i]].Next = cell[p[i]].Next
                         /\ cell'[p[i]].Data = cell[p[i]].Data
                         /\ i > 2 => cell'[p[i]].Pre = cell[p[i]].Pre
  PROVE  \E q \in [1..(m-1) -> live'] :
            /\ q = [i \in 1..(m-1) |-> p[i+1]]
            /\ \A g : (m > 1 => g = p[2]) => ListFrom(q, m-1, g)'
<1>1. PICK q : q = [i \in 1..(m-1) |-> p[i+1]]
  OBVIOUS
<1>2. \A i \in 1..(m-1) : q[i] = p[i+1] /\ i+1 \in 2..m
  BY <1>1
<1>3. \A i \in 1..m : \A j \in 1..m : p[i] = p[j] => i = j
  BY DEF ListFrom
<1>4. q \in [1..(m-1) -> live']
  <2>1. \A i \in 2..m : p[i] \in live /\ p[i] # p[1]
    BY <1>3
  <2> QED
    BY <2>1, <1>1, <1>2
<1>5. \A n \in live' : \E i \in 1..(m-1) : q[i] = n
  <2> SUFFICES ASSUME NEW n \in live' PROVE \E i \in 1..(m-1) : q[i] = n
    OBVIOUS
  <2>1. PICK i \in 1..m : p[i] = n
    BY DEF ListFrom
  <2>2. i # 1 /\ i - 1 \in 1..(m-1) /\ i = (i - 1) + 1
    BY <2>1
  <2> QED
    BY <1>2, <2>1, <2>2
<1>6. \A i \in 1..(m-1) : \A j \in 1..(m-1) : q[i] = q[j] => i = j
  <2> SUFFICES ASSUME NEW i \in 1..(m-1), NEW j \in 1..(m-1), q[i] = q[j]
               PROVE  i = j
    OBVIOUS
  <2>1. i+1 \in 1..m /\ j+1 \in 1..m /\ p[i+1] = p[j+1]
    BY <1>2
  <2>2. i+1 = j+1
    BY <1>3, <2>1
  <2> QED
    BY <2>2
<1>7. \A i \in 1..(m-1) :
         /\ cell'[q[i]].Next = IF i = m-1 THEN Null ELSE q[i+1]
         /\ i > 1 => cell'[q[i]].Pre = q[i-1]
         /\ cell'[q[i]].Data \in Event
  <2> SUFFICES ASSUME NEW i \in 1..(m-1)
               PROVE  /\ cell'[q[i]].Next = IF i = m-1 THEN Null ELSE q[i+1]
                      /\ i > 1 => cell'[q[i]].Pre = q[i-1]
                      /\ cell'[q[i]].Data \in Event
    OBVIOUS
  <2>1. PICK j \in 2..m : j = i + 1
    BY <1>2
  <2>2. /\ cell[p[j]].Next = IF j = m THEN Null ELSE p[j+1]
        /\ cell[p[j]].Pre = p[j-1]
        /\ cell[p[j]].Data \in Event
    <3>1. j \in 1..m /\ j > 1
      OBVIOUS
    <3> QED
      BY <3>1 DEF ListFrom
  <2>3. q[i] = p[j] /\ (i # m-1 => q[i+1] = p[j+1]) /\ (i > 1 => q[i-1] = p[j-1])
    BY <1>1, <2>1
  <2>4. (i = m-1 <=> j = m) /\ (i > 1 => j > 2)
    BY <2>1
  <2> QED
    BY <2>2, <2>3, <2>4
<1>8. ASSUME NEW g, m > 1 => g = p[2] PROVE ListFrom(q, m-1, g)'
  <2>1. m-1 > 0 => q[1] = g
    BY <1>1, <1>8
  <2> QED
    BY <1>5, <1>6, <1>7, <2>1 DEF ListFrom
<1> QED
  BY <1>1, <1>4, <1>8

LEMMA DequeueInv ==
  ASSUME IndInv, Dequeue
  PROVE  IndInv'
<1> USE QueueAssumption
<1>1. /\ mode = "open" /\ mode' = "open" /\ tmp' = tmp /\ last' = last
      /\ count \in Nat \ {0} /\ count <= MaxCount /\ count' = count - 1
      /\ first' = cell[first].Next
      /\ live' = live \ {first}
      /\ cell' = [n \in Node |->
                    IF n = first THEN Blank
                    ELSE IF n = cell[first].Next THEN [cell[n] EXCEPT !.Pre = Null]
                    ELSE cell[n]]
      /\ reply' = Answer("Dequeue", TRUE, cell[first].Data)
  BY DEF Dequeue, IndInv, TypeOK
<1>2. PICK p \in [1..count -> live] : Chain(p)
  BY <1>1 DEF IndInv, WellFormed
<1>3. cell \in [Node -> Cell] /\ live \subseteq Node
  BY DEF IndInv, TypeOK
<1>4. /\ p[1] = first /\ p[count] = last /\ first \in live
      /\ \A i \in 1..count : p[i] \in Node /\ (p[i] = first <=> i = 1)
      /\ cell[first].Next = IF count = 1 THEN Null ELSE p[2]
      /\ cell[first].Data \in Event
  BY <1>1, <1>2, <1>3 DEF Chain, ListFrom
<1>5. TypeOK'
  <2>1. cell' \in [Node -> Cell]
    BY <1>1, <1>3 DEF Cell, Blank, Pointer
  <2>2. cell[first] \in Cell
    BY <1>3, <1>4
  <2>3. first' \in Pointer
    BY <1>1, <2>2 DEF Cell
  <2>4. reply' \in [op : {"none", "Enqueue", "Dequeue"}, ok : BOOLEAN,
                    event : Event \cup {Null}]
    BY <1>1, <1>4 DEF Answer
  <2>5. count' \in 0..MaxCount /\ live' \subseteq Node
    BY <1>1, <1>3
  <2> QED
    BY <1>1, <2>1, <2>3, <2>4, <2>5 DEF IndInv, TypeOK
<1>6. \A i \in 2..count : /\ cell'[p[i]].Next = cell[p[i]].Next
                          /\ cell'[p[i]].Data = cell[p[i]].Data
                          /\ i > 2 => cell'[p[i]].Pre = cell[p[i]].Pre
  <2> SUFFICES ASSUME NEW i \in 2..count
               PROVE  /\ cell'[p[i]].Next = cell[p[i]].Next
                      /\ cell'[p[i]].Data = cell[p[i]].Data
                      /\ i > 2 => cell'[p[i]].Pre = cell[p[i]].Pre
    OBVIOUS
  <2>1. p[i] \in Node /\ p[i] # first /\ cell[p[i]] \in Cell
    BY <1>3, <1>4
  <2>2. i > 2 => p[i] # cell[first].Next
    <3>1. i > 2 => p[i] # p[2]
      BY <1>1, <1>2 DEF Chain, ListFrom
    <3> QED
      BY <3>1, <1>1, <1>4
  <2> QED
    BY <1>1, <2>1, <2>2 DEF Cell
<1>7. PICK m \in Nat \ {0} : m = count
  BY <1>1
<1>8. PICK q \in [1..(m-1) -> live'] :
         /\ q = [i \in 1..(m-1) |-> p[i+1]]
         /\ \A g : (m > 1 => g = p[2]) => ListFrom(q, m-1, g)'
  <2>1. PICK h : h = first
    OBVIOUS
  <2>2. p \in [1..m -> live] /\ ListFrom(p, m, h)
    BY <1>2, <1>7, <2>1 DEF Chain
  <2>3. live' = live \ {p[1]}
    BY <1>1, <1>4
  <2> QED
    BY <1>6, <1>7, <2>2, <2>3, ListTail
<1>9. WellFormed'
  <2>1. PICK g : g = first'
    OBVIOUS
  <2>2. ListFrom(q, m-1, g)'
    BY <1>1, <1>4, <1>7, <1>8, <2>1
  <2>3. ListFrom(q, count, first)'
    <3>1. count' = m - 1 /\ first' = g
      BY <1>1, <1>7, <2>1
    <3>2. PICK k : k = m - 1
      OBVIOUS
    <3>3. ListFrom(q, k, g)'
      BY <2>2, <3>2
    <3> QED
      BY <3>1, <3>2, <3>3 DEF ListFrom
  <2>4. count' = 0 => first' = Null
    BY <1>1, <1>4
  <2>5. count' > 0 => q[count'] = last' /\ cell'[first'].Pre = Null
    <3>1. count' > 0 => q[count'] = p[count]
      BY <1>1, <1>7, <1>8
    <3>2. count' > 0 => /\ first' = p[2] /\ p[2] \in Node /\ p[2] # first
                        /\ cell[p[2]] \in Cell
      BY <1>1, <1>3, <1>4
    <3> QED
      BY <1>1, <1>4, <3>1, <3>2 DEF Cell
  <2>6. Chain(q)'
    BY <2>3, <2>4, <2>5 DEF Chain
  <2> QED
    BY <1>1, <1>7, <2>6 DEF WellFormed, Chain, ListFrom
<1>10. ClosingList' /\ DestroyedFreesAll'
  BY <1>1 DEF ClosingList, DestroyedFreesAll
<1> QED
  BY <1>5, <1>9, <1>10 DEF IndInv

LEMMA DestroyBeginInv ==
  ASSUME IndInv, DestroyBegin
  PROVE  IndInv'
<1> USE QueueAssumption
<1>1. PICK p \in [1..count -> live] : Chain(p)
  BY DEF IndInv, WellFormed, DestroyBegin
<1>2. count \in Nat /\ count <= MaxCount /\ live \subseteq Node
  BY DEF IndInv, TypeOK
<1>3. first = Null <=> count = 0
  BY <1>1, <1>2 DEF Chain, ListFrom
<1>4. TypeOK'
  BY DEF IndInv, TypeOK, DestroyBegin
<1>5. WellFormed'
  BY DEF WellFormed, DestroyBegin
<1>6. ClosingList'
  <2> SUFFICES ASSUME mode' = "closing"
               PROVE  \E m \in 1..MaxCount : \E q \in [1..m -> live'] :
                         ListFrom(q, m, tmp)'
    BY DEF ClosingList, ListFrom
  <2>1. count \in 1..MaxCount
    BY <1>2, <1>3 DEF DestroyBegin
  <2>2. ListFrom(p, count, tmp)'
    BY <1>1 DEF Chain, ListFrom, DestroyBegin
  <2>3. p \in [1..count -> live']
    BY DEF DestroyBegin
  <2>4. PICK m : m = count
    OBVIOUS
  <2>5. ListFrom(p, m, tmp)'
    BY <1>1, <2>4 DEF Chain, ListFrom, DestroyBegin
  <2> QED
    BY <2>1, <2>3, <2>4, <2>5
<1>7. DestroyedFreesAll'
  BY <1>1, <1>3 DEF Chain, ListFrom, DestroyBegin, DestroyedFreesAll
<1> QED
  BY <1>4, <1>5, <1>6, <1>7 DEF IndInv

LEMMA DestroyStepInv ==
  ASSUME IndInv, DestroyStep
  PROVE  IndInv'
<1> USE QueueAssumption
<1>1. PICK m \in 1..MaxCount : \E r \in [1..m -> live] : ListFrom(r, m, tmp)
  BY DEF IndInv, ClosingList, DestroyStep
<1>2. PICK p \in [1..m -> live] : ListFrom(p, m, tmp)
  BY <1>1
<1>3. cell \in [Node -> Cell] /\ live \subseteq Node /\ m \in Nat \ {0}
  BY DEF IndInv, TypeOK
<1>4. p[1] = tmp /\ m > 1 /\ cell[tmp].Next = p[2] /\ cell[p[2]].Pre = p[1]
  <2>1. p[1] = tmp /\ m # 1
    BY <1>2, <1>3 DEF ListFrom, DestroyStep
  <2>2. 1 \in 1..m /\ 2 \in 1..m /\ m # 1
    BY <2>1, <1>3
  <2> QED
    BY <1>2, <1>3, <2>1, <2>2 DEF ListFrom
<1>5. /\ mode = "closing" /\ mode' = "closing" /\ tmp' = p[2]
      /\ live' = live \ {p[1]} /\ cell' = [cell EXCEPT ![p[1]] = Blank]
      /\ first' = first /\ last' = last /\ count' = count /\ reply' = reply
  BY <1>4 DEF DestroyStep
<1>6. p[1] \in live /\ p[2] \in live
  BY <1>4, <1>3
<1>7. TypeOK'
  <2>1. cell' \in [Node -> Cell]
    BY <1>3, <1>5 DEF Cell, Blank, Pointer
  <2>2. tmp' \in Pointer
    BY <1>3, <1>5, <1>6 DEF Pointer
  <2> QED
    BY <1>3, <1>5, <2>1, <2>2 DEF IndInv, TypeOK
<1>8. ClosingList'
  <2>1. \A i \in 2..m : /\ cell'[p[i]].Next = cell[p[i]].Next
                        /\ cell'[p[i]].Data = cell[p[i]].Data
                        /\ i > 2 => cell'[p[i]].Pre = cell[p[i]].Pre
    <3>1. \A i \in 2..m : p[i] \in Node /\ p[i] # p[1]
      BY <1>2, <1>3 DEF ListFrom
    <3> QED
      BY <1>3, <1>5, <3>1
  <2>2. PICK h : h = tmp
    OBVIOUS
  <2>3. PICK q \in [1..(m-1) -> live'] :
           /\ q = [i \in 1..(m-1) |-> p[i+1]]
           /\ \A g : (m > 1 => g = p[2]) => ListFrom(q, m-1, g)'
    <3>1. ListFrom(p, m, h)
      BY <1>2, <2>2
    <3> QED
      BY <1>3, <1>5, <2>1, <3>1, ListTail
  <2>4. PICK k : k = m - 1
    OBVIOUS
  <2>5. ListFrom(q, k, p[2])'
    BY <2>3, <2>4
  <2>6. ListFrom(q, k, tmp)'
    BY <1>5, <2>5 DEF ListFrom
  <2>7. k \in 1..MaxCount /\ q \in [1..k -> live']
    BY <1>3, <1>4, <2>3, <2>4
  <2> QED
    BY <2>6, <2>7 DEF ClosingList, ListFrom
<1>9. WellFormed' /\ DestroyedFreesAll'
  BY <1>5 DEF WellFormed, DestroyedFreesAll
<1> QED
  BY <1>7, <1>8, <1>9 DEF IndInv

LEMMA DestroyLastInv ==
  ASSUME IndInv, DestroyLast
  PROVE  IndInv'
<1> USE QueueAssumption
<1>1. PICK m \in 1..MaxCount : \E r \in [1..m -> live] : ListFrom(r, m, tmp)
  BY DEF IndInv, ClosingList, DestroyLast
<1>2. PICK p \in [1..m -> live] : ListFrom(p, m, tmp)
  BY <1>1
<1>3. /\ mode' = "gone" /\ live' = live \ {tmp} /\ cell[tmp].Next = Null
      /\ cell' = [cell EXCEPT ![tmp] = Blank] /\ tmp' = tmp
      /\ first' = first /\ last' = last /\ count' = count /\ reply' = reply
  BY DEF DestroyLast
<1>4. cell \in [Node -> Cell] /\ live \subseteq Node /\ m \in Nat \ {0}
  BY DEF IndInv, TypeOK
<1>5. p[1] = tmp /\ tmp \in live
  BY <1>2, <1>4 DEF ListFrom
<1>6. m = 1
  <2>1. m > 1 => p[2] \in live /\ cell[p[1]].Next = p[2]
    BY <1>2, <1>4 DEF ListFrom
  <2> QED
    BY <1>3, <1>4, <1>5, <2>1
<1>7. live = {tmp}
  BY <1>2, <1>5, <1>6 DEF ListFrom
<1>8. TypeOK'
  <2>1. cell' \in [Node -> Cell]
    BY <1>3, <1>4 DEF Cell, Blank, Pointer
  <2> QED
    BY <1>3, <1>4, <2>1 DEF IndInv, TypeOK
<1>9. WellFormed' /\ ClosingList' /\ DestroyedFreesAll'
  BY <1>3, <1>7 DEF WellFormed, ClosingList, DestroyedFreesAll
<1> QED
  BY <1>8, <1>9 DEF IndInv

(* The calls that change nothing but their answer. *)
LEMMA QuietInv ==
  ASSUME IndInv,
         (\E e \in Event : EnqueueFull(e)) \/ DequeueEmpty \/ UNCHANGED queueVars
  PROVE  IndInv'
<1>1. /\ UNCHANGED <<cell, live, first, last, count, mode, tmp>>
      /\ reply' \in [op : {"none", "Enqueue", "Dequeue"}, ok : BOOLEAN,
                     event : Event \cup {Null}]
  <2>1. CASE \E e \in Event : EnqueueFull(e)
    BY <2>1 DEF EnqueueFull, Answer
  <2>2. CASE DequeueEmpty
    BY <2>2 DEF DequeueEmpty, Answer
  <2>3. CASE UNCHANGED queueVars
    BY <2>3 DEF queueVars, IndInv, TypeOK
  <2> QED
    BY <2>1, <2>2, <2>3
<1>2. TypeOK'
  BY <1>1 DEF IndInv, TypeOK
<1>3. WellFormed'
  BY <1>1 DEF IndInv, WellFormed, Chain, ListFrom
<1>4. ClosingList'
  <2> SUFFICES ASSUME mode = "closing"
               PROVE  \E m \in 1..MaxCount : \E p \in [1..m -> live'] :
                         ListFrom(p, m, tmp)'
    BY <1>1 DEF ClosingList, ListFrom
  <2>1. PICK m \in 1..MaxCount : \E r \in [1..m -> live] : ListFrom(r, m, tmp)
    BY DEF IndInv, ClosingList
  <2>2. PICK p \in [1..m -> live] : ListFrom(p, m, tmp)
    BY <2>1
  <2>3. p \in [1..m -> live'] /\ ListFrom(p, m, tmp)'
    BY <1>1, <2>2 DEF ListFrom
  <2> QED
    BY <2>3
<1>5. DestroyedFreesAll'
  BY <1>1 DEF IndInv, DestroyedFreesAll
<1> QED
  BY <1>2, <1>3, <1>4, <1>5 DEF IndInv

(* IndInv is inductive: the invariant behind every theorem below. *)
LEMMA NextIndInv == IndInv /\ [Next]_queueVars => IndInv'
  BY EnqueueFirstInv, EnqueueNextInv, DequeueInv, DestroyBeginInv,
     DestroyStepInv, DestroyLastInv, QuietInv DEF Next

LEMMA SpecIndInv == Spec => []IndInv
  BY InitIndInv, NextIndInv, PTL DEF Spec

(* The fields and nodes always have their types: in particular _count stays *)
(* between 0 and the capacity.                                              *)
THEOREM TypeCorrect == Spec => []TypeOK
<1>1. IndInv => TypeOK
  BY DEF IndInv
<1> QED
  BY <1>1, SpecIndInv, PTL

(* After every sequence of Enqueue and Dequeue calls, through any reuse of  *)
(* addresses, the list is whole and accounts for every allocated node.      *)
THEOREM ListIsWhole == Spec => []WellFormed
<1>1. IndInv => WellFormed
  BY DEF IndInv
<1> QED
  BY <1>1, SpecIndInv, PTL

(* The destructor follows and deletes only allocated nodes. *)
THEOREM DestructorIsSafe == Spec => []DestroyTouchesLiveNodes
<1>1. IndInv => DestroyTouchesLiveNodes
  <2> SUFFICES ASSUME IndInv, mode = "closing"
               PROVE  /\ tmp \in live
                      /\ cell[tmp].Next # Null =>
                            /\ cell[tmp].Next \in live
                            /\ cell[cell[tmp].Next].Pre \in live
    BY DEF DestroyTouchesLiveNodes
  <2> USE QueueAssumption
  <2>1. PICK m \in 1..MaxCount : \E r \in [1..m -> live] : ListFrom(r, m, tmp)
    BY DEF IndInv, ClosingList
  <2>2. PICK p \in [1..m -> live] : ListFrom(p, m, tmp)
    BY <2>1
  <2>3. p[1] = tmp /\ tmp \in live
    BY <2>2 DEF ListFrom
  <2>4. m > 1 => /\ cell[tmp].Next = p[2] /\ p[2] \in live
                 /\ cell[p[2]].Pre = p[1]
    BY <2>2, <2>3 DEF ListFrom
  <2>5. m = 1 => cell[tmp].Next = Null
    BY <2>2, <2>3 DEF ListFrom
  <2> QED
    BY <2>3, <2>4, <2>5
<1> QED
  BY <1>1, SpecIndInv, PTL

(* The destructor deletes every node that was still queued. *)
THEOREM DestructorFreesAll == Spec => []DestroyedFreesAll
<1>1. IndInv => DestroyedFreesAll
  BY DEF IndInv
<1> QED
  BY <1>1, SpecIndInv, PTL

-----------------------------------------------------------------------------
(* The list read in order is a first-in first-out queue.                    *)

(* Induction over the natural numbers for a set: if it fails at u, sending  *)
(* each number up to u that fails to the one before it, which fails too,    *)
(* puts a finite set one to one into a smaller one.                         *)
LEMMA Induction ==
  ASSUME NEW S, 0 \in S, \A n \in Nat : n \in S => n + 1 \in S
  PROVE  Nat \subseteq S
<1> SUFFICES ASSUME NEW u \in Nat, u \notin S PROVE FALSE
  OBVIOUS
<1> DEFINE W == {i \in 0..u : i \notin S}
           f == [i \in W |-> i - 1]
<1>1. IsFiniteSet(W) /\ u \in W
  <2>1. IsFiniteSet(0..u)
    BY FS_Interval
  <2> QED
    BY <2>1, FS_Subset
<1>2. IsFiniteSet(W \ {u}) /\ Cardinality(W \ {u}) < Cardinality(W)
  <2> HIDE DEF W
  <2>1. IsFiniteSet(W \ {u}) /\ Cardinality(W \ {u}) = Cardinality(W) - 1
    BY <1>1, FS_RemoveElement
  <2>2. Cardinality(W) \in Nat
    BY <1>1, FS_CardinalityType
  <2> QED
    BY <2>1, <2>2
<1>3. f \in [W -> W \ {u}]
  <2> SUFFICES ASSUME NEW i \in W PROVE i - 1 \in W \ {u}
    OBVIOUS
  <2>1. i # 0 /\ i - 1 \in Nat
    OBVIOUS
  <2>2. i - 1 \notin S
    BY <2>1
  <2> QED
    BY <2>1, <2>2
<1>4. PICK x \in W, y \in W : x # y /\ f[x] = f[y]
  <2> HIDE DEF W, f
  <2> QED
    BY <1>1, <1>2, <1>3, FS_PigeonHole
<1> QED
  BY <1>4

(* Pointers c that lead from h through p lead through no other nodes. *)
Leads(c, h, p, m) ==
    /\ m > 0 => p[1] = h
    /\ \A i \in 1..m : c[p[i]].Next = IF i = m THEN Null ELSE p[i+1]

LEMMA OneWay ==
  ASSUME NEW m \in Nat, NEW L, NEW c, NEW h,
         NEW p \in [1..m -> L], Leads(c, h, p, m),
         NEW q \in [1..m -> L], Leads(c, h, q, m)
  PROVE  p = q
<1> DEFINE S == {i \in Nat : i \in 1..m => p[i] = q[i]}
<1>1. 0 \in S
  OBVIOUS
<1>2. ASSUME NEW n \in Nat, n \in S PROVE n + 1 \in S
  <2> SUFFICES ASSUME n + 1 \in 1..m PROVE p[n+1] = q[n+1]
    OBVIOUS
  <2>1. CASE n = 0
    BY <2>1 DEF Leads
  <2>2. CASE n # 0
    <3>1. n \in 1..m /\ n # m /\ p[n] = q[n]
      BY <1>2, <2>2
    <3> QED
      BY <3>1 DEF Leads
  <2> QED
    BY <2>1, <2>2
<1>3. Nat \subseteq S
  <2> HIDE DEF S
  <2> QED
    BY <1>1, <1>2, Induction
<1>4. \A i \in 1..m : p[i] = q[i]
  BY <1>3
<1> QED
  BY <1>4

LEMMA ChainLeads ==
  /\ \A p : Chain(p) => Leads(cell, first, p, count)
  /\ \A p : Chain(p)' => Leads(cell', first', p, count')
BY DEF Chain, ListFrom, Leads

Read(c, p, m) == [i \in 1..m |-> c[p[i]].Data]

(* Whichever way the list is read, it holds the same events. *)
LEMMA ContentsNow ==
  ASSUME IndInv, mode = "open", NEW p \in [1..count -> live], Leads(cell, first, p, count)
  PROVE  Contents = Read(cell, p, count) /\ Contents \in [1..count -> Event]
<1>1. PICK q \in [1..count -> live] : Chain(q)
  BY DEF IndInv, WellFormed
<1>2. Path \in [1..count -> live] /\ Chain(Path)
  BY <1>1 DEF Path
<1>3. count \in Nat
  BY QueueAssumption DEF IndInv, TypeOK
<1>4. Path = p
  BY <1>2, <1>3, ChainLeads, OneWay
<1>5. \A i \in 1..count : cell[p[i]].Data \in Event
  BY <1>2, <1>4 DEF Chain, ListFrom
<1> QED
  BY <1>4, <1>5 DEF Contents, Read

LEMMA ContentsNext ==
  ASSUME IndInv', mode' = "open", NEW p \in [1..count' -> live'],
         Leads(cell', first', p, count')
  PROVE  Contents' = Read(cell', p, count') /\ Contents' \in [1..count' -> Event]
<1>1. PICK q \in [1..count' -> live'] : Chain(q)'
  BY DEF IndInv, WellFormed
<1>2. Path' \in [1..count' -> live'] /\ Chain(Path)'
  BY <1>1 DEF Path
<1>3. count' \in Nat
  BY QueueAssumption DEF IndInv, TypeOK
<1>4. Path' = p
  BY <1>2, <1>3, ChainLeads, OneWay
<1>5. \A i \in 1..count' : cell'[p[i]].Data \in Event
  BY <1>2, <1>4 DEF Chain, ListFrom
<1> QED
  BY <1>4, <1>5 DEF Contents, Read

LEMMA FunctionIsSequence ==
  ASSUME NEW m \in Nat, NEW s \in [1..m -> Event]
  PROVE  s \in Seq(Event) /\ Len(s) = m
OBVIOUS

(* The contents are a sequence of _count events. *)
LEMMA ContentsSize ==
  ASSUME IndInv, mode = "open"
  PROVE  /\ Contents \in Seq(Event) /\ Len(Contents) = count
         /\ count \in Nat /\ (Contents = <<>> <=> count = 0)
<1>1. PICK p \in [1..count -> live] : Chain(p)
  BY DEF IndInv, WellFormed
<1>2. Contents \in [1..count -> Event] /\ count \in Nat
  BY <1>1, ChainLeads, ContentsNow, QueueAssumption DEF IndInv, TypeOK
<1>3. Contents \in Seq(Event) /\ Len(Contents) = count
  BY <1>2, FunctionIsSequence
<1> QED
  BY <1>2, <1>3, EmptySeq

(* Enqueue appends: the new node is the one after _last. *)
LEMMA EnqueuePuts ==
  ASSUME IndInv, NEW e \in Event, EnqueueFirst(e) \/ EnqueueNext(e)
  PROVE  Fifo!Put(e)
<1> USE QueueAssumption
<1>1. /\ mode = "open" /\ mode' = "open" /\ count < MaxCount /\ count' = count + 1
      /\ reply' = Answer("Enqueue", TRUE, e)
  BY DEF EnqueueFirst, EnqueueNext, Room
<1>2. IndInv'
  BY EnqueueFirstInv, EnqueueNextInv
<1>3. PICK p \in [1..count -> live] : Chain(p)
  BY <1>1 DEF IndInv, WellFormed
<1>4. cell \in [Node -> Cell] /\ live \subseteq Node /\ count \in Nat
  BY DEF IndInv, TypeOK
<1>5. PICK n \in Node \ live :
         /\ live' = live \cup {n}
         /\ cell'[n].Data = e /\ cell'[n].Next = Null
         /\ \A x \in live : /\ cell'[x].Data = cell[x].Data
                            /\ cell'[x].Next = IF x = last /\ count # 0 THEN n ELSE cell[x].Next
         /\ first' = IF count = 0 THEN n ELSE first
  <2>1. CASE EnqueueFirst(e)
    <3>1. PICK n \in Node \ live : /\ live' = live \cup {n}
                                   /\ cell' = [cell EXCEPT ![n] = NewNode(e, Null)]
                                   /\ first' = n /\ count = 0
      BY <2>1 DEF EnqueueFirst
    <3>2. cell'[n] = NewNode(e, Null) /\ \A x \in live : cell'[x] = cell[x]
      BY <1>4, <3>1
    <3> QED
      BY <3>1, <3>2 DEF NewNode
  <2>2. CASE EnqueueNext(e)
    <3>1. PICK n \in Node \ live :
             /\ live' = live \cup {n}
             /\ cell' = [cell EXCEPT ![n] = NewNode(e, last), ![last].Next = n]
             /\ first' = first /\ count # 0
      BY <2>2 DEF EnqueueNext
    <3>2. last \in live
      BY <1>3, <1>4, <3>1 DEF Chain
    <3>3. /\ cell'[n] = NewNode(e, last)
          /\ \A x \in live : cell'[x] = IF x = last THEN [cell[x] EXCEPT !.Next = n]
                                        ELSE cell[x]
      BY <1>4, <3>1, <3>2
    <3>4. \A x \in live : cell[x] \in Cell
      BY <1>4
    <3>5. ASSUME NEW x \in live
          PROVE  /\ cell'[x].Data = cell[x].Data
                 /\ cell'[x].Next = IF x = last /\ count # 0 THEN n ELSE cell[x].Next
      <4>1. PICK r \in Cell : r = cell[x]
        BY <3>4
      <4>2. CASE x = last
        <5>1. cell'[x] = [r EXCEPT !.Next = n]
          BY <3>3, <4>1, <4>2
        <5>2. cell'[x].Data = r.Data /\ cell'[x].Next = n
          BY <5>1 DEF Cell
        <5> QED
          BY <3>1, <4>1, <4>2, <5>2
      <4>3. CASE x # last
        BY <3>3, <4>3
      <4> QED
        BY <4>2, <4>3
    <3>6. cell'[n].Data = e /\ cell'[n].Next = Null
      BY <3>3 DEF NewNode
    <3> QED
      BY <3>1, <3>5, <3>6
  <2> QED
    BY <2>1, <2>2
<1>6. PICK q : q = [i \in 1..(count+1) |-> IF i = count + 1 THEN n ELSE p[i]]
  OBVIOUS
<1>7. q \in [1..count' -> live'] /\ \A i \in 1..count : q[i] = p[i]
  BY <1>1, <1>4, <1>5, <1>6
<1>8. Leads(cell', first', q, count')
  <2>1. count' > 0 => q[1] = first'
    BY <1>1, <1>3, <1>4, <1>5, <1>6 DEF Chain, ListFrom
  <2>2. ASSUME NEW i \in 1..count'
        PROVE  cell'[q[i]].Next = IF i = count' THEN Null ELSE q[i+1]
    <3>1. CASE i = count + 1
      BY <1>1, <1>5, <1>6, <3>1
    <3>2. CASE i # count + 1
      <4>1. i \in 1..count /\ q[i] = p[i] /\ p[i] \in live /\ count # 0
        BY <1>1, <1>4, <1>7, <3>2
      <4>2. p[i] = last <=> i = count
        <5>1. count \in 1..count /\ p[count] = last
          BY <1>3, <1>4, <4>1 DEF Chain
        <5> QED
          BY <1>3, <4>1, <5>1 DEF Chain, ListFrom
      <4>3. cell[p[i]].Next = IF i = count THEN Null ELSE p[i+1]
        BY <1>3, <4>1 DEF Chain, ListFrom
      <4>4. q[i+1] = IF i = count THEN n ELSE p[i+1]
        BY <1>4, <1>6, <4>1
      <4> QED
        BY <1>1, <1>4, <1>5, <4>1, <4>2, <4>3, <4>4
    <3> QED
      BY <3>1, <3>2
  <2> QED
    BY <2>1, <2>2 DEF Leads
<1>9. Contents' = Read(cell', q, count') /\ Contents' \in [1..count' -> Event]
  BY <1>1, <1>2, <1>7, <1>8, ContentsNext
<1>10. Contents = Read(cell, p, count)
  BY <1>1, <1>3, ChainLeads, ContentsNow
<1>11. Contents \in Seq(Event) /\ Len(Contents) = count
  BY <1>1, ContentsSize
<1>12. Contents' \in Seq(Event) /\ Len(Contents') = count + 1
  BY <1>1, <1>4, <1>9, FunctionIsSequence
<1>13. \A i \in 1..(count+1) :
          Contents'[i] = IF i = count + 1 THEN e ELSE Contents[i]
  <2>1. \A i \in 1..(count+1) : Contents'[i] = cell'[q[i]].Data
    BY <1>1, <1>9 DEF Read
  <2>2. \A i \in 1..count : Contents[i] = cell[p[i]].Data /\ p[i] \in live
    BY <1>10 DEF Read
  <2>3. q[count+1] = n
    BY <1>4, <1>6
  <2>4. \A i \in 1..(count+1) : i = count + 1 \/ i \in 1..count
    BY <1>4
  <2> QED
    BY <1>5, <1>7, <2>1, <2>2, <2>3, <2>4
<1>14. Contents' = Append(Contents, e)
  <2>1. /\ Append(Contents, e) \in Seq(Event)
        /\ Len(Append(Contents, e)) = count + 1
        /\ \A i \in 1..count : Append(Contents, e)[i] = Contents[i]
        /\ Append(Contents, e)[count + 1] = e
    BY <1>11, AppendProperties
  <2>2. \A i \in 1..(count+1) : Contents'[i] = Append(Contents, e)[i]
    BY <1>4, <1>13, <2>1
  <2> QED
    BY <1>12, <2>1, <2>2, SeqEqual
<1> QED
  BY <1>1, <1>11, <1>14 DEF Fifo!Put, Answer

(* Dequeue takes the event of _first: the list goes on from its Next. *)
LEMMA DequeueTakes ==
  ASSUME IndInv, Dequeue
  PROVE  Fifo!Take
<1> USE QueueAssumption
<1>1. /\ mode = "open" /\ mode' = "open" /\ count # 0 /\ count' = count - 1
      /\ reply' = Answer("Dequeue", TRUE, cell[first].Data)
      /\ live' = live \ {first} /\ first' = cell[first].Next
      /\ cell' = [n \in Node |->
                    IF n = first THEN Blank
                    ELSE IF n = cell[first].Next THEN [cell[n] EXCEPT !.Pre = Null]
                    ELSE cell[n]]
  BY DEF Dequeue, IndInv, TypeOK
<1>2. IndInv'
  BY DequeueInv
<1>3. PICK p \in [1..count -> live] : Chain(p)
  BY <1>1 DEF IndInv, WellFormed
<1>4. cell \in [Node -> Cell] /\ live \subseteq Node /\ count \in Nat
  BY DEF IndInv, TypeOK
<1>5. /\ p[1] = first
      /\ \A i \in 1..count : /\ p[i] \in live /\ (p[i] = first <=> i = 1)
                             /\ cell[p[i]].Next = IF i = count THEN Null ELSE p[i+1]
  BY <1>1, <1>3, <1>4 DEF Chain, ListFrom
<1>6. \A x \in live \ {first} : /\ cell'[x].Next = cell[x].Next
                                /\ cell'[x].Data = cell[x].Data
  <2>1. \A x \in live : x \in Node /\ cell[x] \in Cell
    BY <1>4
  <2> QED
    BY <1>1, <2>1 DEF Cell
<1>7. PICK q : q = [i \in 1..(count-1) |-> p[i+1]]
  OBVIOUS
<1>8. /\ q \in [1..count' -> live']
      /\ \A i \in 1..(count-1) : q[i] = p[i+1] /\ i+1 \in 1..count
                                 /\ p[i+1] \in live \ {first}
  <2>1. \A i \in 1..(count-1) : i+1 \in 1..count /\ i+1 # 1
    BY <1>4
  <2> QED
    BY <1>1, <1>5, <1>7, <2>1
<1>9. Leads(cell', first', q, count')
  <2>1. count' > 0 => q[1] = first'
    BY <1>1, <1>4, <1>5, <1>7
  <2>2. ASSUME NEW i \in 1..count'
        PROVE  cell'[q[i]].Next = IF i = count' THEN Null ELSE q[i+1]
    <3>1. /\ i \in 1..(count-1) /\ i + 1 \in 1..count
          /\ q[i] = p[i+1] /\ p[i+1] \in live \ {first}
      BY <1>1, <1>8
    <3>2. cell'[q[i]].Next = IF i + 1 = count THEN Null ELSE p[i+1+1]
      BY <1>5, <1>6, <3>1
    <3>3. i + 1 # count => q[i+1] = p[i+1+1]
      BY <1>4, <1>7, <3>1
    <3>4. i = count' <=> i + 1 = count
      BY <1>1, <1>4, <3>1
    <3> QED
      BY <3>2, <3>3, <3>4
  <2> QED
    BY <2>1, <2>2 DEF Leads
<1>10. Contents' = Read(cell', q, count') /\ Contents' \in [1..count' -> Event]
  BY <1>1, <1>2, <1>8, <1>9, ContentsNext
<1>11. Contents = Read(cell, p, count)
  BY <1>1, <1>3, ChainLeads, ContentsNow
<1>12. Contents \in Seq(Event) /\ Len(Contents) = count /\ Contents # <<>>
  BY <1>1, ContentsSize
<1>13. Contents' \in Seq(Event) /\ Len(Contents') = count - 1
  <2>1. count' \in Nat
    BY <1>1, <1>4
  <2> QED
    BY <1>1, <1>10, <2>1, FunctionIsSequence
<1>14. \A i \in 1..(count-1) : Contents'[i] = Contents[i+1]
  <2>1. \A i \in 1..(count-1) : Contents'[i] = cell'[q[i]].Data
    BY <1>1, <1>10 DEF Read
  <2>2. \A i \in 1..count : Contents[i] = cell[p[i]].Data
    BY <1>11 DEF Read
  <2> QED
    BY <1>6, <1>8, <2>1, <2>2
<1>15. Contents' = Tail(Contents)
  <2>1. /\ Tail(Contents) \in Seq(Event) /\ Len(Tail(Contents)) = count - 1
        /\ \A i \in 1..(count-1) : Tail(Contents)[i] = Contents[i+1]
    BY <1>12, HeadTailProperties
  <2>2. \A i \in 1..(count-1) : Contents'[i] = Tail(Contents)[i]
    BY <1>14, <2>1
  <2> QED
    BY <1>13, <2>1, <2>2, SeqEqual
<1>16. Head(Contents) = cell[first].Data
  <2>1. 1 \in 1..count
    BY <1>1, <1>4
  <2>2. Contents[1] = cell[first].Data
    BY <1>5, <1>11, <2>1 DEF Read
  <2> QED
    BY <1>12, <2>2
<1> QED
  BY <1>1, <1>12, <1>15, <1>16 DEF Fifo!Take, Answer

(* Any other step answers and leaves the contents, or begins the destructor *)
(* and drops them, or happens inside it.                                    *)
LEMMA OtherSteps ==
  ASSUME IndInv,
         \/ \E e \in Event : EnqueueFull(e)
         \/ DequeueEmpty \/ DestroyBegin \/ DestroyStep \/ DestroyLast
         \/ UNCHANGED queueVars
  PROVE  [Fifo!FifoNext]_Fifo!fifoVars
<1>1. ASSUME UNCHANGED <<cell, live, first, last, count, mode>> PROVE Contents' = Contents
  BY <1>1 DEF Contents, Path, Chain, ListFrom
<1>2. CASE \E e \in Event : EnqueueFull(e)
  <2>1. PICK e \in Event : EnqueueFull(e)
    BY <1>2
  <2>2. /\ mode = "open" /\ mode' = "open" /\ ~(count < MaxCount)
        /\ reply' = Answer("Enqueue", FALSE, e) /\ Contents' = Contents
    BY <1>1, <2>1 DEF EnqueueFull, Room
  <2>3. Len(Contents) >= MaxCount
    BY <2>2, ContentsSize, QueueAssumption
  <2>4. Fifo!Refuse(e)
    BY <2>2, <2>3 DEF Fifo!Refuse, Answer
  <2> QED
    BY <2>4 DEF Fifo!FifoNext
<1>3. CASE DequeueEmpty
  <2>1. /\ mode = "open" /\ mode' = "open" /\ count <= 0
        /\ reply' = Answer("Dequeue", FALSE, Null) /\ Contents' = Contents
    BY <1>1, <1>3 DEF DequeueEmpty
  <2>2. Contents = <<>>
    BY <2>1, ContentsSize
  <2>3. Fifo!TakeNothing
    BY <2>1, <2>2 DEF Fifo!TakeNothing, Answer
  <2> QED
    BY <2>3 DEF Fifo!FifoNext
<1>4. CASE DestroyBegin
  <2>1. mode = "open" /\ mode' # "open" /\ reply' = reply
    BY <1>4 DEF DestroyBegin
  <2>2. Contents' = <<>>
    BY <2>1 DEF Contents
  <2>3. Fifo!Close
    BY <2>1, <2>2 DEF Fifo!Close
  <2> QED
    BY <2>3 DEF Fifo!FifoNext
<1>5. CASE DestroyStep \/ DestroyLast
  <2>1. mode # "open" /\ mode' # "open" /\ reply' = reply
    BY <1>5 DEF DestroyStep, DestroyLast
  <2> QED
    BY <2>1 DEF Contents, Fifo!fifoVars
<1>6. CASE UNCHANGED queueVars
  <2>1. UNCHANGED <<cell, live, first, last, count, mode, reply>>
    BY <1>6 DEF queueVars
  <2> QED
    BY <1>1, <2>1 DEF Fifo!fifoVars
<1> QED
  BY <1>2, <1>3, <1>4, <1>5, <1>6

LEMMA StepImplements == IndInv /\ [Next]_queueVars => [Fifo!FifoNext]_Fifo!fifoVars
BY EnqueuePuts, DequeueTakes, OtherSteps DEF Next, Fifo!FifoNext

LEMMA InitImplements == Init => Fifo!FifoInit
<1> SUFFICES ASSUME Init PROVE Fifo!FifoInit
  OBVIOUS
<1>1. count = 0 /\ mode = "open" /\ reply = Answer("none", TRUE, Null)
  BY DEF Init
<1>2. Contents = <<>>
  BY <1>1, InitIndInv, ContentsSize
<1> QED
  BY <1>1, <1>2 DEF Fifo!FifoInit, Answer

(* Whatever addresses the nodes get, the list of nodes is a bounded         *)
(* first-in first-out queue: events leave in the order they entered, none   *)
(* twice, none lost, and Enqueue refuses exactly when MaxCount are waiting. *)
THEOREM QueueIsFifo == Spec => ImplementsFifo
<1>1. Spec => [][Fifo!FifoNext]_Fifo!fifoVars
  BY SpecIndInv, StepImplements, PTL DEF Spec
<1> QED
  BY <1>1, InitImplements, PTL DEF Spec, ImplementsFifo, Fifo!FifoSpec
=============================================================================
