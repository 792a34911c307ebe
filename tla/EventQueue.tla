----------------------------- MODULE EventQueue -----------------------------
(* EventQueue_180 (clientbase/eventqueue.cpp): the doubly linked list that  *)
(* carries received frames from the receiving thread to the executing       *)
(* thread of a client.  Every method holds the mutex _obj from its first    *)
(* line to its return, so one call is one step; the destructor holds it for *)
(* its whole loop, which is modelled iteration by iteration because each    *)
(* iteration follows pointers of nodes that earlier ones deleted.           *)
EXTENDS Naturals, FiniteSets

CONSTANTS Event,      \* ReceivedData values
          MaxCount,   \* _maxcount, MAX_EVENTS_IN_QUEUE in the server
          Node,       \* addresses "new DataNode" may return
          Null        \* the null pointer

ASSUME QueueAssumption == /\ MaxCount \in Nat
                          /\ Null \notin Node
                          /\ Null \notin Event

VARIABLES cell,    \* the memory of each DataNode: _data, Next, Pre
          live,    \* the nodes allocated and not yet deleted
          first, last, count,   \* _first, _last, _count
          mode,    \* "open"; "closing": inside the destructor; "gone"
          tmp,     \* the destructor's cursor
          reply    \* the answer of the last call

queueVars == <<cell, live, first, last, count, mode, tmp, reply>>

Pointer == Node \cup {Null}
Blank   == [Data |-> Null, Next |-> Null, Pre |-> Null]
Cell    == [Data : Event \cup {Null}, Next : Pointer, Pre : Pointer]

(* Bug seeded for the runs: the new node forgets the node before it. *)
NewNodeNoPre(e, pre) == [Data |-> e, Next |-> Null, Pre |-> Null]

(* DataNode's constructor: a copy of the caller's data and both links. *)
NewNode(e, pre) == [Data |-> e, Next |-> Null, Pre |-> pre]

Answer(op, ok, e) == [op |-> op, ok |-> ok, event |-> e]

Init == /\ cell = [n \in Node |-> Blank]
        /\ live = {}
        /\ first = Null /\ last = Null /\ count = 0
        /\ mode = "open" /\ tmp = Null
        /\ reply = Answer("none", TRUE, Null)

-----------------------------------------------------------------------------
(* _count >= _maxcount is false. *)
Room == count < MaxCount

(* Bug seeded for the runs: a queue with one free place refuses. *)
EnqueueFullEarly(e) ==
    /\ mode = "open"
    /\ count + 1 >= MaxCount
    /\ reply' = Answer("Enqueue", FALSE, e)
    /\ UNCHANGED <<cell, live, first, last, count, mode, tmp>>

EnqueueFull(e) ==
    /\ mode = "open"
    /\ ~Room
    /\ reply' = Answer("Enqueue", FALSE, e)
    /\ UNCHANGED <<cell, live, first, last, count, mode, tmp>>

(* _count == 0: the stale _last of a drained queue is overwritten unread. *)
EnqueueFirst(e) ==
    /\ mode = "open"
    /\ Room
    /\ count = 0
    /\ \E n \in Node \ live :
          /\ live' = live \cup {n}
          /\ cell' = [cell EXCEPT ![n] = NewNode(e, Null)]
          /\ first' = n
          /\ last' = n
    /\ count' = count + 1
    /\ reply' = Answer("Enqueue", TRUE, e)
    /\ UNCHANGED <<mode, tmp>>

EnqueueNext(e) ==
    /\ mode = "open"
    /\ Room
    /\ count # 0
    /\ \E n \in Node \ live :
          /\ live' = live \cup {n}
          /\ cell' = [cell EXCEPT ![n] = NewNode(e, last), ![last].Next = n]
          /\ last' = n
    /\ count' = count + 1
    /\ reply' = Answer("Enqueue", TRUE, e)
    /\ UNCHANGED <<first, mode, tmp>>

DequeueEmpty ==
    /\ mode = "open"
    /\ count <= 0
    /\ reply' = Answer("Dequeue", FALSE, Null)
    /\ UNCHANGED <<cell, live, first, last, count, mode, tmp>>

(* The data is copied out, _first moves on, its Pre is cut and the node is  *)
(* deleted (its memory becomes Blank); _last is left as it was.             *)
Dequeue ==
    LET old == first
        new == cell[old].Next
    IN  /\ mode = "open"
        /\ count > 0
        /\ reply' = Answer("Dequeue", TRUE, cell[old].Data)
        /\ first' = new
        /\ live' = live \ {old}
        /\ cell' = [n \in Node |->
                      IF n = old THEN Blank
                      ELSE IF n = new THEN [cell[n] EXCEPT !.Pre = Null]
                      ELSE cell[n]]
        /\ count' = count - 1
        /\ UNCHANGED <<last, mode, tmp>>

(* The destructor takes _obj and starts at _first. *)
DestroyBegin ==
    /\ mode = "open"
    /\ tmp' = first
    /\ mode' = IF first = Null THEN "gone" ELSE "closing"
    /\ UNCHANGED <<cell, live, first, last, count, reply>>

(* while (null != tmp->Next) { tmp = tmp->Next; delete tmp->Pre; } *)
DestroyStep ==
    LET new == cell[tmp].Next
        old == cell[new].Pre
    IN  /\ mode = "closing"
        /\ cell[tmp].Next # Null
        /\ tmp' = new
        /\ live' = live \ {old}
        /\ cell' = [cell EXCEPT ![old] = Blank]
        /\ UNCHANGED <<first, last, count, mode, reply>>

DestroyLast ==
    /\ mode = "closing"
    /\ cell[tmp].Next = Null
    /\ live' = live \ {tmp}
    /\ cell' = [cell EXCEPT ![tmp] = Blank]
    /\ mode' = "gone"
    /\ UNCHANGED <<first, last, count, tmp, reply>>

Next == \/ \E e \in Event : EnqueueFull(e) \/ EnqueueFirst(e) \/ EnqueueNext(e)
        \/ DequeueEmpty
        \/ Dequeue
        \/ DestroyBegin \/ DestroyStep \/ DestroyLast

Spec == Init /\ [][Next]_queueVars

-----------------------------------------------------------------------------
(* Type invariant of the fields of EventQueue_180 and of its nodes. *)
TypeOK == /\ cell \in [Node -> Cell]
          /\ live \subseteq Node
          /\ first \in Pointer /\ last \in Pointer /\ tmp \in Pointer
          /\ count \in 0..MaxCount
          /\ mode \in {"open", "closing", "gone"}
          /\ reply \in [op : {"none", "Enqueue", "Dequeue"}, ok : BOOLEAN,
                        event : Event \cup {Null}]

(* p lists m nodes starting at "head": each points at the next one and is   *)
(* pointed back at by it, the last one points nowhere, each holds an event, *)
(* and no allocated node is missing.                                        *)
ListFrom(p, m, head) ==
    /\ \A n \in live : \E i \in 1..m : p[i] = n
    /\ \A i \in 1..m : \A j \in 1..m : p[i] = p[j] => i = j
    /\ m > 0 => p[1] = head
    /\ \A i \in 1..m : /\ cell[p[i]].Next = IF i = m THEN Null ELSE p[i+1]
                       /\ i > 1 => cell[p[i]].Pre = p[i-1]
                       /\ cell[p[i]].Data \in Event

(* The whole queue, from _first to _last. *)
Chain(p) == /\ ListFrom(p, count, first)
            /\ count > 0 => p[count] = last /\ cell[first].Pre = Null
            /\ count = 0 => first = Null

(* Between two calls the list is whole: _count nodes, linked both ways from *)
(* _first to _last, and they are all the nodes ever allocated and not       *)
(* deleted, so no call of Enqueue or Dequeue leaks or loses a node, and     *)
(* an empty queue has a null _first (which the destructor tests).           *)
WellFormed == mode = "open" => \E p \in [1..count -> live] : Chain(p)

(* Inside the destructor the nodes not yet deleted are a list from "tmp". *)
ClosingList == mode = "closing" =>
                  \E m \in 1..MaxCount : \E p \in [1..m -> live] :
                     ListFrom(p, m, tmp)

(* The destructor's loop dereferences and deletes only nodes that are still *)
(* allocated: its cursor, the node after it, and that node's Pre.           *)
DestroyTouchesLiveNodes ==
    mode = "closing" =>
       /\ tmp \in live
       /\ cell[tmp].Next # Null => /\ cell[tmp].Next \in live
                                   /\ cell[cell[tmp].Next].Pre \in live

(* Nothing the queue allocated survives its destructor. *)
DestroyedFreesAll == mode = "gone" => live = {}

(* The list read in order is the abstract queue of BoundedFifo; it is       *)
(* dropped when the destructor starts.                                      *)
Path == CHOOSE p \in [1..count -> live] : Chain(p)
Contents == IF mode = "open" THEN [i \in 1..count |-> cell[Path[i]].Data]
                             ELSE <<>>
Fifo == INSTANCE BoundedFifo WITH queue <- Contents, open <- (mode = "open")

(* EventQueue_180 implements the bounded first-in first-out queue: events   *)
(* leave in the order they entered, none is duplicated or lost, and Enqueue *)
(* refuses exactly when MaxCount events are waiting.                        *)
ImplementsFifo == Fifo!FifoSpec
=============================================================================
