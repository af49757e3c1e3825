------------------------------- MODULE Timer --------------------------------
(***************************************************************************)
(* The timer of code/timer: a binary heap of nodes with the index of every *)
(* id, and the operations of its interface, called one after another as    *)
(* the lock makes them (indices from 1 here).  An access outside heap_ is  *)
(* undefined behaviour and ends the behaviour (ok becomes FALSE).  Time    *)
(* is a counter.                                                           *)
(***************************************************************************)
EXTENDS Integers, Sequences

CONSTANTS Id, Timeout, MaxTime

VARIABLES
    heap_,      \* the nodes: id and expiry
    ref_,       \* the index of an id in heap_, 0 for none
    now,        \* the clock
    ticked,     \* tick has just returned
    ok          \* no undefined behaviour so far

vars == <<heap_, ref_, now, ticked, ok>>

Init ==
    /\ heap_ = <<>> /\ ref_ = [i \in Id |-> 0]
    /\ now = 0 /\ ticked = FALSE /\ ok = TRUE

(* operator< *)
Less(a, b) == a.expires > b.expires

(* swapNode_; q is a heap with its index, [heap, ref]. *)
swapNode_(q, i, j) ==
    [heap |-> [q.heap EXCEPT ![i] = q.heap[j], ![j] = q.heap[i]],
     ref  |-> [q.ref EXCEPT ![q.heap[j].id] = i, ![q.heap[i].id] = j]]

RECURSIVE siftup_(_, _)
siftup_(q, i) ==
    LET parent == i \div 2 IN
    IF i = 1 \/ Less(q.heap[parent], q.heap[i]) THEN q
    ELSE siftup_(swapNode_(q, i, parent), parent)

RECURSIVE siftdown_(_, _)
siftdown_(q, i) ==
    LET n == Len(q.heap)
        j == IF 2 * i + 1 <= n /\ Less(q.heap[2 * i + 1], q.heap[2 * i])
               THEN 2 * i + 1 ELSE 2 * i IN
    IF j > n \/ Less(q.heap[i], q.heap[j]) THEN q
    ELSE siftdown_(swapNode_(q, i, j), j)

Sift(q, i) ==
    LET d == siftdown_(q, i) IN IF d = q THEN siftup_(q, i) ELSE d

(* del_: the node is swapped to the end and popped; then the reference of  *)
(* the node now in its place is erased.                                    *)
del_(q, i) ==
    LET n == Len(q.heap)
        s == IF i < n THEN swapNode_(q, i, n) ELSE q
        gone == IF i < n THEN s.heap[i].id ELSE s.heap[n].id
        p == [heap |-> SubSeq(s.heap, 1, n - 1), ref |-> [s.ref EXCEPT ![gone] = 0]]
    IN IF i < n THEN Sift(p, i) ELSE p

(* tick: while the root has expired, its callback and pop. *)
RECURSIVE Ticked(_)
Ticked(q) ==
    IF q.heap = <<>> \/ q.heap[1].expires > now THEN q ELSE Ticked(del_(q, 1))

-----------------------------------------------------------------------------
Queue == [heap |-> heap_, ref |-> ref_]
Becomes(q) == heap_' = q.heap /\ ref_' = q.ref

(* add, with the reference of the id taken at its word. *)
add(id, timeout) ==
    /\ LET node == [id |-> id, expires |-> now + timeout]
           i == ref_[id] IN
       \/ /\ i = 0
          /\ Becomes(siftup_([heap |-> Append(heap_, node),
                              ref |-> [ref_ EXCEPT ![id] = Len(heap_) + 1]],
                             Len(heap_) + 1))
          /\ UNCHANGED ok
       \/ /\ i \in DOMAIN heap_
          /\ Becomes(Sift([Queue EXCEPT !.heap[i].expires = now + timeout], i))
          /\ UNCHANGED ok
       \/ /\ i > Len(heap_)
          /\ ok' = FALSE /\ UNCHANGED <<heap_, ref_>>
    /\ ticked' = FALSE /\ UNCHANGED now

doWork(id) ==
    /\ heap_ # <<>> /\ ref_[id] # 0
    /\ \/ /\ ref_[id] \in DOMAIN heap_
          /\ Becomes(del_(Queue, ref_[id])) /\ UNCHANGED ok
       \/ /\ ref_[id] > Len(heap_)
          /\ ok' = FALSE /\ UNCHANGED <<heap_, ref_>>
    /\ ticked' = FALSE /\ UNCHANGED now

tick ==
    /\ Becomes(Ticked(Queue))
    /\ ticked' = TRUE /\ UNCHANGED <<now, ok>>

(* getNextTick: tick, then -1, or the front of a heap that is empty. *)
getNextTick ==
    /\ Becomes(Ticked(Queue))
    /\ ok' = (heap_' # <<>>)
    /\ ticked' = TRUE /\ UNCHANGED now

clear ==
    /\ heap_' = <<>> /\ ref_' = [i \in Id |-> 0]
    /\ ticked' = FALSE /\ UNCHANGED <<now, ok>>

Pass ==
    /\ now < MaxTime /\ now' = now + 1
    /\ ticked' = FALSE /\ UNCHANGED <<heap_, ref_, ok>>

Next ==
    /\ ok
    /\ \/ \E id \in Id : doWork(id) \/ \E t \in Timeout : add(id, t)
       \/ tick \/ getNextTick \/ clear \/ Pass

Spec == Init /\ [][Next]_vars
=============================================================================
