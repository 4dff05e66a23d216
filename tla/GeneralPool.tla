----------------------------- MODULE GeneralPool -----------------------------
(***************************************************************************)
(* general_memory_pool: one thread-local pool per size class, malloc() for *)
(* what is larger, and a header in front of every object that says which.  *)
(*                                                                         *)
(* SizesOf confines a thread to the sizes it asks for and gives back.      *)
(***************************************************************************)
EXTENDS ThreadLocalPool

CONSTANTS SizesOf,             \* the sizes each thread handles
          LargeObjects,        \* objects of malloc() there can be at a time
          System,              \* header->pool = nullptr
          Link                 \* in the place of the header: the link of a free block

MAX_MANAGED_SIZE == 512
MIN_MANAGED_SIZE == 8
NUM_SIZE_CLASSES == 7
Classes == 0 .. NUM_SIZE_CLASSES - 1

ASSUME PoolsAssumption == /\ Classes \subseteq Pools
                          /\ \A t \in ThreadIds : SizesOf[t] \subseteq Nat
                          /\ System \notin Pools /\ Link \notin Pools \cup {System}

VARIABLES header,              \* per block: its first word, the header or a link
          request,             \* history: per object in use, the size asked for
          asked                \* per thread: the size of the allocate() it is in, or 0

ownVars     == <<header, request, asked>>
generalVars == <<vars, ownVars>>

Large   == {[pool |-> System, nr |-> n] : n \in LargeObjects}
objects == DOMAIN request
Idle(t) == t \in running /\ pc[t] = "idle" /\ life[0] = "alive"

(* The constructor makes the pool of class i with blocks of this size and a *)
(* header more.                                                             *)
BlockSize(i) == MIN_MANAGED_SIZE * 2 ^ i

(* The numbers the tests of get_size_class_index() compare with, in order. *)
Limits == <<8, 16, 32, 64, 128, 256, 512>>

(* Fault: a size one above a limit still passes the test. *)
SizeClassTooSmall(size) ==
    CHOOSE i \in Classes : /\ size <= Limits[i + 1] + 1
                           /\ \A j \in 0 .. i - 1 : size > Limits[j + 1] + 1

get_size_class_index(size) ==
    CHOOSE i \in Classes : /\ size <= Limits[i + 1]
                           /\ \A j \in 0 .. i - 1 : size > Limits[j + 1]

----------------------------------------------------------------------------
GeneralInit == /\ Init
               /\ header = [b \in Blocks \cup Large |-> Link]
               /\ request = <<>>
               /\ asked = [t \in ThreadIds |-> 0]

Construct == /\ \A p \in Classes : life[p] = "unborn"
             /\ life' = [p \in Pools |-> IF p \in Classes THEN "alive" ELSE life[p]]
             /\ central_pool_' = [p \in Pools |-> IF p \in Classes THEN BlockCount[p]
                                                  ELSE central_pool_[p]]
             /\ UNCHANGED <<local_free_list_, running, call, inUse, ownVars>>

Destruct == /\ \A p \in Classes : life[p] = "alive"
            /\ objects = {} /\ \A t \in ThreadIds : pc[t] = "idle"
            /\ life' = [p \in Pools |-> IF p \in Classes THEN "destroyed" ELSE life[p]]
            /\ central_pool_' = [p \in Pools |-> IF p \in Classes THEN 0
                                                 ELSE central_pool_[p]]
            /\ UNCHANGED <<local_free_list_, running, call, inUse, ownVars>>

ThreadComesOrGoes(t) == (StartThread(t) \/ ExitThread(t)) /\ UNCHANGED ownVars

InUse(object, size) ==
    request' = [o \in objects \cup {object} |-> IF o = object THEN size ELSE request[o]]

(* Fault: the header is not written, it is that of a block after all. *)
HandOutUnwritten(object, owner, size) == InUse(object, size) /\ UNCHANGED header

HandOut(object, owner, size) == /\ InUse(object, size)
                                /\ header' = [header EXCEPT ![object] = owner]

(* allocate() of a large size; when malloc() fails nothing changes. *)
Malloc(t, size, m) == /\ Idle(t)
                      /\ size > MAX_MANAGED_SIZE
                      /\ m \notin objects
                      /\ UNCHANGED <<vars, asked>>

AllocateLarge(t, size, m) == Malloc(t, size, m) /\ HandOut(m, System, size)

(* allocate() of a managed size: the pool of its class is asked, and the    *)
(* header of the block that pool returns names the pool asked.              *)
AllocateManaged(t, size) ==
    /\ size <= MAX_MANAGED_SIZE
    /\ Allocate(t, get_size_class_index(size))
    /\ asked' = [asked EXCEPT ![t] = size]
    /\ UNCHANGED <<header, request>>

ReturnManaged(t) ==
    \/ /\ FetchOne(t) \/ FetchEnd(t)
       /\ UNCHANGED ownVars
    \/ /\ TakeNone(t)
       /\ asked' = [asked EXCEPT ![t] = 0]
       /\ UNCHANGED <<header, request>>
    \/ /\ Take(t)
       /\ HandOut(Head(local_free_list_[t]), pool[t], asked[t])
       /\ asked' = [asked EXCEPT ![t] = 0]

(* deallocate(): by the header, to a pool or to free().  The pool puts the  *)
(* link of its list where the header was, and free() what it likes.         *)
DeallocateByHeader(t, b) ==
    /\ Idle(t)
    /\ b \in objects
    /\ inUse' = inUse \ {b}
    /\ IF header[b] # System THEN Push(t, b) ELSE UNCHANGED local_free_list_
    /\ header' = [header EXCEPT ![b] = Link]
    /\ request' = [o \in objects \ {b} |-> request[o]]
    /\ UNCHANGED <<central_pool_, life, running, call, asked>>

GeneralNext ==
    \/ Construct
    \/ Destruct
    \/ \E t \in ThreadIds : ThreadComesOrGoes(t) \/ ReturnManaged(t)
    \/ \E t \in ThreadIds : \E size \in SizesOf[t] :
         AllocateManaged(t, size) \/ \E m \in Large : AllocateLarge(t, size, m)
    \/ \E t \in ThreadIds : \E b \in objects :
         request[b] \in SizesOf[t] /\ DeallocateByHeader(t, b)

GeneralSpec == GeneralInit /\ [][GeneralNext]_generalVars

----------------------------------------------------------------------------
(* Every object in use is at least as large as its user asked for, whatever *)
(* pools its thread has had blocks of in its list.                          *)
ObjectsAreLargeEnough ==
    \A b \in objects \ Large : b.pool \in Classes /\ request[b] <= BlockSize(b.pool)

(* "Taken from the corresponding fixed-size pool" (README.md of the general *)
(* pool): the block is one of the pool of the class its size rounds up to.  *)
FromTheCorrespondingPool ==
    \A b \in objects \ Large : b.pool = get_size_class_index(request[b])

(* deallocate() tells by the first word of an object alone, which is the    *)
(* link of a list between one use and the next: while the object is in use  *)
(* it is the header, and says malloc() of the objects of malloc() only;     *)
(* the blocks of a list hold its links, and none is an object of malloc().  *)
EachToItsOwner ==
    /\ \A t \in ThreadIds : \A i \in 1 .. Len(local_free_list_[t]) :
         local_free_list_[t][i] \in Blocks /\ header[local_free_list_[t][i]] = Link
    /\ \A b \in objects : header[b] # Link /\ (header[b] = System <=> b \in Large)
=============================================================================
