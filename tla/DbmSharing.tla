------------------------------ MODULE DbmSharing ------------------------------
(***************************************************************************)
(* dbm_t as src/fed_dbm.cpp and include/dbm/inline_fed.h implement it: a   *)
(* handle is a pointer to a counted block that other handles may share, or *)
(* a number, the dimension of an empty DBM.  A write happens in place when *)
(* the handle is the only one, and in a new block otherwise.  intern()     *)
(* makes handles with equal matrices share one block through a hash table, *)
(* and a block remembers the minimal graph of its matrix.                  *)
(*                                                                         *)
(* What an operation computes from zones is that of IntervalZones; this    *)
(* module is about the block it is computed in.                            *)
(***************************************************************************)
EXTENDS IntervalZones

CONSTANTS
  Handle,   \* the dbm_t of the program
  dbm1x1,   \* the dbm_t of DBMAllocator
  Address,  \* the blocks of the allocator
  MaxLost   \* bound of the model: references that ChangeClocks may have lost

Handles == Handle \cup {dbm1x1}

ASSUME HandleAssumption ==
  IsFiniteSet(Handle) /\ dbm1x1 \notin Handle /\ Address \cap Dims = {}
\* Bound of the model: each handle may have its own block while one is being made.
ASSUME AddressAssumption == Cardinality(Address) > Cardinality(Handles)
ASSUME LostAssumption == MaxLost \in Nat

VARIABLES
  ptr,   \* idbmPtr: an address, or the dimension of an empty DBM
  heap,  \* the blocks
  table, \* dbm_table: the addresses that are linked into it
  lost   \* history: the references to each block that were overwritten

vars == <<ptr, heap, table, lost>>

IsEmpty(h) == ptr[h] \notin Address

Dim(h) == IF IsEmpty(h) THEN ptr[h] ELSE heap[ptr[h]].dim
Zone(h) == IF IsEmpty(h) THEN {} ELSE heap[ptr[h]].matrix

Values == INSTANCE DbmValues WITH value <- [h \in Handle |-> [dim |-> Dim(h), zone |-> Zone(h)]]

NoGraph == {}

\* Memory on the free list of DBMAllocator.
Freed == [count |-> 0, dim |-> 1, hashed |-> FALSE, matrix |-> {0}, minGraph |-> NoGraph]

Now == [ptr |-> ptr, heap |-> heap, table |-> table]

Becomes(s) == ptr' = s.ptr /\ heap' = s.heap /\ table' = s.table

Unused == {a \in Address : heap[a].count = 0}

\* DBMAllocator::alloc: a free block, all of which are alike.
Fresh == CHOOSE a \in Unused : TRUE

-----------------------------------------------------------------------------

\* Mutant of Remove: the block stays linked in the hash table.
removeUnlinked(s, a) == [s EXCEPT !.heap[a] = Freed]

\* idbm_t::remove.
Remove(s, a) == [s EXCEPT !.heap[a] = Freed, !.table = @ \ {a}]

IncRef(s, a) == [s EXCEPT !.heap[a].count = @ + 1]

DecRef(s, a) ==
  IF s.heap[a].count = 1 THEN Remove(s, a) ELSE [s EXCEPT !.heap[a].count = @ - 1]

SetPtr(s, h, p) == [s EXCEPT !.ptr[h] = p]

\* dbm_t::setNew: a block of one handle, not hashed, with no minimal graph.
SetNew(s, h, dim, zone) ==
  [s EXCEPT !.ptr[h] = Fresh,
            !.heap[Fresh] = [count |-> 1, dim |-> dim, hashed |-> FALSE,
                             matrix |-> zone, minGraph |-> NoGraph]]

\* Mutant of Sole: hashed blocks, but not shared ones, are left alone.
soleUnlessHashed(h) == ~heap[ptr[h]].hashed

\* The condition of idbm_t::tryMutable ...
Sole(h) == heap[ptr[h]].count = 1

\* Mutant of TryMutable: the graph of the old matrix stays valid.
mutableKeepsGraph(s, h) ==
  [s EXCEPT !.heap[s.ptr[h]].hashed = FALSE, !.table = @ \ {s.ptr[h]}]

\* Mutant of TryMutable: the block stays in the hash table under its old hash.
mutableStaysHashed(s, h) == [s EXCEPT !.heap[s.ptr[h]].minGraph = NoGraph]

\* ... and what it does when it holds: invalidate the graph, and unhash.
TryMutable(s, h) ==
  [s EXCEPT !.heap[s.ptr[h]].minGraph = NoGraph,
            !.heap[s.ptr[h]].hashed = FALSE,
            !.table = @ \ {s.ptr[h]}]

InPlace(h, zone) == [TryMutable(Now, h) EXCEPT !.heap[ptr[h]].matrix = zone]

\* Mutant of Copied: the old block is not told that the handle left it.
copiedWithoutDecRef(h, zone) == SetNew(Now, h, Dim(h), zone)

\* dbm_t::icopy and inew, then the write: the others keep the old block.
Copied(h, zone) == SetNew(DecRef(Now, ptr[h]), h, Dim(h), zone)

\* dbm_t::getCopy and getNew.
Written(h, zone) == IF Sole(h) THEN InPlace(h, zone) ELSE Copied(h, zone)

\* dbm_t::empty, emptyImmutable and emptyMutable.
Emptied(h) == SetPtr(DecRef(Now, ptr[h]), h, Dim(h))

-----------------------------------------------------------------------------

\* DBMAllocator makes its 1x1 matrix and interns it; a dbm_t starts empty.
Init ==
  LET a == CHOOSE b \in Address : TRUE IN
    /\ heap = [b \in Address |->
                IF b = a THEN [count |-> 1, dim |-> 1, hashed |-> TRUE,
                               matrix |-> {0}, minGraph |-> NoGraph]
                ELSE Freed]
    /\ table = {a}
    /\ lost = [b \in Address |-> 0]
    /\ ptr \in {p \in [Handles -> Dims \cup {a}] :
                 p[dbm1x1] = a /\ \A h \in Handle : p[h] \in Dims}

\* ptr_up, ptr_down, ptr_free*, ptr_update*, ptr_relax*: a shared matrix is only copied
\* when the operation would change it.
Lazy(h, op) ==
  /\ ~IsEmpty(h)
  /\ Applies(op, Dim(h), Zone(h))
  /\ LET zone == Image(op, Dim(h), Zone(h))
     IN  Becomes(IF Sole(h) THEN InPlace(h, zone)
                 ELSE IF zone = Zone(h) THEN Now ELSE Copied(h, zone))

\* ptr_upStop, ptr_downStop, updateIncrement, ptr_tighten*, extrapolations: always a
\* private block, which is released again when the zone gets empty.
Copying(h, op) ==
  /\ ~IsEmpty(h)
  /\ Applies(op, Dim(h), Zone(h))
  /\ LET zone == Image(op, Dim(h), Zone(h))
     IN  Becomes(IF zone = {} THEN Emptied(h) ELSE Written(h, zone))

\* ptr_constrain for one constraint: it is tested before anything is touched.
Constrain(h, c) ==
  /\ c \in Zones(Dim(h))
  /\ LET zone == Zone(h) \cap c
     IN  Becomes(IF IsEmpty(h) \/ zone = Zone(h) THEN Now
                 ELSE IF zone = {} THEN Emptied(h) ELSE Written(h, zone))

\* ptr_constrain for several constraints, and operator&= with a raw matrix.
ConstrainN(h, c) ==
  /\ ~IsEmpty(h)
  /\ c \in Zones(Dim(h))
  /\ LET zone == Zone(h) \cap c
     IN  Becomes(IF zone = {} THEN Emptied(h)
                 ELSE IF Sole(h) THEN InPlace(h, zone)
                 ELSE IF zone = Zone(h) THEN Now ELSE Copied(h, zone))

\* dbm_t::copyFrom with a matrix of this dimension.
CopyFrom(h, zone) ==
  /\ zone \in Zones(Dim(h))
  /\ Becomes(IF IsEmpty(h) THEN SetNew(Now, h, Dim(h), zone)
             ELSE IF zone = Zone(h) THEN Now ELSE Written(h, zone))

\* getDBM: what the program writes through the pointer, before its next call.
GetDBM(h, zone) ==
  /\ zone \in Zones(Dim(h))
  /\ Becomes(IF IsEmpty(h) THEN SetNew(Now, h, Dim(h), zone) ELSE Written(h, zone))

\* Mutant of NewCopy: the block does not learn of the new handle.
newCopyUncounted(s, h, p) == SetPtr(s, h, p)

\* dbm_t::newCopy: one more handle of the block at p.
NewCopy(s, h, p) == SetPtr(IncRef(s, p), h, p)

\* setZero and setInit.
SetTo(h, zone) ==
  /\ zone \in {{0}, dbm_init(Dim(h))}
  /\ Becomes(IF IsEmpty(h) THEN IF Dim(h) = 1 THEN NewCopy(Now, h, ptr[dbm1x1])
                                ELSE SetNew(Now, h, Dim(h), zone)
             ELSE IF Sole(h) THEN InPlace(h, zone)
             ELSE IF zone = Zone(h) THEN Now ELSE Copied(h, zone))

\* setDimension, setEmpty and nil; the destructor and a new handle in its place.
SetDimension(h, dim) ==
  Becomes(SetPtr(IF IsEmpty(h) THEN Now ELSE DecRef(Now, ptr[h]), h, dim))

\* Mutant of Assigned: the block of the handle goes first.
assignedAfterDecRef(h, arg) ==
  LET left == IF IsEmpty(h) THEN Now ELSE DecRef(Now, ptr[h])
  IN  SetPtr(IF IsEmpty(arg) THEN left ELSE IncRef(left, ptr[arg]), h, ptr[arg])

\* operator= and updateCopy: "first in case a = a".
Assigned(h, arg) ==
  LET counted == IF IsEmpty(arg) THEN Now ELSE IncRef(Now, ptr[arg])
  IN  SetPtr(IF IsEmpty(h) THEN counted ELSE DecRef(counted, ptr[h]), h, ptr[arg])

Assign(h, arg) == Becomes(Assigned(h, arg))

\* operator&=: a shared matrix that contains arg is replaced by arg's block.
Intersect(h, arg) ==
  /\ Dim(h) = Dim(arg)
  /\ LET zone == Zone(h) \cap Zone(arg)
     IN  Becomes(IF IsEmpty(h) THEN Now
                 ELSE IF zone = {} THEN Emptied(h)
                 ELSE IF Sole(h) THEN InPlace(h, zone)
                 ELSE IF zone = Zone(h) THEN Now
                 ELSE IF zone = Zone(arg) THEN Assigned(h, arg)
                 ELSE Copied(h, zone))

\* operator+=.
Union(h, arg) ==
  /\ Dim(h) = Dim(arg)
  /\ LET zone == Hull(Zone(h) \cup Zone(arg))
     IN  Becomes(IF IsEmpty(arg) THEN Now
                 ELSE IF IsEmpty(h) THEN NewCopy(Now, h, ptr[arg])
                 ELSE IF Sole(h) THEN InPlace(h, zone)
                 ELSE IF zone = Zone(h) THEN Now
                 ELSE Copied(h, zone))

\* Mutant of Twins: matrices are compared, dimensions are not.
twinsOfAnyDimension(p) ==
  {q \in table \ {p} : heap[q].matrix = heap[p].matrix}

\* The block of the hash table that is equal to the one at p.
Twins(p) ==
  {q \in table \ {p} : heap[q].dim = heap[p].dim /\ heap[q].matrix = heap[p].matrix}

\* ptr_intern: share the equal block of the table, and save it the minimal graph, or
\* be the block that the next ones share.
Intern(h) ==
  /\ ~IsEmpty(h)
  /\ ~heap[ptr[h]].hashed
  /\ LET p == ptr[h]
         graph(q) == IF heap[q].minGraph = NoGraph THEN heap[p].minGraph
                     ELSE heap[q].minGraph
     IN  IF Twins(p) = {}
         THEN Becomes([Now EXCEPT !.heap[p].hashed = TRUE, !.table = @ \cup {p}])
         ELSE \E q \in Twins(p) :
                Becomes([DecRef(NewCopy(Now, h, q), p) EXCEPT
                           !.heap[q].minGraph = graph(q)])

\* getMinDBM and analyzeForMinDBM: the graph is computed once, and kept.
GetMinGraph(h) ==
  /\ ~IsEmpty(h)
  /\ Becomes(IF heap[ptr[h]].minGraph # NoGraph THEN Now
             ELSE [Now EXCEPT !.heap[ptr[h]].minGraph = Zone(h)])

\* resize and changeClocks: for dimension 1, newCopy of dbm1x1 takes the place of
\* idbmPtr without a decRef; otherwise the old block is read, then left.
ChangeClocks(h, dim, zone) ==
  /\ zone \in IF IsEmpty(h) THEN {{}} ELSE Resized(Dim(h), Zone(h), dim)
  /\ lost' = IF IsEmpty(h) \/ dim > 1 THEN lost ELSE [lost EXCEPT ![ptr[h]] = @ + 1]
  /\ MapThenSumSet(LAMBDA a : lost'[a], Address) <= MaxLost
  /\ Becomes(IF IsEmpty(h) THEN SetPtr(Now, h, dim)
             ELSE IF dim = 1 THEN NewCopy(Now, h, ptr[dbm1x1])
             ELSE DecRef(SetNew(Now, h, dim, zone), ptr[h]))

Writes(h) ==
  \/ \E op \in LazyOps : Lazy(h, op)
  \/ \E op \in CopyOps : Copying(h, op)
  \/ \E zone \in AllZones : \/ Constrain(h, zone) \/ ConstrainN(h, zone)
                            \/ CopyFrom(h, zone) \/ GetDBM(h, zone)
                            \/ SetTo(h, zone)
  \/ \E arg \in Handle : Intersect(h, arg) \/ Union(h, arg)

Resizes(h) ==
  \E dim \in NewDims, zone \in AllZones \cup {{}} : ChangeClocks(h, dim, zone)

Next ==
  \E h \in Handle :
    \/ Unused # {} /\ Resizes(h)
    \/ /\ \/ Unused # {} /\ Writes(h)
          \/ \E arg \in Handle : Assign(h, arg)
          \/ \E dim \in Dims : SetDimension(h, dim)
          \/ Intern(h)
          \/ GetMinGraph(h)
       /\ UNCHANGED lost

Spec == Init /\ [][Next]_vars

-----------------------------------------------------------------------------

Users(a) == {h \in Handles : ptr[h] = a}

\* Reference counts are exact, but for the references that are lost: a block is written in
\* place only under its one handle, and freed with its last one.
RefCounts == \A a \in Address : heap[a].count = Cardinality(Users(a)) + lost[a]

\* The hash table links the live blocks that are marked, and no two equal ones, so
\* that interned handles are equal exactly when sameAs says so.
TableConsistent ==
  /\ table = {a \in Address : heap[a].hashed}
  /\ \A a \in table : heap[a].count > 0
  /\ \A a, b \in table :
       heap[a].dim = heap[b].dim /\ heap[a].matrix = heap[b].matrix => a = b

\* A stored minimal graph is that of the matrix as it is now; minGraph is the matrix that
\* the graph was computed from.
MinGraphFresh == \A a \in Address : heap[a].minGraph \in {NoGraph, heap[a].matrix}

\* What the blocks and the handles are made of.
Block == [count : Nat, dim : Dims, hashed : BOOLEAN, matrix : AllZones,
          minGraph : AllZones \cup {NoGraph}]

TypeOK ==
  /\ ptr \in [Handles -> Dims \cup Address]
  /\ heap \in [Address -> Block]
  /\ table \in SUBSET Address
  /\ lost \in [Address -> Nat]

\* A block holds a non-empty zone of its dimension; an empty dbm_t has no block.
MatricesAreZones == \A a \in Address : heap[a].matrix \in Zones(heap[a].dim)

\* DBMAllocator keeps its reference to the 1x1 matrix.
AllocatorKeeps1x1 == ptr[dbm1x1] \in Address /\ heap[ptr[dbm1x1]].dim = 1

\* The inductive invariant: RefCounts is why a write in place meets no other handle and
\* no hashed twin, and TableConsistent needs it of every block that is freed.
SharingInvariant ==
  /\ TypeOK
  /\ RefCounts
  /\ TableConsistent
  /\ MinGraphFresh
  /\ MatricesAreZones
  /\ AllocatorKeeps1x1

\* Each call means for the values what fed.h promises, whichever path it takes: what
\* ImplementsValues says of a step, said of the call that it is.
CallsMeanValues ==
  [][Unused # {} =>
     \A h \in Handle :
       /\ \A op \in LazyOps : Lazy(h, op) => Values!Transform(h, op)
       /\ \A op \in CopyOps : Copying(h, op) => Values!Transform(h, op)
       /\ \A zone \in Zones(Dim(h)) :
            /\ Constrain(h, zone) \/ ConstrainN(h, zone) => Values!Constrain(h, zone)
            /\ CopyFrom(h, zone) \/ GetDBM(h, zone) \/ SetTo(h, zone)
                 => Values!SetValue(h, zone)
       /\ \A arg \in Handle :
            /\ Intersect(h, arg) => Values!Intersection(h, arg)
            /\ Union(h, arg) => Values!ConvexUnion(h, arg)
            /\ Assign(h, arg) => Values!Assign(h, arg)
       /\ \A dim \in Dims : SetDimension(h, dim) => Values!SetDimension(h, dim)
       /\ \A dim \in NewDims, zone \in AllZones \cup {{}} :
            ChangeClocks(h, dim, zone) => Values!ChangeClocks(h, dim, zone)
       /\ Intern(h) \/ GetMinGraph(h) => UNCHANGED Values!vars]_vars

\* Sharing cannot be seen: every step is a step, or a stutter, of DbmValues.
ImplementsValues == Values!Spec

\* "this hash table should be empty now unless there have been leaks": when all
\* handles are empty, only the matrix of DBMAllocator is left in the table.
TableEmptyAtEnd == (\A h \in Handle : IsEmpty(h)) => table = {ptr[dbm1x1]}

=============================================================================
