-------------------------- MODULE Mach64DmaProofs --------------------------
(***************************************************************************)
(* Theorems about DhaMem and, above it, Mach64Dma, on one processor, for   *)
(* any threads, frames, mapped and pinned pages and flags, and for buffers *)
(* that start on a page and share none.                                    *)
(*                                                                         *)
(* The inductive invariant of the helper accounts for every mark: a frame  *)
(* is marked exactly if it holds a page of a locked buffer, one that a     *)
(* lock under way has behind it, or one that an unlock under way has       *)
(* before it.  Every step of the driver keeps it: each is one of the       *)
(* helper's, or leaves the memory alone, or uses a page.                   *)
(***************************************************************************)
EXTENDS Mach64Dma, Integers, TLAPS

PageAligned == \A b \in Buffers : b.addr % PageSize = 0
Disjoint    == \A b, c \in Buffers : b # c => Touched(b) \cap Touched(c) = {}

USE SizeAssumption, BufferAssumption, NoneAssumption, SmpAssumption

----------------------------------------------------------------------------
\* Division, and the pages of an aligned buffer.

LEMMA Quotient ==
  ASSUME NEW P \in Nat \ {0}, NEW a \in Int, NEW q \in Int, NEW r \in 0 .. P - 1, a = q * P + r
  PROVE  a \div P = q
  OBVIOUS

LEMMA Remainder ==
  ASSUME NEW P \in Nat \ {0}, NEW a \in Int
  PROVE  a = (a \div P) * P + (a % P) /\ a \div P \in Int /\ a % P \in 0 .. P - 1
  OBVIOUS

LEMMA Shift ==
  ASSUME NEW P \in Nat \ {0}, NEW a \in Nat, NEW k \in Nat, a % P = 0
  PROVE  (a + k * P) \div P = (a \div P) + k /\ a \div P \in Nat
  <1> DEFINE x == a + k * P
             q == (a \div P) + k
  <1>1. a = (a \div P) * P
    BY Remainder
  <1>2. a \div P \in Nat
    OBVIOUS
  <1>3. x \in Int /\ q \in Int /\ x = q * P + 0 /\ 0 \in 0 .. P - 1
    BY <1>1, <1>2
  <1> HIDE DEF x, q
  <1>4. x \div P = q
    BY <1>3, Quotient
  <1>5. QED
    BY <1>2, <1>4 DEF x, q

\* The loops come to the page of the last byte.
LEMMA LastPage ==
  ASSUME NEW b \in Buffers, b.addr % PageSize = 0
  PROVE  /\ Items(b) \in Nat \ {0}
         /\ (b.addr + b.length - 1) \div PageSize = (b.addr \div PageSize) + Items(b) - 1
  <1> DEFINE P == PageSize
             a == b.addr
             n == b.length
             items == Items(b)
  <1>0. /\ P \in Nat \ {0} /\ a \in Nat /\ n \in Nat \ {0} /\ a % P = 0
        /\ items = n \div P + (IF n % P > 0 THEN 1 ELSE 0)
    BY DEF Items
  <1> SUFFICES items \in Nat \ {0} /\ (a + n - 1) \div P = (a \div P) + items - 1
    OBVIOUS
  <1> USE <1>0
  <1> HIDE DEF P, a, n, items
  <1> DEFINE x == a + n - 1
             q == (a \div P) + items - 1
             r == IF n % P > 0 THEN (n % P) - 1 ELSE P - 1
  <1>1. a = (a \div P) * P /\ a \div P \in Nat
    <2>1. a \div P \in Nat
      OBVIOUS
    <2>2. QED
      BY <2>1, Remainder
  <1>2. n = (n \div P) * P + (n % P) /\ n \div P \in Nat /\ n % P \in 0 .. P - 1
    <2>1. n \div P \in Nat
      OBVIOUS
    <2>2. QED
      BY <2>1, Remainder
  <1>3. items \in Nat \ {0}
    <2>1. CASE n % P > 0
      BY <1>2, <2>1
    <2>2. CASE ~(n % P > 0)
      <3>1. n = (n \div P) * P
        BY <1>2, <2>2
      <3>2. n \div P # 0
        BY <3>1
      <3>3. QED
        BY <1>2, <2>2, <3>2
    <2>3. QED
      BY <2>1, <2>2
  <1>4. x \in Int /\ q \in Int /\ r \in 0 .. P - 1
    BY <1>1, <1>2, <1>3
  <1>5. x = q * P + r
    <2>1. CASE n % P > 0
      <3> DEFINE u == a \div P
                 v == n \div P
                 w == n % P
      <3>1. u \in Nat /\ v \in Nat /\ w \in 0 .. P - 1 /\ a = u * P /\ n = v * P + w
        BY <1>1, <1>2
      <3>2. items = v + 1 /\ r = w - 1
        BY <2>1
      <3>3. q = u + items - 1
        OBVIOUS
      <3> HIDE DEF u, v, w, q, r
      <3>4. x = (u + v) * P + (w - 1)
        BY <3>1
      <3>5. QED
        BY <3>1, <3>2, <3>3, <3>4
    <2>2. CASE ~(n % P > 0)
      <3> DEFINE u == a \div P
                 v == n \div P
      <3>1. u \in Nat /\ v \in Nat /\ a = u * P /\ n = v * P
        BY <1>1, <1>2, <2>2
      <3>2. items = v /\ r = P - 1
        BY <2>2, <3>1
      <3>3. q = u + items - 1
        OBVIOUS
      <3> HIDE DEF u, v, q, r
      <3>4. x = (u + v - 1) * P + (P - 1)
        BY <3>1
      <3>5. QED
        BY <3>1, <3>2, <3>3, <3>4
    <2>3. QED
      BY <2>1, <2>2
  <1> HIDE DEF x, q, r
  <1>6. x \div P = q
    BY <1>4, <1>5, Quotient
  <1>7. QED
    BY <1>3, <1>6 DEF x, q

LEMMA BufferPages ==
  ASSUME PageAligned, NEW b \in Buffers
  PROVE  /\ Items(b) \in Nat \ {0}
         /\ PageOf(b, 0) \in Nat
         /\ \A k \in Nat : PageOf(b, k) = PageOf(b, 0) + k
         /\ Touched(b) = Visited(b)
         /\ Visited(b) \subseteq Pages
  <1>1. b.addr \in Nat /\ b.length \in Nat \ {0} /\ b.addr % PageSize = 0
    BY DEF PageAligned
  <1>2. \A k \in Nat : (b.addr + k * PageSize) \div PageSize = (b.addr \div PageSize) + k
    BY <1>1, Shift
  <1>3. b.addr \div PageSize \in Nat
    BY <1>1, Shift
  <1>4. /\ Items(b) \in Nat \ {0}
        /\ (b.addr + b.length - 1) \div PageSize = (b.addr \div PageSize) + Items(b) - 1
    BY <1>1, LastPage
  <1>5. \A k \in Nat : PageOf(b, k) = (b.addr \div PageSize) + k
    BY <1>2 DEF PageOf
  <1>6. PageOf(b, 0) = b.addr \div PageSize
    BY <1>3, <1>5
  <1>7. Touched(b) = PageOf(b, 0) .. PageOf(b, 0) + Items(b) - 1
    BY <1>3, <1>4, <1>6 DEF Touched
  <1>8. Visited(b) = PageOf(b, 0) .. PageOf(b, 0) + Items(b) - 1
    <2> DEFINE z == PageOf(b, 0)
    <2>1. \A k \in Nat : PageOf(b, k) = z + k
      BY <1>5, <1>6
    <2>2. z \in Nat /\ Items(b) \in Nat
      BY <1>3, <1>4, <1>6
    <2> HIDE DEF z
    <2>3. ASSUME NEW p \in z .. z + Items(b) - 1 PROVE p \in {PageOf(b, k) : k \in 0 .. Items(b) - 1}
      <3>1. p - z \in 0 .. Items(b) - 1 /\ PageOf(b, p - z) = p
        BY <2>1, <2>2
      <3>2. QED
        BY <3>1
    <2>4. \A k \in 0 .. Items(b) - 1 : PageOf(b, k) \in z .. z + Items(b) - 1
      BY <2>1, <2>2
    <2>5. QED
      BY <2>3, <2>4 DEF Visited, z
  <1>9. Visited(b) \subseteq Pages
    BY DEF Pages
  <1>10. QED
    BY <1>3, <1>4, <1>5, <1>6, <1>7, <1>8, <1>9

----------------------------------------------------------------------------
\* The inductive invariant.

Buf(t)     == task[t].buf
Claims(t)  == task[t].op \in {"lock", "unlock"} /\ ~At(t, "none")

\* Pages that a call under way has locked, or has not unlocked yet.
Mine(t) ==
  {PageOf(Buf(t), k) : k \in IF ~Claims(t) THEN {}
                             ELSE IF task[t].op = "lock" THEN task[t].j .. task[t].i - 1
                             ELSE task[t].i .. Items(Buf(t)) - 1}

\* The pages of a set of buffers.
Covered(H) == UNION {Visited(b) : b \in H}

Locked == Covered(held) \cup UNION {Mine(t) : t \in Threads}

\* Where a call is and what it has.
CallOk(t) ==
  /\ ~At(t, "none") => Buf(t) \in Buffers /\ task[t].i < Items(Buf(t))
  /\ task[t].op # "lock" => task[t].at \in {"none", "loop"}
  /\ ~At(t, "undo") => task[t].j = 0
  /\ Claims(t) => Buf(t) \notin held

CallInv == \A t \in Threads : CallOk(t)

\* A buffer is locked or unlocked by one call at a time.
OwnInv == \A t, u \in Threads : Claims(t) /\ Claims(u) /\ Buf(t) = Buf(u) => t = u

\* Nothing comes between the look-up of a page and its marking.
MarkInv == \A t \in Threads : At(t, "mark") => Present(Page(t))

\* Every mark is accounted for.
AccountInv ==
  /\ \A p \in Locked : p \in Pages /\ Present(p)
  /\ marked = {table[p] : p \in Locked}

\* What was translated of a locked buffer is where it was.
BusOk(t) ==
  task[t].op = "translate" /\ At(t, "loop") /\ task[t].sure =>
    /\ Buf(t) \in held
    /\ Len(task[t].bus) = task[t].i
    /\ \A k \in 1 .. task[t].i : task[t].bus[k] = table[PageOf(Buf(t), k - 1)]

BusInv == \A t \in Threads : BusOk(t)

IInv == TypeOK /\ CallInv /\ OwnInv /\ MarkInv /\ AccountInv /\ BusInv

----------------------------------------------------------------------------
LEMMA InitHolds == MemInit => IInv
  <1> SUFFICES ASSUME MemInit PROVE IInv
    OBVIOUS
  <1>1. NoTask \in Tasks
    BY DEF NoTask, Tasks
  <1>2. TypeOK
    BY <1>1 DEF MemInit, TypeOK, Present, At, NoTask
  <1>3. Locked = {}
    BY DEF MemInit, Locked, Covered, Mine, Claims, At, NoTask
  <1>4. AccountInv
    BY <1>3 DEF AccountInv, MemInit
  <1>5. QED
    BY <1>2, <1>4 DEF MemInit, IInv, CallInv, OwnInv, MarkInv, BusInv, CallOk, BusOk, Claims,
                        At, NoTask

\* Two buffers have no page in common, and a buffer has a page once.
LEMMA PagesApart ==
  ASSUME PageAligned, Disjoint, NEW b \in Buffers, NEW c \in Buffers,
         NEW k \in 0 .. Items(b) - 1, NEW l \in 0 .. Items(c) - 1,
         PageOf(b, k) = PageOf(c, l)
  PROVE  b = c /\ k = l
  <1>1. Items(b) \in Nat /\ Items(c) \in Nat
    BY BufferPages
  <1>2. PageOf(b, k) \in Visited(b) /\ PageOf(c, l) \in Visited(c)
    BY DEF Visited
  <1>3. b = c
    BY <1>2, BufferPages DEF Disjoint
  <1>4. /\ PageOf(b, 0) \in Nat
        /\ PageOf(b, k) = PageOf(b, 0) + k
        /\ PageOf(b, l) = PageOf(b, 0) + l
    BY <1>1, <1>3, BufferPages
  <1>5. k = l
    BY <1>1, <1>3, <1>4
  <1>6. QED
    BY <1>3, <1>5

----------------------------------------------------------------------------
\* What a step makes of the record of its thread.

Labels == {"none", "loop", "fault", "read", "again", "mark", "undo"}

Others(t) == \A u \in Threads : u # t => task'[u] = task[u]

LEMMA GoToTask ==
  ASSUME task \in [Threads -> Tasks], NEW t \in Threads, NEW l \in Labels, GoTo(t, l)
  PROVE  /\ task' \in [Threads -> Tasks]
         /\ task'[t] = [task[t] EXCEPT !.at = l]
         /\ Others(t)
  <1> DEFINE r == [task[t] EXCEPT !.at = l]
  <1>1. task[t] \in Tasks
    OBVIOUS
  <1>2. r \in Tasks
    BY <1>1 DEF Tasks, Labels
  <1>3. task' = [task EXCEPT ![t] = r]
    BY DEF GoTo
  <1> HIDE DEF r
  <1>4. task' \in [Threads -> Tasks] /\ task'[t] = r /\ Others(t)
    BY <1>2, <1>3 DEF Others
  <1>5. QED
    BY <1>4 DEF r

LEMMA ReturnTask ==
  ASSUME task \in [Threads -> Tasks], NEW t \in Threads, NEW ok \in BOOLEAN, Return(t, ok)
  PROVE  /\ task' \in [Threads -> Tasks]
         /\ task'[t] = [task[t] EXCEPT !.at = "none", !.i = 0, !.j = 0, !.ok = ok]
         /\ Others(t)
  <1> DEFINE r == [task[t] EXCEPT !.at = "none", !.i = 0, !.j = 0, !.ok = ok]
  <1>1. task[t] \in Tasks
    OBVIOUS
  <1>2. r \in Tasks
    BY <1>1 DEF Tasks
  <1>3. task' = [task EXCEPT ![t] = r]
    BY DEF Return
  <1> HIDE DEF r
  <1>4. task' \in [Threads -> Tasks] /\ task'[t] = r /\ Others(t)
    BY <1>2, <1>3 DEF Others
  <1>5. QED
    BY <1>4 DEF r

----------------------------------------------------------------------------
\* What a step of one thread leaves of the invariant for the others.

LEMMA TypeKept ==
  ASSUME TypeOK, NEW t \in Threads, task' \in [Threads -> Tasks], Others(t), UNCHANGED table,
         marked' \subseteq Frames \cup {Wild}, held' \subseteq Buffers,
         bkl \in {t, None}, bkl' \in {t, None},
         task'[t].j <= task'[t].i, task'[t].at \in {"none", "fault", "read"} \/ bkl' = t
  PROVE  TypeOK'
  <1>1. \A u \in Threads : task'[u].j <= task'[u].i
    BY DEF TypeOK, Others
  <1>2. \A u \in Threads : task'[u].at \in {"none", "fault", "read"} \/ bkl' = u
    BY DEF TypeOK, Others, At
  <1>3. QED
    BY <1>1, <1>2 DEF TypeOK, At, Present

LEMMA CallKept ==
  ASSUME CallInv, NEW t \in Threads, Others(t), CallOk(t)',
         \A u \in Threads : u # t /\ Claims(u) => Buf(u) \notin held'
  PROVE  CallInv'
  BY DEF CallInv, CallOk, Others, Claims, At, Buf

LEMMA OwnKept ==
  ASSUME OwnInv, NEW t \in Threads, Others(t),
         \A u \in Threads : u # t /\ Claims(u) /\ Claims(t)' => Buf(u) # Buf(t)'
  PROVE  OwnInv'
  BY DEF OwnInv, Others, Claims, At, Buf

LEMMA MarkKept ==
  ASSUME MarkInv, NEW t \in Threads, Others(t), UNCHANGED table,
         task'[t].at = "mark" => Present(Page(t)')
  PROVE  MarkInv'
  BY DEF MarkInv, Others, Present, Page, At

LEMMA BusKept ==
  ASSUME BusInv, NEW t \in Threads, Others(t), UNCHANGED table, BusOk(t)',
         \A u \in Threads : u # t /\ ~At(u, "none") /\ Buf(u) \in held => Buf(u) \in held'
  PROVE  BusInv'
  BY DEF BusInv, BusOk, Others, At, Buf

LEMMA MineKept ==
  ASSUME NEW t \in Threads, Others(t)
  PROVE  \A u \in Threads : u # t => Mine(u)' = Mine(u)
  BY DEF Others, Mine, Claims, At, Buf

\* The pages that count as locked, those of one thread apart.
MineElsewhere(t) == UNION {Mine(u) : u \in Threads \ {t}}

LEMMA LockedSplit ==
  ASSUME NEW t \in Threads, Others(t)
  PROVE  /\ Locked = Covered(held) \cup Mine(t) \cup MineElsewhere(t)
         /\ Locked' = Covered(held') \cup Mine(t)' \cup MineElsewhere(t)
  <1>1. \A u \in Threads \ {t} : Mine(u)' = Mine(u)
    BY MineKept
  <1>2. UNION {Mine(u) : u \in Threads} = Mine(t) \cup MineElsewhere(t)
    BY DEF MineElsewhere
  <1>3. UNION {Mine(u)' : u \in Threads} = Mine(t)' \cup UNION {Mine(u)' : u \in Threads \ {t}}
    OBVIOUS
  <1>4. UNION {Mine(u)' : u \in Threads \ {t}} = MineElsewhere(t)
    BY <1>1 DEF MineElsewhere
  <1>5. QED
    BY <1>2, <1>3, <1>4 DEF Locked

LEMMA CoveredMore ==
  ASSUME NEW H, NEW b
  PROVE  Covered(H \cup {b}) = Covered(H) \cup Visited(b)
  <1>1. ASSUME NEW p PROVE p \in Covered(H \cup {b}) <=> p \in Covered(H) \cup Visited(b)
    <2>1. p \in Covered(H) <=> \E c \in H : p \in Visited(c)
      BY DEF Covered
    <2>2. p \in Covered(H \cup {b}) <=> \E c \in H \cup {b} : p \in Visited(c)
      BY DEF Covered
    <2>3. QED
      BY <2>1, <2>2
  <1>2. QED
    BY <1>1

\* The pages that count as locked stay the same.
LEMMA LockedKept ==
  ASSUME NEW t \in Threads, Others(t), UNCHANGED held, Mine(t)' = Mine(t)
  PROVE  Locked' = Locked
  BY MineKept DEF Locked

LEMMA AccountKept ==
  ASSUME AccountInv, UNCHANGED <<table, marked>>, Locked' = Locked
  PROVE  AccountInv'
  BY DEF AccountInv, Present

\* A call moves on between pages.
LEMMA MoveHolds ==
  ASSUME IInv, NEW t \in Threads, NEW l \in Labels, GoTo(t, l), UNCHANGED <<table, marked, held>>,
         bkl \in {t, None}, bkl' \in {t, None}, ~At(t, "none"), task[t].op = "lock",
         ~At(t, "undo"), l # "none", l \in {"fault", "read"} \/ bkl' = t,
         l = "mark" => Present(Page(t))
  PROVE  IInv'
  <1> USE DEF IInv
  <1>1. /\ task' \in [Threads -> Tasks] /\ Others(t)
        /\ task[t] \in Tasks /\ task'[t] = [task[t] EXCEPT !.at = l]
    BY GoToTask DEF TypeOK
  <1>2. /\ task'[t].at = l
        /\ task'[t].op = "lock" /\ task'[t].buf = task[t].buf
        /\ task'[t].i = task[t].i /\ task'[t].j = task[t].j
    BY <1>1 DEF Tasks
  <1>3. TypeOK'
    BY <1>1, <1>2, TypeKept DEF TypeOK
  <1>4. CallInv'
    BY <1>1, <1>2, CallKept DEF CallInv, CallOk, Claims, At, Buf
  <1>5. OwnInv'
    <2>1. \A u \in Threads : u # t /\ Claims(u) /\ Claims(t)' => Buf(u) # Buf(t)'
      BY <1>2 DEF OwnInv, Claims, At, Buf
    <2>2. QED
      BY <1>1, <2>1, OwnKept
  <1>6. MarkInv'
    BY <1>1, <1>2, MarkKept DEF Page, Present
  <1>7. BusInv'
    BY <1>1, <1>2, BusKept DEF BusOk
  <1>8. Mine(t)' = Mine(t)
    BY <1>2 DEF Mine, Claims, At, Buf
  <1>9. AccountInv'
    BY <1>1, <1>8, LockedKept, AccountKept
  <1>10. QED
    BY <1>3, <1>4, <1>5, <1>6, <1>7, <1>9

\* A page that does not count as locked comes or goes; a thread may leave its page-in.
LEMMA PagingHolds ==
  ASSUME PageAligned, IInv, table' \in [Pages -> Frames \cup {None}], UNCHANGED <<marked, held, bkl>>,
         \A p, q \in Pages : table'[p] # None /\ table'[p] = table'[q] => p = q,
         \A p \in Locked : table'[p] = table[p],
         \A t \in Threads : At(t, "mark") => table'[Page(t)] # None,
         task' \in [Threads -> Tasks],
         \A t \in Threads : \/ task'[t] = task[t]
                            \/ At(t, "fault") /\ task'[t] = [task[t] EXCEPT !.at = "read"]
  PROVE  IInv'
  <1> USE DEF IInv
  <1>1. \A t \in Threads :
          /\ task'[t].op = task[t].op /\ task'[t].buf = task[t].buf
          /\ task'[t].i = task[t].i /\ task'[t].j = task[t].j
          /\ task'[t].sure = task[t].sure /\ task'[t].bus = task[t].bus
          /\ task'[t].at = task[t].at \/ (task[t].at = "fault" /\ task'[t].at = "read")
    <2> TAKE t \in Threads
    <2>1. task[t] \in Tasks
      BY DEF TypeOK
    <2>2. CASE task'[t] = task[t]
      BY <2>2
    <2>3. CASE task[t].at = "fault" /\ task'[t] = [task[t] EXCEPT !.at = "read"]
      BY <2>1, <2>3 DEF Tasks
    <2>4. QED
      BY <2>2, <2>3 DEF At
  <1>2. TypeOK'
    BY <1>1 DEF TypeOK, At, Present
  <1>3. CallInv'
    BY <1>1 DEF CallInv, CallOk, Claims, At, Buf
  <1>4. OwnInv'
    BY <1>1 DEF OwnInv, Claims, At, Buf
  <1>5. MarkInv'
    BY <1>1 DEF MarkInv, Present, Page, At
  <1>6. \A t \in Threads : Mine(t)' = Mine(t)
    BY <1>1 DEF Mine, Claims, At, Buf
  <1>7. Locked' = Locked
    BY <1>6 DEF Locked
  <1>8. AccountInv'
    BY <1>7 DEF AccountInv, Present
  <1>9. BusInv'
    <2> SUFFICES ASSUME NEW t \in Threads, task[t].op = "translate", At(t, "loop"), task[t].sure,
                        NEW k \in 1 .. task[t].i
                 PROVE  table'[PageOf(Buf(t), k - 1)] = table[PageOf(Buf(t), k - 1)]
      BY <1>1 DEF BusInv, BusOk, At, Buf
    <2>1. Buf(t) \in held /\ task[t].i < Items(Buf(t)) /\ task[t].i \in Nat
      BY DEF BusInv, BusOk, CallInv, CallOk, At, TypeOK, Tasks
    <2>2. Items(Buf(t)) \in Nat
      BY <2>1, BufferPages DEF TypeOK
    <2>3. k - 1 \in 0 .. Items(Buf(t)) - 1
      BY <2>1, <2>2
    <2>4. PageOf(Buf(t), k - 1) \in Visited(Buf(t))
      BY <2>3 DEF Visited
    <2>5. PageOf(Buf(t), k - 1) \in Locked
      BY <2>1, <2>4 DEF Locked, Covered
    <2>6. QED
      BY <2>5
  <1>10. QED
    BY <1>2, <1>3, <1>4, <1>5, <1>8, <1>9

\* A page is brought into a free frame.
LEMMA BringIn ==
  ASSUME PageAligned, IInv, NEW p \in Pages, ~Present(p), NEW f \in Frames \ (InUse \cup marked),
         table' = [table EXCEPT ![p] = f], UNCHANGED <<marked, held, bkl>>,
         task' \in [Threads -> Tasks],
         \A t \in Threads : \/ task'[t] = task[t]
                            \/ At(t, "fault") /\ task'[t] = [task[t] EXCEPT !.at = "read"]
  PROVE  IInv'
  <1>1. table' \in [Pages -> Frames \cup {None}]
    BY DEF IInv, TypeOK
  <1>2. \A q \in Pages : q # p => table'[q] = table[q] /\ table'[q] # f
    BY DEF IInv, TypeOK, InUse
  <1>3. table'[p] = f /\ f # None
    BY DEF IInv, TypeOK
  <1>4. \A q, r \in Pages : table'[q] # None /\ table'[q] = table'[r] => q = r
    BY <1>2, <1>3 DEF IInv, TypeOK, Present
  <1>5. \A q \in Locked : table'[q] = table[q]
    BY <1>2 DEF IInv, AccountInv
  <1>6. \A t \in Threads : At(t, "mark") => table'[Page(t)] # None
    <2> SUFFICES ASSUME NEW t \in Threads, At(t, "mark") PROVE table'[Page(t)] # None
      OBVIOUS
    <2>1. table[Page(t)] # None
      BY DEF IInv, MarkInv, Present
    <2>2. QED
      BY <2>1, <1>3 DEF IInv, TypeOK
  <1>7. QED
    BY <1>1, <1>4, <1>5, <1>6, PagingHolds

LEMMA TouchHolds ==
  ASSUME PageAligned, IInv, NEW p \in Pages, Touch(p)
  PROVE  IInv'
  BY BringIn DEF Touch, IInv, TypeOK

LEMMA ReclaimHolds ==
  ASSUME PageAligned, IInv, ~Smp, NEW p \in Pages, Reclaim(p)
  PROVE  IInv'
  <1>1. table' \in [Pages -> Frames \cup {None}]
    BY DEF IInv, TypeOK, Reclaim
  <1>2. \A q \in Pages : table'[q] = IF q = p THEN None ELSE table[q]
    BY DEF IInv, TypeOK, Reclaim
  <1>3. \A q, r \in Pages : table'[q] # None /\ table'[q] = table'[r] => q = r
    BY <1>2 DEF IInv, TypeOK, Present
  <1>4. \A q \in Locked : q \in Pages /\ q # p
    BY DEF IInv, AccountInv, Reclaim
  <1>5. QED
    BY <1>1, <1>2, <1>3, <1>4, PagingHolds DEF Reclaim, Elsewhere, IInv, TypeOK

----------------------------------------------------------------------------
\* A page that becomes locked, and one that stops to be.

LEMMA LockedMore ==
  ASSUME AccountInv, NEW p \in Pages, Present(p), UNCHANGED table,
         Locked' = Locked \cup {p}, marked' = marked \cup {table[p]}
  PROVE  AccountInv'
  BY DEF AccountInv, Present

LEMMA LockedLess ==
  ASSUME AccountInv, TypeOK, NEW p \in Locked, UNCHANGED table,
         Locked' = Locked \ {p}, marked' = marked \ {table[p]}
  PROVE  AccountInv'
  <1>1. \A q \in Locked : q \in Pages /\ Present(q)
    BY DEF AccountInv
  <1>2. \A q \in Locked : table[q] = table[p] => q = p
    BY <1>1 DEF TypeOK
  <1>3. marked' = {table[q] : q \in Locked \ {p}}
    BY <1>2 DEF AccountInv
  <1>4. QED
    BY <1>1, <1>3 DEF AccountInv, Present

\* A page of the buffer a call claims is locked for that call, or not at all.
LEMMA NobodyElse ==
  ASSUME PageAligned, Disjoint, IInv, NEW t \in Threads, Claims(t), Buf(t) \in Buffers,
         NEW k \in 0 .. Items(Buf(t)) - 1
  PROVE  /\ \A b \in held : PageOf(Buf(t), k) \notin Visited(b)
         /\ \A u \in Threads : u # t => PageOf(Buf(t), k) \notin Mine(u)
  <1> USE DEF IInv
  <1>1. Buf(t) \notin held
    BY DEF CallInv, CallOk
  <1>2. ASSUME NEW b \in held, PageOf(Buf(t), k) \in Visited(b) PROVE FALSE
    <2>1. PICK l \in 0 .. Items(b) - 1 : PageOf(Buf(t), k) = PageOf(b, l)
      BY <1>2 DEF Visited
    <2>2. QED
      BY <1>1, <2>1, PagesApart DEF TypeOK
  <1>3. ASSUME NEW u \in Threads, u # t, PageOf(Buf(t), k) \in Mine(u) PROVE FALSE
    <2>1. Claims(u) /\ Buf(u) \in Buffers
      BY <1>3 DEF Mine, Claims, CallInv, CallOk
    <2>2. /\ Items(Buf(u)) \in Nat /\ task[u].i < Items(Buf(u))
          /\ task[u].i \in Nat /\ task[u].j \in Nat
      BY <2>1, BufferPages DEF CallInv, CallOk, Claims, TypeOK, Tasks
    <2>3. PICK l \in 0 .. Items(Buf(u)) - 1 : PageOf(Buf(t), k) = PageOf(Buf(u), l)
      BY <1>3, <2>1, <2>2 DEF Mine
    <2>4. Buf(t) = Buf(u)
      BY <2>1, <2>3, PagesApart
    <2>5. QED
      BY <1>3, <2>1, <2>4 DEF OwnInv
  <1>4. QED
    BY <1>2, <1>3

\* What is known of a call under way.
LEMMA CallFacts ==
  ASSUME PageAligned, IInv, NEW t \in Threads, ~At(t, "none")
  PROVE  /\ task[t] \in Tasks
         /\ Buf(t) \in Buffers
         /\ Items(Buf(t)) \in Nat /\ task[t].i \in Nat /\ task[t].j \in Nat
         /\ task[t].i < Items(Buf(t)) /\ task[t].j <= task[t].i
         /\ Page(t) = PageOf(Buf(t), task[t].i)
         /\ Page(t) \in Pages
  <1>1. task[t] \in Tasks /\ task[t].j <= task[t].i
    BY DEF IInv, TypeOK
  <1>2. Buf(t) \in Buffers /\ task[t].i < Items(Buf(t))
    BY DEF IInv, CallInv, CallOk
  <1>3. Items(Buf(t)) \in Nat /\ task[t].i \in Nat /\ task[t].j \in Nat
    BY <1>1, <1>2, BufferPages DEF Tasks
  <1>4. Page(t) = PageOf(Buf(t), task[t].i)
    BY DEF Page, Buf
  <1>5. Page(t) \in Visited(Buf(t))
    BY <1>2, <1>3, <1>4 DEF Visited
  <1>6. QED
    BY <1>1, <1>2, <1>3, <1>4, <1>5, BufferPages

LEMMA AdvanceTask ==
  ASSUME task \in [Threads -> Tasks], NEW t \in Threads, Advance(t, "loop"),
         task[t].i + 1 < Items(task[t].buf)
  PROVE  /\ task' \in [Threads -> Tasks]
         /\ task'[t] = [task[t] EXCEPT !.at = "loop", !.i = task[t].i + 1]
         /\ Others(t) /\ UNCHANGED bkl
  <1> DEFINE r == [task[t] EXCEPT !.at = "loop", !.i = task[t].i + 1]
  <1>1. task[t] \in Tasks /\ task[t].i + 1 \in Nat
    BY DEF Tasks
  <1>2. r \in Tasks
    BY <1>1 DEF Tasks
  <1>3. task' = [task EXCEPT ![t] = r] /\ UNCHANGED bkl
    BY DEF Advance
  <1> HIDE DEF r
  <1>4. task' \in [Threads -> Tasks] /\ task'[t] = r /\ Others(t)
    BY <1>2, <1>3 DEF Others
  <1>5. QED
    BY <1>3, <1>4 DEF r

LEMMA LockMarkHolds ==
  ASSUME PageAligned, Disjoint, IInv, NEW t \in Threads, LockMark(t)
  PROVE  IInv'
  <1> USE DEF IInv
  <1>1. /\ task[t].op = "lock" /\ At(t, "mark") /\ bkl = t
        /\ Advance(t, "loop") /\ UNCHANGED table
        /\ held' = IF task'[t].at = "none" THEN held \cup {task[t].buf} ELSE held
    BY DEF LockMark, Runs
  <1>2. Claims(t) /\ Present(Page(t)) /\ task[t].j = 0
    BY <1>1 DEF Claims, At, MarkInv, CallInv, CallOk
  <1> DEFINE i == task[t].i
             b == Buf(t)
  <1>3. /\ task[t] \in Tasks /\ b \in Buffers /\ Items(b) \in Nat /\ i \in Nat
        /\ i < Items(b) /\ Page(t) = PageOf(b, i) /\ Page(t) \in Pages
    BY <1>1, CallFacts DEF At
  <1>4. marked' = marked \cup {table[Page(t)]}
    BY <1>2 DEF LockMark, Address
  <1>5. marked' \subseteq Frames \cup {Wild}
    BY <1>2, <1>3, <1>4 DEF TypeOK, Present
  <1>6. Mine(t) = {PageOf(b, k) : k \in 0 .. i - 1}
    BY <1>1, <1>2 DEF Mine
  <1>7. CASE i + 1 < Items(b)
    <2>1. /\ task' \in [Threads -> Tasks] /\ Others(t) /\ UNCHANGED bkl
          /\ task'[t] = [task[t] EXCEPT !.at = "loop", !.i = i + 1]
      BY <1>1, <1>7, AdvanceTask DEF TypeOK, Buf
    <2>2. /\ task'[t].at = "loop" /\ task'[t].op = "lock" /\ task'[t].buf = b
          /\ task'[t].i = i + 1 /\ task'[t].j = 0
      BY <1>1, <1>2, <1>3, <2>1 DEF Tasks, Buf
    <2>3. UNCHANGED held
      BY <1>1, <2>2
    <2>4. TypeOK'
      <3>1. held' \subseteq Buffers /\ task'[t].j <= task'[t].i /\ bkl' = t
        BY <1>1, <1>3, <2>1, <2>2, <2>3 DEF TypeOK
      <3>2. QED
        BY <1>1, <1>5, <2>1, <3>1, TypeKept
    <2>5. CallInv'
      <3>1. CallOk(t)'
        BY <1>2, <1>3, <1>7, <2>2, <2>3 DEF CallInv, CallOk, Claims, At, Buf
      <3>2. \A u \in Threads : u # t /\ Claims(u) => Buf(u) \notin held'
        BY <2>3 DEF CallInv, CallOk
      <3>3. QED
        BY <2>1, <3>1, <3>2, CallKept
    <2>6. OwnInv'
      <3>1. \A u \in Threads : u # t /\ Claims(u) /\ Claims(t)' => Buf(u) # Buf(t)'
        BY <1>2, <2>2 DEF OwnInv, Buf
      <3>2. QED
        BY <2>1, <3>1, OwnKept
    <2>7. MarkInv'
      BY <1>1, <2>1, <2>2, MarkKept
    <2>8. BusInv'
      <3>1. BusOk(t)'
        BY <2>2 DEF BusOk
      <3>2. QED
        BY <1>1, <2>1, <2>3, <3>1, BusKept
    <2>9. Mine(t)' = Mine(t) \cup {Page(t)}
      <3>1. Mine(t)' = {PageOf(b, k) : k \in 0 .. (i + 1) - 1}
        BY <2>2 DEF Mine, Claims, At, Buf
      <3>2. 0 .. (i + 1) - 1 = (0 .. i - 1) \cup {i}
        BY <1>3
      <3>3. QED
        BY <1>3, <1>6, <3>1, <3>2
    <2>10. Locked' = Locked \cup {Page(t)}
      <3>1. Locked = Covered(held) \cup Mine(t) \cup MineElsewhere(t)
        BY <2>1, LockedSplit
      <3>2. Locked' = Covered(held) \cup Mine(t)' \cup MineElsewhere(t)
        BY <2>1, <2>3, LockedSplit
      <3>3. QED
        BY <2>9, <3>1, <3>2
    <2>11. AccountInv'
      BY <1>1, <1>2, <1>3, <1>4, <2>10, LockedMore
    <2>12. QED
      BY <2>4, <2>5, <2>6, <2>7, <2>8, <2>11
  <1>8. CASE ~(i + 1 < Items(b))
    <2>1. Return(t, TRUE)
      BY <1>1, <1>8 DEF Advance, Buf
    <2>2. /\ task' \in [Threads -> Tasks] /\ Others(t) /\ bkl' = None
          /\ task'[t] = [task[t] EXCEPT !.at = "none", !.i = 0, !.j = 0, !.ok = TRUE]
      BY <2>1, ReturnTask DEF TypeOK, Return
    <2>3. task'[t].at = "none" /\ task'[t].i = 0 /\ task'[t].j = 0 /\ task'[t].op = "lock"
      BY <1>1, <1>3, <2>2 DEF Tasks
    <2>4. held' = held \cup {b}
      BY <1>1, <2>3 DEF Buf
    <2>5. TypeOK'
      <3>1. held' \subseteq Buffers /\ task'[t].j <= task'[t].i
        BY <1>3, <2>3, <2>4 DEF TypeOK
      <3>2. QED
        BY <1>1, <1>5, <2>2, <2>3, <3>1, TypeKept
    <2>6. CallInv'
      <3>1. CallOk(t)'
        BY <2>3 DEF CallOk, Claims, At
      <3>2. \A u \in Threads : u # t /\ Claims(u) => Buf(u) \notin held'
        BY <1>2, <2>4 DEF CallInv, CallOk, OwnInv
      <3>3. QED
        BY <2>2, <3>1, <3>2, CallKept
    <2>7. OwnInv'
      <3>1. ~Claims(t)'
        BY <2>3 DEF Claims, At
      <3>2. QED
        BY <2>2, <3>1, OwnKept
    <2>8. MarkInv'
      BY <1>1, <2>2, <2>3, MarkKept
    <2>9. BusInv'
      <3>1. BusOk(t)'
        BY <2>3 DEF BusOk
      <3>2. QED
        BY <1>1, <2>2, <2>4, <3>1, BusKept
    <2>10. Visited(b) = Mine(t) \cup {Page(t)}
      <3>1. 0 .. Items(b) - 1 = (0 .. i - 1) \cup {i}
        BY <1>3, <1>8
      <3>2. QED
        BY <1>3, <1>6, <3>1 DEF Visited
    <2>11. Mine(t)' = {}
      BY <2>3 DEF Mine, Claims, At
    <2>12. Locked' = Locked \cup {Page(t)}
      <3>1. Locked = Covered(held) \cup Mine(t) \cup MineElsewhere(t)
        BY <2>2, LockedSplit
      <3>2. Locked' = Covered(held \cup {b}) \cup Mine(t)' \cup MineElsewhere(t)
        BY <2>2, <2>4, LockedSplit
      <3>3. Locked' = Covered(held) \cup Visited(b) \cup Mine(t)' \cup MineElsewhere(t)
        BY <3>2, CoveredMore
      <3>4. QED
        BY <2>10, <2>11, <3>1, <3>3
    <2>13. AccountInv'
      BY <1>1, <1>2, <1>3, <1>4, <2>12, LockedMore
    <2>14. QED
      BY <2>5, <2>6, <2>7, <2>8, <2>9, <2>13
  <1>9. QED
    BY <1>7, <1>8

\* A call ends or goes on, one page fewer on its account.
LEMMA PageGivenBack ==
  ASSUME PageAligned, Disjoint, IInv, NEW t \in Threads, Claims(t), bkl = t,
         NEW k \in 0 .. Items(Buf(t)) - 1, PageOf(Buf(t), k) \in Mine(t),
         task' \in [Threads -> Tasks], Others(t), UNCHANGED <<table, held>>,
         bkl' \in {t, None}, task'[t].at \in {"none", "fault", "read"} \/ bkl' = t,
         task'[t].j <= task'[t].i, CallOk(t)', task'[t].at # "mark",
         Claims(t)' => Buf(t)' = Buf(t), task'[t].op # "translate",
         Mine(t)' = Mine(t) \ {PageOf(Buf(t), k)},
         marked' = marked \ {table[PageOf(Buf(t), k)]}
  PROVE  IInv'
  <1> USE DEF IInv
  <1> DEFINE p == PageOf(Buf(t), k)
  <1>1. TypeOK'
    <2>1. held' \subseteq Buffers /\ marked' \subseteq Frames \cup {Wild} /\ bkl \in {t, None}
      BY DEF TypeOK
    <2>2. QED
      BY <2>1, TypeKept
  <1>2. CallInv'
    <2>1. \A u \in Threads : u # t /\ Claims(u) => Buf(u) \notin held'
      BY DEF CallInv, CallOk
    <2>2. QED
      BY <2>1, CallKept
  <1>3. OwnInv'
    <2>1. \A u \in Threads : u # t /\ Claims(u) /\ Claims(t)' => Buf(u) # Buf(t)'
      BY DEF OwnInv
    <2>2. QED
      BY <2>1, OwnKept
  <1>4. MarkInv'
    BY MarkKept
  <1>5. BusInv'
    <2>1. BusOk(t)'
      BY DEF BusOk
    <2>2. QED
      BY <2>1, BusKept
  <1>6. p \notin Covered(held) /\ p \notin MineElsewhere(t)
    <2>1. Buf(t) \in Buffers
      BY DEF CallInv, CallOk, Claims
    <2>2. /\ \A b \in held : p \notin Visited(b)
          /\ \A u \in Threads : u # t => p \notin Mine(u)
      BY <2>1, NobodyElse
    <2>3. QED
      BY <2>2 DEF Covered, MineElsewhere
  <1>7. Locked' = Locked \ {p} /\ p \in Locked
    <2>1. Locked = Covered(held) \cup Mine(t) \cup MineElsewhere(t)
      BY LockedSplit
    <2>2. Locked' = Covered(held) \cup Mine(t)' \cup MineElsewhere(t)
      BY LockedSplit
    <2> HIDE DEF p
    <2>3. Mine(t)' = Mine(t) \ {p} /\ p \in Mine(t)
      BY DEF p
    <2>4. QED
      BY <1>6, <2>1, <2>2, <2>3
  <1>8. AccountInv'
    BY <1>7, LockedLess
  <1>9. QED
    BY <1>1, <1>2, <1>3, <1>4, <1>5, <1>8

\* A call that has nothing on its account ends.
LEMMA CallEnds ==
  ASSUME IInv, NEW t \in Threads, NEW ok \in BOOLEAN, Return(t, ok), bkl = t,
         UNCHANGED <<table, marked, held>>, Mine(t) = {}
  PROVE  IInv'
  <1> USE DEF IInv
  <1>1. /\ task' \in [Threads -> Tasks] /\ Others(t) /\ bkl' = None
        /\ task'[t] = [task[t] EXCEPT !.at = "none", !.i = 0, !.j = 0, !.ok = ok]
    BY ReturnTask DEF TypeOK, Return
  <1>2. task'[t].at = "none" /\ task'[t].i = 0 /\ task'[t].j = 0
    BY <1>1 DEF TypeOK, Tasks
  <1>3. TypeOK'
    <2>1. held' \subseteq Buffers /\ marked' \subseteq Frames \cup {Wild} /\ bkl \in {t, None}
      BY DEF TypeOK
    <2>2. task'[t].j <= task'[t].i
      BY <1>2
    <2>3. QED
      BY <1>1, <1>2, <2>1, <2>2, TypeKept
  <1>4. ~Claims(t)' /\ CallOk(t)' /\ BusOk(t)'
    BY <1>2 DEF Claims, CallOk, BusOk, At
  <1>5. CallInv'
    BY <1>1, <1>4, CallKept DEF CallInv, CallOk
  <1>6. OwnInv'
    BY <1>1, <1>4, OwnKept
  <1>7. MarkInv'
    BY <1>1, <1>2, MarkKept
  <1>8. BusInv'
    BY <1>1, <1>4, BusKept
  <1>9. Mine(t)' = Mine(t)
    BY <1>4 DEF Mine
  <1>10. AccountInv'
    BY <1>1, <1>9, LockedKept, AccountKept
  <1>11. QED
    BY <1>3, <1>5, <1>6, <1>7, <1>8, <1>10

LEMMA LockUndoHolds ==
  ASSUME PageAligned, Disjoint, IInv, NEW t \in Threads, LockUndo(t)
  PROVE  IInv'
  <1> DEFINE i == task[t].i
             j == task[t].j
             b == Buf(t)
  <1>1. /\ task[t].op = "lock" /\ At(t, "undo") /\ bkl = t /\ Claims(t)
        /\ UNCHANGED <<table, held>>
    BY DEF LockUndo, Runs, Claims, At
  <1>2. /\ task[t] \in Tasks /\ b \in Buffers /\ Items(b) \in Nat /\ i \in Nat /\ j \in Nat
        /\ i < Items(b) /\ j <= i
    BY <1>1, CallFacts DEF At
  <1>3. Mine(t) = {PageOf(b, k) : k \in j .. i - 1}
    BY <1>1 DEF Mine
  <1>4. CASE j = i
    <2>1. Mine(t) = {}
      BY <1>2, <1>3, <1>4
    <2>2. Return(t, FALSE) /\ UNCHANGED marked
      BY <1>4 DEF LockUndo
    <2>3. QED
      BY <1>1, <2>1, <2>2, CallEnds
  <1>5. CASE j # i
    <2> DEFINE r == [task[t] EXCEPT !.j = j + 1]
    <2>1. /\ marked' = marked \ {table[PageOf(b, j)]}
          /\ task' = [task EXCEPT ![t] = r] /\ UNCHANGED bkl
      BY <1>5 DEF LockUndo, Buf
    <2>2. r \in Tasks /\ r.op = "lock" /\ r.at = "undo" /\ r.buf = b /\ r.i = i /\ r.j = j + 1
      BY <1>1, <1>2, SMTT(20) DEF Tasks, At, Buf
    <2> HIDE DEF r
    <2>3. task' \in [Threads -> Tasks] /\ task'[t] = r /\ Others(t)
      BY <2>1, <2>2 DEF IInv, TypeOK, Others
    <2>4. j \in 0 .. Items(b) - 1 /\ PageOf(b, j) \in Mine(t)
      BY <1>2, <1>3, <1>5
    <2>5. Mine(t)' = Mine(t) \ {PageOf(b, j)}
      <3>1. Mine(t)' = {PageOf(b, k) : k \in j + 1 .. i - 1}
        BY <2>2, <2>3 DEF Mine, Claims, At, Buf
      <3>2. \A k \in j + 1 .. i - 1 : PageOf(b, k) # PageOf(b, j)
        BY <1>2, <2>4, PagesApart
      <3>3. j .. i - 1 = {j} \cup (j + 1 .. i - 1)
        BY <1>2, <1>5
      <3>4. QED
        BY <1>3, <3>1, <3>2, <3>3
    <2>6. CallOk(t)'
      BY <1>1, <1>2, <2>2, <2>3 DEF IInv, CallInv, CallOk, Claims, At, Buf
    <2>7. /\ bkl' = t /\ task'[t].j <= task'[t].i /\ task'[t].at # "mark"
          /\ task'[t].op # "translate" /\ Buf(t)' = Buf(t)
      BY <1>1, <1>2, <1>5, <2>1, <2>2, <2>3 DEF Buf
    <2>8. QED
      BY <1>1, <2>1, <2>3, <2>4, <2>5, <2>6, <2>7, PageGivenBack
  <1>6. QED
    BY <1>4, <1>5

LEMMA UnlockPageHolds ==
  ASSUME PageAligned, Disjoint, IInv, NEW t \in Threads, UnlockPage(t)
  PROVE  IInv'
  <1> DEFINE i == task[t].i
             b == Buf(t)
  <1>1. /\ task[t].op = "unlock" /\ At(t, "loop") /\ bkl = t /\ Claims(t) /\ task[t].j = 0
        /\ UNCHANGED <<table, held>>
    BY DEF UnlockPage, Runs, Claims, At, IInv, CallInv, CallOk
  <1>2. /\ task[t] \in Tasks /\ b \in Buffers /\ Items(b) \in Nat /\ i \in Nat
        /\ i < Items(b) /\ Page(t) = PageOf(b, i)
    BY <1>1, CallFacts DEF At
  <1>3. Mine(t) = {PageOf(b, k) : k \in i .. Items(b) - 1}
    BY <1>1 DEF Mine
  <1>4. i \in 0 .. Items(b) - 1 /\ PageOf(b, i) \in Mine(t)
    BY <1>2, <1>3
  <1>5. Present(Page(t))
    BY <1>2, <1>4 DEF IInv, AccountInv, Locked
  <1>6. Advance(t, "loop") /\ marked' = marked \ {table[PageOf(b, i)]}
    BY <1>2, <1>5 DEF UnlockPage
  <1>7. i .. Items(b) - 1 = {i} \cup (i + 1 .. Items(b) - 1)
    BY <1>2
  <1>8. \A k \in i + 1 .. Items(b) - 1 : PageOf(b, k) # PageOf(b, i)
    BY <1>2, <1>4, PagesApart
  <1>9. CASE i + 1 < Items(b)
    <2>1. /\ task' \in [Threads -> Tasks] /\ Others(t) /\ UNCHANGED bkl
          /\ task'[t] = [task[t] EXCEPT !.at = "loop", !.i = i + 1]
      BY <1>6, <1>9, AdvanceTask DEF IInv, TypeOK, Buf
    <2>2. /\ task'[t].at = "loop" /\ task'[t].op = "unlock" /\ task'[t].buf = b
          /\ task'[t].i = i + 1 /\ task'[t].j = 0
      BY <1>1, <1>2, <2>1 DEF Tasks, Buf
    <2>3. Mine(t)' = Mine(t) \ {PageOf(b, i)}
      <3>1. Mine(t)' = {PageOf(b, k) : k \in i + 1 .. Items(b) - 1}
        BY <2>2 DEF Mine, Claims, At, Buf
      <3>2. QED
        BY <1>3, <1>7, <1>8, <3>1
    <2>4. CallOk(t)'
      BY <1>1, <1>2, <1>9, <2>2 DEF IInv, CallInv, CallOk, Claims, At, Buf
    <2>5. /\ bkl' = t /\ task'[t].j <= task'[t].i /\ task'[t].at # "mark"
          /\ task'[t].op # "translate" /\ Buf(t)' = Buf(t)
      BY <1>1, <1>2, <2>1, <2>2 DEF Buf
    <2>6. QED
      BY <1>1, <1>4, <1>6, <2>1, <2>3, <2>4, <2>5, PageGivenBack
  <1>10. CASE ~(i + 1 < Items(b))
    <2>1. Return(t, TRUE)
      BY <1>6, <1>10 DEF Advance, Buf
    <2>2. /\ task' \in [Threads -> Tasks] /\ Others(t) /\ bkl' = None
          /\ task'[t] = [task[t] EXCEPT !.at = "none", !.i = 0, !.j = 0, !.ok = TRUE]
      BY <2>1, ReturnTask DEF IInv, TypeOK, Return
    <2>3. /\ task'[t].at = "none" /\ task'[t].op = "unlock" /\ task'[t].buf = b
          /\ task'[t].i = 0 /\ task'[t].j = 0
      BY <1>1, <1>2, <2>2 DEF Tasks, Buf
    <2>4. Mine(t)' = Mine(t) \ {PageOf(b, i)}
      <3>1. Mine(t)' = {}
        BY <2>3 DEF Mine, Claims, At
      <3>2. i + 1 .. Items(b) - 1 = {}
        BY <1>2, <1>10
      <3>3. QED
        BY <1>3, <1>7, <3>1, <3>2
    <2>5. CallOk(t)' /\ ~Claims(t)'
      BY <2>3 DEF CallOk, Claims, At
    <2>6. /\ task'[t].j <= task'[t].i /\ task'[t].at # "mark" /\ task'[t].op # "translate"
      BY <2>3
    <2>7. QED
      BY <1>1, <1>4, <1>6, <2>2, <2>3, <2>4, <2>5, <2>6, PageGivenBack
  <1>11. QED
    BY <1>9, <1>10

BusLists == Seq(Frames \cup {Wild})

Translated(x, bus, n, l, ok) == [x EXCEPT !.bus = bus, !.i = n, !.at = l, !.ok = ok]

Entered(op, b, sure) == [NoTask EXCEPT !.op = op, !.buf = b, !.at = "loop", !.sure = sure]

LEMMA TranslatedTask ==
  ASSUME NEW x \in Tasks, NEW bus \in BusLists, NEW n \in Nat, NEW l \in Labels,
         NEW ok \in BOOLEAN
  PROVE  LET r == Translated(x, bus, n, l, ok)
         IN  /\ r \in Tasks
             /\ r.op = x.op /\ r.buf = x.buf /\ r.j = x.j /\ r.sure = x.sure
             /\ r.i = n /\ r.at = l /\ r.bus = bus
  BY DEF Translated, Tasks, Labels, BusLists

LEMMA EnteredTask ==
  ASSUME NEW op \in {"lock", "unlock", "translate"}, NEW b \in Buffers, NEW sure \in BOOLEAN
  PROVE  LET r == Entered(op, b, sure)
         IN  /\ r \in Tasks
             /\ r.op = op /\ r.buf = b /\ r.at = "loop" /\ r.i = 0 /\ r.j = 0
             /\ r.sure = sure /\ r.bus = <<>>
  <1>1. NoTask \in Tasks
    BY DEF NoTask, Tasks
  <1>2. /\ NoTask.i = 0 /\ NoTask.j = 0 /\ NoTask.bus = <<>>
    BY DEF NoTask
  <1>3. QED
    BY <1>1, <1>2 DEF Entered, Tasks

\* A page is translated; the list grows, and the call goes on or ends.
LEMMA TranslatePageHolds ==
  ASSUME PageAligned, Disjoint, IInv, NEW t \in Threads, TranslatePage(t)
  PROVE  IInv'
  <1> DEFINE i    == task[t].i
             more == task[t].i + 1 < Items(task[t].buf)
             bus  == Append(task[t].bus, Address(Page(t)))
             r    == [task[t] EXCEPT !.bus = bus,
                                     !.i   = IF more THEN i + 1 ELSE 0,
                                     !.at  = IF more THEN "loop" ELSE "none",
                                     !.ok  = ~more]
  <1>1. /\ task[t].op = "translate" /\ At(t, "loop") /\ bkl = t /\ task[t].j = 0
        /\ ~Claims(t) /\ UNCHANGED <<table, marked, held>>
        /\ bkl' = IF more THEN t ELSE None
    BY DEF TranslatePage, Runs, Claims, At, IInv, CallInv, CallOk
  <1>2. task' = [task EXCEPT ![t] = r]
    BY DEF TranslatePage
  <1>3. /\ task[t] \in Tasks /\ Buf(t) \in Buffers /\ Items(Buf(t)) \in Nat /\ i \in Nat
        /\ i < Items(Buf(t)) /\ Page(t) = PageOf(Buf(t), i) /\ Page(t) \in Pages
    BY <1>1, CallFacts DEF At
  <1>4. bus \in Seq(Frames \cup {Wild})
    <2>1. Address(Page(t)) \in Frames \cup {Wild}
      BY <1>3 DEF Address, Present, IInv, TypeOK
    <2>2. task[t].bus \in Seq(Frames \cup {Wild})
      BY <1>3 DEF Tasks
    <2>3. QED
      BY <2>1, <2>2
  <1>5. /\ r \in Tasks
        /\ r.op = "translate" /\ r.buf = task[t].buf /\ r.j = 0 /\ r.sure = task[t].sure
        /\ r.i = (IF more THEN i + 1 ELSE 0) /\ r.at = (IF more THEN "loop" ELSE "none")
        /\ r.bus = bus
    <2> DEFINE n  == IF more THEN i + 1 ELSE 0
               l  == IF more THEN "loop" ELSE "none"
               ok == ~more
               x  == task[t]
    <2>1. x \in Tasks /\ bus \in BusLists /\ n \in Nat /\ l \in Labels /\ ok \in BOOLEAN
      BY <1>3, <1>4 DEF Labels, BusLists
    <2>2. r = Translated(x, bus, n, l, ok)
      BY DEF Translated
    <2> HIDE DEF bus, n, l, ok, r, x
    <2>3. /\ r \in Tasks
          /\ r.op = x.op /\ r.buf = x.buf /\ r.j = x.j /\ r.sure = x.sure
          /\ r.i = n /\ r.at = l /\ r.bus = bus
      <3> DEFINE y == Translated(x, bus, n, l, ok)
      <3>1. /\ y \in Tasks
            /\ y.op = x.op /\ y.buf = x.buf /\ y.j = x.j /\ y.sure = x.sure
            /\ y.i = n /\ y.at = l /\ y.bus = bus
        BY ONLY <2>1, TranslatedTask
      <3>2. r = y
        BY <2>2
      <3> HIDE DEF y
      <3>3. QED
        BY ONLY <3>1, <3>2
    <2>4. QED
      BY <1>1, <2>3 DEF n, l, x
  <1> HIDE DEF r
  <1>6. task' \in [Threads -> Tasks] /\ task'[t] = r /\ Others(t)
    BY <1>2, <1>5 DEF IInv, TypeOK, Others
  <1>7. TypeOK'
    <2>1. held' \subseteq Buffers /\ marked' \subseteq Frames \cup {Wild}
      BY <1>1 DEF IInv, TypeOK
    <2>2. task'[t].j <= task'[t].i /\ (task'[t].at \in {"none", "fault", "read"} \/ bkl' = t)
      BY <1>1, <1>3, <1>5, <1>6
    <2>3. QED
      BY <1>1, <1>6, <2>1, <2>2, TypeKept DEF IInv
  <1>8. ~Claims(t)' /\ CallOk(t)'
    BY <1>1, <1>3, <1>5, <1>6 DEF Claims, CallOk, At, Buf
  <1>9. CallInv' /\ OwnInv'
    <2>1. \A u \in Threads : u # t /\ Claims(u) => Buf(u) \notin held'
      BY <1>1 DEF IInv, CallInv, CallOk
    <2>2. QED
      BY <1>6, <1>8, <2>1, CallKept, OwnKept DEF IInv
  <1>10. MarkInv'
    <2>1. task'[t].at # "mark"
      BY <1>5, <1>6
    <2>2. QED
      BY <1>1, <1>6, <2>1, MarkKept DEF IInv
  <1>11. BusInv'
    <2>1. BusOk(t)'
      <3> SUFFICES ASSUME r.sure, r.at = "loop"
                   PROVE  /\ Buf(t) \in held /\ Len(r.bus) = r.i
                          /\ \A k \in 1 .. r.i : r.bus[k] = table[PageOf(Buf(t), k - 1)]
        <4>1. task'[t].sure = r.sure /\ task'[t].at = r.at /\ task'[t].bus = r.bus /\ task'[t].i = r.i
          BY <1>6
        <4>2. Buf(t)' = Buf(t) /\ held' = held /\ table' = table
          BY <1>1, <1>5, <1>6 DEF Buf
        <4>3. BusOk(t)' <=>
                (task'[t].op = "translate" /\ task'[t].at = "loop" /\ task'[t].sure =>
                   /\ Buf(t)' \in held'
                   /\ Len(task'[t].bus) = task'[t].i
                   /\ \A k \in 1 .. task'[t].i : task'[t].bus[k] = table'[PageOf(Buf(t)', k - 1)])
          BY DEF BusOk, At
        <4>4. QED
          BY <4>1, <4>2, <4>3
      <3>1. /\ Buf(t) \in held /\ Len(task[t].bus) = i
            /\ \A k \in 1 .. i : task[t].bus[k] = table[PageOf(Buf(t), k - 1)]
        BY <1>1, <1>5 DEF IInv, BusInv, BusOk
      <3>2. r.i = i + 1
        BY <1>5
      <3>3. Page(t) \in Locked
        BY <1>3, <3>1 DEF Locked, Covered, Visited
      <3>4. Address(Page(t)) = table[PageOf(Buf(t), i)]
        BY <1>3, <3>3 DEF IInv, AccountInv, Address
      <3>5. task[t].bus \in Seq(Frames \cup {Wild})
        BY <1>3 DEF Tasks
      <3> DEFINE s == task[t].bus
                 a == Address(Page(t))
      <3>6. Len(Append(s, a)) = i + 1 /\ Append(s, a)[i + 1] = a
        BY <3>1, <3>5
      <3>7. \A k \in 1 .. i : Append(s, a)[k] = s[k]
        BY <3>1, <3>5
      <3>8. \A k \in 1 .. i + 1 : Append(s, a)[k] = table[PageOf(Buf(t), k - 1)]
        <4> TAKE k \in 1 .. i + 1
        <4>1. CASE k = i + 1
          <5>1. k - 1 = i
            BY <1>3, <4>1
          <5>2. QED
            BY <3>4, <3>6, <4>1, <5>1
        <4>2. CASE k # i + 1
          <5>1. k \in 1 .. i
            BY <1>3, <4>2
          <5>2. QED
            BY <3>1, <3>7, <5>1
        <4>3. QED
          BY <4>1, <4>2
      <3>9. QED
        BY <1>5, <3>1, <3>2, <3>6, <3>8
    <2>2. QED
      BY <1>1, <1>6, <2>1, BusKept DEF IInv
  <1>12. AccountInv'
    <2>1. Mine(t)' = Mine(t)
      BY <1>1, <1>8 DEF Mine
    <2>2. QED
      BY <1>1, <1>6, <2>1, LockedKept, AccountKept DEF IInv
  <1>13. QED
    BY <1>7, <1>9, <1>10, <1>11, <1>12 DEF IInv

\* An ioctl is entered, and its buffer, if it was locked and is to be unlocked, given up.
LEMMA EnterHolds ==
  ASSUME PageAligned, Disjoint, IInv, NEW t \in Threads, NEW op \in {"lock", "unlock", "translate"},
         NEW b \in Buffers, Enter(t, op, b),
         op = "lock" => b \notin held /\ ~Busy(b) /\ UNCHANGED held,
         op = "unlock" => b \in held /\ ~Busy(b) /\ held' = held \ {b},
         op = "translate" => UNCHANGED held
  PROVE  IInv'
  <1> DEFINE r == [NoTask EXCEPT !.op = op, !.buf = b, !.at = "loop", !.sure = b \in held]
  <1>1. /\ r \in Tasks
        /\ r.op = op /\ r.buf = b /\ r.at = "loop" /\ r.i = 0 /\ r.j = 0
        /\ r.sure = (b \in held) /\ r.bus = <<>>
    <2> DEFINE sure == b \in held
    <2>1. sure \in BOOLEAN /\ r = Entered(op, b, sure)
      BY DEF Entered
    <2> HIDE DEF sure, r
    <2>2. /\ r \in Tasks
          /\ r.op = op /\ r.buf = b /\ r.at = "loop" /\ r.i = 0 /\ r.j = 0
          /\ r.sure = sure /\ r.bus = <<>>
      BY <2>1, EnteredTask
    <2>3. QED
      BY <2>2 DEF sure
  <1>2. task' = [task EXCEPT ![t] = r] /\ At(t, "none") /\ bkl = None /\ bkl' = t
        /\ UNCHANGED <<table, marked>>
    BY DEF Enter, Idle
  <1> HIDE DEF r
  <1>3. task' \in [Threads -> Tasks] /\ task'[t] = r /\ Others(t)
    BY <1>1, <1>2 DEF IInv, TypeOK, Others
  <1>4. held' \subseteq held /\ held \subseteq Buffers /\ Items(b) \in Nat \ {0}
    BY BufferPages DEF IInv, TypeOK
  <1>5. TypeOK'
    <2>1. marked' \subseteq Frames \cup {Wild}
      BY <1>2 DEF IInv, TypeOK
    <2>2. QED
      BY <1>1, <1>2, <1>3, <1>4, <2>1, TypeKept DEF IInv
  <1>6. op # "translate" => b \notin held'
    OBVIOUS
  <1>7. CallInv'
    <2>1. CallOk(t)'
      BY <1>1, <1>3, <1>4, <1>6 DEF CallOk, Claims, At, Buf
    <2>2. \A u \in Threads : u # t /\ Claims(u) => Buf(u) \notin held'
      BY <1>4 DEF IInv, CallInv, CallOk
    <2>3. QED
      BY <1>3, <2>1, <2>2, CallKept DEF IInv
  <1>8. OwnInv'
    <2>1. ASSUME NEW u \in Threads, u # t, Claims(u), Claims(t)' PROVE Buf(u) # Buf(t)'
      BY <1>1, <1>3, <2>1 DEF Claims, At, Buf, Busy, Idle
    <2>2. QED
      BY <1>3, <2>1, OwnKept DEF IInv
  <1>9. MarkInv'
    BY <1>1, <1>2, <1>3, MarkKept DEF IInv
  <1>10. BusInv'
    <2>1. BusOk(t)'
      <3>1. /\ task'[t].op = op /\ task'[t].sure = (b \in held) /\ task'[t].i = 0
            /\ task'[t].bus = <<>> /\ task'[t].buf = b
        BY <1>1, <1>3
      <3>2. op = "translate" /\ (b \in held) => b \in held'
        OBVIOUS
      <3>3. Len(<<>>) = 0 /\ 1 .. 0 = {}
        OBVIOUS
      <3>4. QED
        BY <3>1, <3>2, <3>3 DEF BusOk, Buf
    <2>2. \A u \in Threads : u # t /\ ~At(u, "none") /\ Buf(u) \in held => Buf(u) \in held'
      BY DEF Busy, Idle, Buf
    <2>3. QED
      BY <1>2, <1>3, <2>1, <2>2, BusKept DEF IInv
  <1>11. Locked' = Locked
    <2>1. Mine(t) = {}
      BY <1>2 DEF Mine, Claims
    <2>2. Locked = Covered(held) \cup MineElsewhere(t)
      BY <1>3, <2>1, LockedSplit
    <2>3. Locked' = Covered(held') \cup Mine(t)' \cup MineElsewhere(t)
      BY <1>3, LockedSplit
    <2>4. CASE op = "lock"
      <3>1. Mine(t)' = {PageOf(b, k) : k \in 0 .. -1}
        BY <1>1, <1>3, <2>4 DEF Mine, Claims, At, Buf
      <3>2. Mine(t)' = {}
        BY <3>1
      <3>3. QED
        BY <2>2, <2>3, <2>4, <3>2
    <2>5. CASE op = "unlock"
      <3>1. Mine(t)' = Visited(b)
        BY <1>1, <1>3, <2>5 DEF Mine, Claims, At, Buf, Visited
      <3>2. held = held' \cup {b}
        BY <2>5
      <3>3. Covered(held) = Covered(held') \cup Visited(b)
        BY <3>2, CoveredMore
      <3>4. QED
        BY <2>2, <2>3, <3>1, <3>3
    <2>6. CASE op = "translate"
      <3>1. Mine(t)' = {}
        BY <1>1, <1>3, <2>6 DEF Mine, Claims
      <3>2. QED
        BY <2>2, <2>3, <2>6, <3>1
    <2>7. QED
      BY <2>4, <2>5, <2>6
  <1>12. AccountInv'
    BY <1>2, <1>11, AccountKept DEF IInv
  <1>13. QED
    BY <1>5, <1>7, <1>8, <1>9, <1>10, <1>12 DEF IInv

----------------------------------------------------------------------------
\* The steps of a call that is under way.
LEMMA StepHolds ==
  ASSUME PageAligned, Disjoint, IInv, NEW t \in Threads, Step(t)
  PROVE  IInv'
  <1>1. CASE LockPresent(t)
    BY <1>1, MoveHolds DEF LockPresent, Runs, At, Labels
  <1>2. CASE LockAbsent(t)
    BY <1>2, MoveHolds DEF LockAbsent, Runs, At, Labels
  <1>3. CASE LockRefused(t)
    BY <1>3, MoveHolds DEF LockRefused, Runs, At, Labels
  <1>4. CASE PageIn(t)
    <2>1. GoTo(t, "read") /\ At(t, "fault") /\ UNCHANGED <<marked, bkl, held>>
      BY <1>4 DEF PageIn
    <2>2. /\ task' \in [Threads -> Tasks] /\ Others(t)
          /\ task'[t] = [task[t] EXCEPT !.at = "read"]
      BY <2>1, GoToTask DEF IInv, TypeOK, Labels
    <2>3. \A u \in Threads : \/ task'[u] = task[u]
                             \/ At(u, "fault") /\ task'[u] = [task[u] EXCEPT !.at = "read"]
      <3>1. \A u \in Threads \ {t} : task'[u] = task[u]
        BY <2>2 DEF Others
      <3>2. QED
        BY <2>1, <2>2, <3>1
    <2>4. Page(t) \in Pages
      BY <2>1, CallFacts DEF At
    <2>5. CASE Present(Page(t))
      <3>1. UNCHANGED table
        BY <1>4, <2>5 DEF PageIn
      <3>2. /\ table' \in [Pages -> Frames \cup {None}]
            /\ \A p, q \in Pages : table'[p] # None /\ table'[p] = table'[q] => p = q
            /\ \A u \in Threads : At(u, "mark") => table'[Page(u)] # None
        BY <3>1 DEF IInv, TypeOK, MarkInv, Present
      <3>3. QED
        BY <2>1, <2>2, <2>3, <3>1, <3>2, PagingHolds
    <2>6. CASE ~Present(Page(t))
      <3>1. PICK f \in Frames \ (InUse \cup marked) : table' = [table EXCEPT ![Page(t)] = f]
        BY <1>4, <2>6 DEF PageIn
      <3>2. QED
        BY <2>1, <2>2, <2>3, <2>4, <2>6, <3>1, BringIn
    <2>7. QED
      BY <2>5, <2>6
  <1>5. CASE Regain(t)
    <2>1. task[t].op = "lock"
      BY <1>5 DEF Regain, At, IInv, CallInv, CallOk
    <2>2. QED
      BY <1>5, <2>1, MoveHolds DEF Regain, At, Labels
  <1>6. CASE LockAgain(t)
    BY <1>6, MoveHolds DEF LockAgain, Runs, At, Labels
  <1>7. CASE LockMark(t)
    BY <1>7, LockMarkHolds
  <1>8. CASE LockUndo(t)
    BY <1>8, LockUndoHolds
  <1>9. CASE UnlockPage(t)
    BY <1>9, UnlockPageHolds
  <1>10. CASE TranslatePage(t)
    BY <1>10, TranslatePageHolds
  <1>11. QED
    BY <1>1, <1>2, <1>3, <1>4, <1>5, <1>6, <1>7, <1>8, <1>9, <1>10 DEF Step

LEMMA CallHolds ==
  ASSUME PageAligned, Disjoint, IInv, NEW t \in Threads, NEW b \in Buffers,
         Lock(t, b) \/ Unlock(t, b) \/ Translate(t, b)
  PROVE  IInv'
  BY EnterHolds DEF Lock, Unlock, Translate

LEMMA StutterHolds ==
  ASSUME IInv, UNCHANGED memVars
  PROVE  IInv'
  <1> USE DEF memVars, IInv
  <1>1. TypeOK' /\ MarkInv'
    BY DEF TypeOK, MarkInv, At, Present, Page
  <1>2. CallInv' /\ OwnInv'
    BY DEF CallInv, CallOk, OwnInv, Claims, At, Buf
  <1>3. BusInv'
    BY DEF BusInv, BusOk, At, Buf
  <1>4. Locked' = Locked
    BY DEF Locked, Covered, Mine, Claims, At, Buf
  <1>5. QED
    BY <1>1, <1>2, <1>3, <1>4, AccountKept

THEOREM Inductive ==
  ASSUME PageAligned, Disjoint, ~Smp
  PROVE  IInv /\ [MemNext]_memVars => IInv'
  <1> SUFFICES ASSUME IInv, [MemNext]_memVars PROVE IInv'
    OBVIOUS
  <1>1. CASE UNCHANGED memVars
    BY <1>1, StutterHolds
  <1>2. CASE \E t \in Threads : Call(t)
    BY <1>2, CallHolds DEF Call
  <1>3. CASE \E t \in Threads : Step(t)
    BY <1>3, StepHolds
  <1>4. CASE Paging
    BY <1>4, TouchHolds, ReclaimHolds DEF Paging
  <1>5. QED
    BY <1>1, <1>2, <1>3, <1>4 DEF MemNext

THEOREM Invariance ==
  ASSUME PageAligned, Disjoint, ~Smp
  PROVE  MemSpec => []IInv
  <1>1. IInv /\ [MemNext]_memVars => IInv'
    BY Inductive
  <1>2. QED
    BY <1>1, InitHolds, PTL DEF MemSpec

----------------------------------------------------------------------------
\* Pages of a locked buffer stay in memory and marked, whatever is locked, unlocked,
\* rolled back and paged beside it.
LEMMA LockedByInv ==
  ASSUME PageAligned, Disjoint, IInv
  PROVE  LockedStay
  <1> SUFFICES ASSUME NEW b \in held, NEW p \in Touched(b)
               PROVE  Present(p) /\ table[p] \in marked
    BY DEF LockedStay
  <1>1. p \in Visited(b)
    BY BufferPages DEF IInv, TypeOK
  <1>2. p \in Locked
    BY <1>1 DEF Locked, Covered
  <1>3. QED
    BY <1>2 DEF IInv, AccountInv

THEOREM LockedCorrect ==
  ASSUME PageAligned, Disjoint, ~Smp
  PROVE  MemSpec => []LockedStay
  <1>1. IInv => LockedStay
    BY LockedByInv
  <1>2. MemSpec => []IInv
    BY Invariance
  <1>3. QED
    BY <1>1, <1>2, PTL

\* When no call is under way the marks are those of the locked buffers.
LEMMA LeakedByInv ==
  ASSUME PageAligned, Disjoint, IInv
  PROVE  NothingLeaked
  <1> SUFFICES ASSUME \A t \in Threads : Idle(t)
               PROVE  marked = {table[p] : p \in UNION {Touched(b) : b \in held}}
    BY DEF NothingLeaked
  <1>1. \A t \in Threads : Mine(t) = {}
    BY DEF Idle, Mine, Claims
  <1>2. \A b \in held : Touched(b) = Visited(b)
    BY BufferPages DEF IInv, TypeOK
  <1>3. Locked = UNION {Touched(b) : b \in held}
    <2>1. ASSUME NEW p PROVE p \in Locked <=> p \in UNION {Touched(b) : b \in held}
      <3>1. p \in Locked <=> p \in Covered(held)
        BY <1>1 DEF Locked
      <3>2. p \in Covered(held) <=> \E b \in held : p \in Visited(b)
        BY DEF Covered
      <3>3. p \in UNION {Touched(b) : b \in held} <=> \E b \in held : p \in Touched(b)
        OBVIOUS
      <3>4. QED
        BY <1>2, <3>1, <3>2, <3>3
    <2>2. QED
      BY <2>1
  <1>4. QED
    BY <1>3 DEF IInv, AccountInv

THEOREM LeakedCorrect ==
  ASSUME PageAligned, Disjoint, ~Smp
  PROVE  MemSpec => []NothingLeaked
  <1>1. IInv => NothingLeaked
    BY LeakedByInv
  <1>2. MemSpec => []IInv
    BY Invariance
  <1>3. QED
    BY <1>1, <1>2, PTL

\* A call that was told ok is one that translated its last page.
LEMMA OnlyTranslates ==
  ASSUME PageAligned, IInv, MemNext, NEW t \in Threads, ~task[t].ok,
         task'[t].op = "translate", task'[t].ok
  PROVE  TranslatePage(t)
  <1>1. task \in [Threads -> Tasks] /\ task[t] \in Tasks
    BY DEF IInv, TypeOK
  <1>2. ASSUME NEW u \in Threads, NEW op, NEW b, Enter(u, op, b) PROVE FALSE
    <2>1. task'[t] = IF t = u THEN [NoTask EXCEPT !.op = op, !.buf = b, !.at = "loop",
                                                  !.sure = b \in held] ELSE task[t]
      BY <1>1, <1>2 DEF Enter
    <2>2. [NoTask EXCEPT !.op = op, !.buf = b, !.at = "loop", !.sure = b \in held].ok = FALSE
      BY DEF NoTask
    <2>3. QED
      BY <2>1, <2>2
  <1>3. ASSUME NEW u \in Threads, NEW l \in Labels, GoTo(u, l) PROVE FALSE
    <2>1. Others(u) /\ task'[u] = [task[u] EXCEPT !.at = l]
      BY <1>1, <1>3, GoToTask
    <2>2. task'[u].ok = task[u].ok
      BY <1>1, <2>1 DEF Tasks
    <2>3. QED
      BY <2>1, <2>2 DEF Others
  <1>4. ASSUME NEW u \in Threads, NEW ok \in BOOLEAN, Return(u, ok), task[u].op # "translate"
        PROVE  FALSE
    <2>1. Others(u) /\ task'[u] = [task[u] EXCEPT !.at = "none", !.i = 0, !.j = 0, !.ok = ok]
      BY <1>1, <1>4, ReturnTask
    <2>2. task'[u].op = task[u].op
      BY <1>1, <2>1 DEF Tasks
    <2>3. QED
      BY <1>4, <2>1, <2>2 DEF Others
  <1>5. ASSUME NEW u \in Threads, Advance(u, "loop"), task[u].op # "translate" PROVE FALSE
    <2>1. CASE task[u].i + 1 < Items(task[u].buf)
      <3>1. Others(u) /\ task'[u] = [task[u] EXCEPT !.at = "loop", !.i = task[u].i + 1]
        BY <1>1, <1>5, <2>1, AdvanceTask
      <3>2. task'[u].ok = task[u].ok
        BY <1>1, <3>1 DEF Tasks
      <3>3. QED
        BY <3>1, <3>2 DEF Others
    <2>2. CASE ~(task[u].i + 1 < Items(task[u].buf))
      BY <1>4, <1>5, <2>2 DEF Advance
    <2>3. QED
      BY <2>1, <2>2
  <1>6. ~Paging
    BY DEF Paging, Touch, Reclaim
  <1>7. ASSUME NEW u \in Threads, Call(u) PROVE FALSE
    BY <1>2, <1>7 DEF Call, Lock, Unlock, Translate
  <1>8. PICK u \in Threads : Step(u)
    BY <1>6, <1>7 DEF MemNext
  <1>9. CASE \/ LockPresent(u) \/ LockAbsent(u) \/ LockRefused(u) \/ PageIn(u) \/ Regain(u)
             \/ LockAgain(u)
    BY <1>3, <1>9 DEF LockPresent, LockAbsent, LockRefused, PageIn, Regain, LockAgain, Labels
  <1>10. CASE LockMark(u)
    BY <1>5, <1>10 DEF LockMark, Runs
  <1>11. CASE LockUndo(u)
    <2>1. CASE task[u].j = task[u].i
      BY <1>4, <1>11, <2>1 DEF LockUndo, Runs
    <2>2. CASE task[u].j # task[u].i
      <3>1. task' = [task EXCEPT ![u].j = @ + 1]
        BY <1>11, <2>2 DEF LockUndo
      <3>2. task'[t].ok = task[t].ok
        BY <1>1, <3>1 DEF Tasks
      <3>3. QED
        BY <3>2
    <2>3. QED
      BY <2>1, <2>2
  <1>12. CASE UnlockPage(u)
    BY <1>4, <1>5, <1>12 DEF UnlockPage, Runs
  <1>13. CASE TranslatePage(u)
    <2>1. \A v \in Threads : v # u => task'[v] = task[v]
      BY <1>1, <1>13 DEF TranslatePage
    <2>2. QED
      BY <1>13, <2>1
  <1>14. QED
    BY <1>8, <1>9, <1>10, <1>11, <1>12, <1>13 DEF Step

\* The addresses given for a locked buffer are those of its pages, when the call ends: what
\* was read for its first page is still true when its last is read.
THEOREM TranslationCorrect ==
  ASSUME PageAligned, Disjoint, ~Smp
  PROVE  MemSpec => TranslationHolds
  <1>1. ASSUME IInv, [MemNext]_memVars, NEW t \in Threads,
               task[t].sure, ~task[t].ok, task'[t].op = "translate", task'[t].ok,
               NEW k \in DOMAIN task'[t].bus
        PROVE  task'[t].bus[k] = table[PageOf(task[t].buf, k - 1)]
    <2>1. MemNext
      BY <1>1 DEF memVars
    <2>2. TranslatePage(t)
      BY <1>1, <2>1, OnlyTranslates
    <2> DEFINE i == task[t].i
               s == task[t].bus
               a == Address(Page(t))
    <2>3. task[t] \in Tasks /\ task \in [Threads -> Tasks]
      BY <1>1 DEF IInv, TypeOK
    <2>4. task'[t].bus = Append(s, a)
      BY <2>2, <2>3 DEF TranslatePage, Tasks
    <2>5. /\ Buf(t) \in held /\ Len(s) = i
          /\ \A l \in 1 .. i : s[l] = table[PageOf(Buf(t), l - 1)]
      BY <1>1, <2>2 DEF IInv, BusInv, BusOk, TranslatePage, Runs
    <2>6. /\ Items(Buf(t)) \in Nat /\ i \in Nat /\ i < Items(Buf(t))
          /\ Page(t) = PageOf(Buf(t), i)
      BY <1>1, <2>2, CallFacts DEF TranslatePage, Runs, At
    <2>7. Page(t) \in Locked
      BY <2>5, <2>6 DEF Locked, Covered, Visited
    <2>8. a = table[PageOf(Buf(t), i)]
      BY <1>1, <2>6, <2>7 DEF IInv, AccountInv, Address
    <2>9. s \in Seq(Frames \cup {Wild})
      BY <2>3 DEF Tasks
    <2>10. k \in 1 .. i + 1
      BY <1>1, <2>4, <2>5, <2>9
    <2>11. CASE k = i + 1
      <3>1. Append(s, a)[k] = a /\ k - 1 = i
        BY <2>5, <2>6, <2>9, <2>11
      <3>2. QED
        BY <2>4, <2>8, <3>1 DEF Buf
    <2>12. CASE k # i + 1
      <3>1. k \in 1 .. i
        BY <2>6, <2>10, <2>12
      <3>2. Append(s, a)[k] = s[k]
        BY <2>5, <2>9, <3>1
      <3>3. QED
        BY <2>4, <2>5, <3>1, <3>2 DEF Buf
    <2>13. QED
      BY <2>11, <2>12
  <1>2. IInv /\ [MemNext]_memVars =>
          [\A t \in Threads :
             task[t].sure /\ ~task[t].ok /\ task'[t].op = "translate" /\ task'[t].ok =>
               \A k \in DOMAIN task'[t].bus : task'[t].bus[k] = table[PageOf(task[t].buf, k - 1)]]_task
    BY <1>1
  <1>3. MemSpec => []IInv
    BY Invariance
  <1>4. QED
    BY <1>2, <1>3, PTL DEF MemSpec, TranslationHolds

(***************************************************************************)
(* The Mach64 driver.                                                      *)
(***************************************************************************)

USE PlayerAssumption, DescAssumption, PinnedAssumption, FlagsAssumption

\* A call is for a source, and only an ioctl the driver waits for is under way.
AskInv ==
  /\ drv \in Calls /\ (~On("none") => drv.buf \in Sources)
  /\ ~Idle(Player) =>
       \/ On("locking")
       \/ (On("building") \/ On("describing") \/ On("unlocking")) /\ task[Player].op # "lock"
  /\ On("locking") => task[Player].op = "lock" /\ task[Player].buf = drv.buf

\* The labels between the lock and its unlocking.
Within == {"sync", "wait", "reset", "setup", "building", "desc", "describing", "transfer"}

\* What the program's process has locked, at each point of a call.
HeldInv ==
  /\ drv.at \in {"none", "lock", "unlocking"} => held = {}
  /\ On("locking") => held = IF Idle(Player) /\ task[Player].ok THEN {drv.buf} ELSE {}
  /\ drv.at \in Within => held = IF Fixed THEN {} ELSE {drv.buf}
  /\ On("unlock") => held = {drv.buf}
  /\ On("lock") \/ On("locking") => ~Fixed

DriverInv == IInv /\ AskInv /\ HeldInv

----------------------------------------------------------------------------
\* What a step of the helper does to a call under way.
LEMMA HelperStep ==
  ASSUME IInv, Step(Player)
  PROVE  /\ ~Idle(Player)
         /\ task'[Player].op = task[Player].op /\ task'[Player].buf = task[Player].buf
         /\ \/ held' = held /\ (Idle(Player)' /\ task[Player].op = "lock" => ~task'[Player].ok)
            \/ /\ task[Player].op = "lock" /\ Idle(Player)' /\ task'[Player].ok
               /\ held' = held \cup {task[Player].buf}
  <1> DEFINE t == Player
  <1>1. t \in Threads /\ task \in [Threads -> Tasks]
    BY DEF IInv, TypeOK
  <1>2. CASE LockPresent(t) \/ LockAbsent(t) \/ LockRefused(t) \/ PageIn(t) \/ Regain(t) \/ LockAgain(t)
    BY <1>1, <1>2 DEF LockPresent, LockAbsent, LockRefused, PageIn, Regain, LockAgain, Runs, At,
                      GoTo, Idle, Tasks
  <1>3. CASE LockMark(t)
    BY <1>1, <1>3 DEF LockMark, Runs, At, Advance, Return, Idle, Tasks
  <1>4. CASE LockUndo(t)
    BY <1>1, <1>4 DEF LockUndo, Runs, At, Return, Idle, Tasks
  <1>5. CASE UnlockPage(t)
    BY <1>1, <1>5 DEF UnlockPage, Runs, At, Advance, Return, Idle, Tasks
  <1>6. CASE TranslatePage(t)
    BY <1>1, <1>6 DEF TranslatePage, Runs, At, Idle, Tasks
  <1>7. QED
    BY <1>2, <1>3, <1>4, <1>5, <1>6 DEF Step

\* An ioctl of the driver is entered.
LEMMA EnterStep ==
  ASSUME IInv, NEW op \in {"lock", "unlock", "translate"}, NEW b \in Buffers, Enter(Player, op, b)
  PROVE  /\ Idle(Player) /\ ~Idle(Player)'
         /\ task'[Player].op = op /\ task'[Player].buf = b
  <1>1. Player \in Threads /\ task \in [Threads -> Tasks]
    BY DEF IInv, TypeOK
  <1> DEFINE sure == b \in held
             r    == Entered(op, b, sure)
  <1>2. Idle(Player) /\ task'[Player] = r
    BY <1>1 DEF Enter, Entered
  <1>3. sure \in BOOLEAN
    OBVIOUS
  <1> HIDE DEF sure
  <1>4. r.op = op /\ r.buf = b /\ r.at = "loop"
    BY <1>3, EnteredTask
  <1> HIDE DEF r
  <1>5. QED
    BY <1>2, <1>4 DEF Idle, At

\* The labels of a call.
LEMMA Going ==
  ASSUME drv \in Calls, NEW l, GoOn(l),
         l \in {"none", "lock", "locking", "sync", "wait", "reset", "setup", "building",
               "desc", "describing", "transfer", "unlock", "unlocking"}
  PROVE  drv' \in Calls /\ drv'.at = l /\ drv'.buf = drv.buf /\ drv'.flags = drv.flags
  BY DEF GoOn, Calls

LEMMA NoCallOK == NoCall \in Calls /\ NoCall.at = "none"
  BY DEF NoCall, Calls

----------------------------------------------------------------------------
LEMMA StartHolds == ~Smp /\ Init => DriverInv
  <1> SUFFICES ASSUME Init PROVE DriverInv
    OBVIOUS
  <1>1. NoTask \in Tasks /\ Player \in Threads
    BY DEF NoTask, Tasks
  <1>2. task = [t \in Threads |-> NoTask] /\ marked = {} /\ held = {} /\ bkl = None
    BY DEF Init
  <1>3. \A t \in Threads : task[t] = NoTask /\ At(t, "none")
    BY <1>2 DEF At, NoTask
  <1>4. TypeOK
    <2>1. /\ table \in [Pages -> Frames \cup {None}]
          /\ \A p, q \in Pages : table[p] # None /\ table[p] = table[q] => p = q
      BY DEF Init
    <2>2. \A t \in Threads : task[t].j <= task[t].i
      BY <1>3 DEF NoTask
    <2>3. task \in [Threads -> Tasks]
      BY <1>1, <1>2
    <2>4. QED
      BY <1>2, <1>3, <2>1, <2>2, <2>3 DEF TypeOK, Present
  <1>5. Locked = {}
    BY <1>2, <1>3 DEF Locked, Covered, Mine, Claims, At
  <1>6. AccountInv
    BY <1>2, <1>5 DEF AccountInv
  <1>7. IInv
    BY <1>3, <1>4, <1>6 DEF IInv, CallInv, OwnInv, MarkInv, BusInv, CallOk, BusOk, Claims, At, NoTask
  <1>8. AskInv /\ HeldInv
    BY <1>1, <1>2, <1>3, NoCallOK DEF Init, AskInv, HeldInv, Idle, On, Within
  <1>9. QED
    BY <1>7, <1>8 DEF DriverInv

\* Steps of the driver that leave the memory and its ioctls alone.
Quiet ==
  \/ \E b \in Sources, flags \in Flags, fits \in BOOLEAN : CopyFrame(b, flags, fits)
  \/ EndLock \/ InitIrq \/ SyncDone \/ SyncWait \/ HwirqWait \/ EngineReset \/ SetupTooLarge
  \/ SetupReuse \/ Described \/ Transfer \/ EndUnlock \/ Complete \/ Interrupt
  \/ UNCHANGED vars

LEMMA QuietHolds == DriverInv /\ Quiet => DriverInv'
  <1> SUFFICES ASSUME DriverInv, Quiet PROVE DriverInv'
    OBVIOUS
  <1>1. UNCHANGED memVars
    BY DEF Quiet, CopyFrame, EndLock, InitIrq, SyncDone, SyncWait, HwirqWait, EngineReset,
           SetupTooLarge, SetupReuse, Described, Transfer, EndUnlock, Complete, Interrupt, vars
  <1>2. IInv'
    BY <1>1, StutterHolds DEF DriverInv
  <1>3. /\ UNCHANGED <<task, held>> /\ (Idle(Player)' <=> Idle(Player))
        /\ drv \in Calls /\ AskInv /\ HeldInv
    BY <1>1 DEF memVars, Idle, At, DriverInv, AskInv
  <1>4. CASE UNCHANGED drv
    BY <1>2, <1>3, <1>4 DEF DriverInv, AskInv, HeldInv, On, Fixed
  <1>5. ASSUME NEW b \in Sources, NEW flags \in Flags, NEW fits \in BOOLEAN,
               CopyFrame(b, flags, fits)
        PROVE  AskInv' /\ HeldInv'
    <2> DEFINE l == IF "fixed" \in flags THEN AfterLock(flags) ELSE "lock"
    <2>1. /\ l \in {"lock", "sync", "reset"} /\ (l = "lock" <=> "fixed" \notin flags)
          /\ flags \subseteq {"sync", "fixed"}
      BY DEF AfterLock
    <2>2. drv' = [at |-> l, buf |-> b, flags |-> flags, fits |-> fits] /\ On("none")
      BY <1>5 DEF CopyFrame
    <2> HIDE DEF l
    <2>3. drv' \in Calls /\ drv'.at = l /\ drv'.buf = b /\ drv'.flags = flags
      BY <2>1, <2>2 DEF Calls
    <2>4. Idle(Player) /\ held = {}
      BY <1>3, <2>2 DEF AskInv, HeldInv, On
    <2>5. AskInv'
      BY <1>3, <2>1, <2>3, <2>4 DEF AskInv, On
    <2>6. HeldInv'
      BY <1>3, <2>1, <2>3, <2>4 DEF HeldInv, On, Within, Fixed
    <2>7. QED
      BY <2>5, <2>6
  <1>6. ASSUME EndLock PROVE AskInv' /\ HeldInv'
    <2>1. /\ On("locking") /\ Idle(Player)
      BY <1>6 DEF EndLock, Answered
    <2>2. CASE task[Player].ok
      <3>1. GoOn(AfterLock(drv.flags)) /\ AfterLock(drv.flags) \in {"sync", "reset"}
        BY <1>6, <2>2 DEF EndLock, AfterLock
      <3>2. /\ drv' \in Calls /\ drv'.at \in {"sync", "reset"} /\ drv'.buf = drv.buf
            /\ drv'.flags = drv.flags
        BY <1>3, <3>1, Going
      <3>3. QED
        BY <1>3, <2>1, <2>2, <3>2 DEF AskInv, HeldInv, On, Within, Fixed
    <2>3. CASE ~task[Player].ok
      BY <1>3, <1>6, <2>1, <2>3, NoCallOK DEF EndLock, AskInv, HeldInv, On, Within
    <2>4. QED
      BY <2>2, <2>3
  <1>7. ASSUME SyncDone \/ SyncWait \/ HwirqWait \/ EngineReset \/ SetupReuse \/ Described
        PROVE  AskInv' /\ HeldInv'
    <2>1. PICK l \in {"reset", "wait", "sync", "setup", "desc", "transfer"} : GoOn(l)
      BY <1>7 DEF SyncDone, SyncWait, HwirqWait, EngineReset, SetupReuse, Described
    <2>2. /\ drv.at \in Within /\ Idle(Player)
      BY <1>3, <1>7 DEF SyncDone, SyncWait, HwirqWait, EngineReset, SetupReuse, Described, Answered,
                        On, Within, AskInv
    <2>3. drv' \in Calls /\ drv'.at = l /\ drv'.buf = drv.buf /\ drv'.flags = drv.flags
      BY <1>3, <2>1, Going
    <2>4. QED
      BY <1>3, <2>1, <2>2, <2>3 DEF AskInv, HeldInv, On, Within, Fixed
  <1>8. ASSUME SetupTooLarge \/ Transfer PROVE AskInv' /\ HeldInv'
    <2>1. /\ On("setup") \/ On("transfer")
          /\ GoOn(IF Fixed THEN "none" ELSE "unlock")
      BY <1>8 DEF SetupTooLarge, Transfer
    <2>2. /\ drv' \in Calls /\ drv'.at = (IF Fixed THEN "none" ELSE "unlock")
          /\ drv'.buf = drv.buf /\ drv'.flags = drv.flags
      BY <1>3, <2>1, Going
    <2>3. Idle(Player) /\ held = IF Fixed THEN {} ELSE {drv.buf}
      BY <1>3, <2>1 DEF AskInv, HeldInv, On, Within
    <2>4. QED
      BY <1>3, <2>1, <2>2, <2>3 DEF AskInv, HeldInv, On, Within, Fixed
  <1>9. ASSUME EndUnlock PROVE AskInv' /\ HeldInv'
    BY <1>3, <1>9, NoCallOK DEF EndUnlock, Answered, AskInv, HeldInv, On, Within
  <1>10. CASE InitIrq \/ Complete \/ Interrupt \/ UNCHANGED vars
    BY <1>4, <1>10 DEF InitIrq, Complete, Interrupt, vars
  <1>11. QED
    BY <1>2, <1>5, <1>6, <1>7, <1>8, <1>9, <1>10 DEF Quiet, DriverInv

\* The driver calls bm_lock_mem, bm_unlock_mem or bm_virt_to_bus.
LEMMA AskHolds ==
  ASSUME PageAligned, Disjoint, DriverInv,
         BeginLock \/ SetupTranslate \/ Describe \/ BeginUnlock
  PROVE  DriverInv'
  <1>1. Player \in Threads /\ drv \in Calls /\ AskInv /\ HeldInv /\ IInv
    BY DEF DriverInv, AskInv
  <1>2. drv.buf \in Sources /\ drv.buf \in Buffers /\ Desc[drv.buf] \in Buffers
    BY <1>1 DEF AskInv, On, BeginLock, SetupTranslate, Describe, BeginUnlock
  <1>3. PICK b \in Buffers : Lock(Player, b) \/ Unlock(Player, b) \/ Translate(Player, b)
    BY <1>2 DEF BeginLock, SetupTranslate, Describe, BeginUnlock
  <1>4. IInv'
    BY <1>1, <1>3, CallHolds
  <1>5. CASE BeginLock
    <2>1. /\ On("lock") /\ Enter(Player, "lock", drv.buf) /\ held' = held
          /\ drv' \in Calls /\ drv'.at = "locking" /\ drv'.buf = drv.buf /\ drv'.flags = drv.flags
      BY <1>1, <1>5, Going DEF BeginLock, Lock
    <2>2. ~Idle(Player)' /\ task'[Player].op = "lock" /\ task'[Player].buf = drv.buf
      BY <1>1, <1>2, <2>1, EnterStep
    <2>3. QED
      BY <1>1, <1>2, <1>4, <2>1, <2>2 DEF DriverInv, AskInv, HeldInv, On, Within, Fixed
  <1>6. CASE SetupTranslate \/ Describe
    <2>1. PICK c \in {drv.buf, Desc[drv.buf]} : Translate(Player, c)
      BY <1>6 DEF SetupTranslate, Describe
    <2>2. /\ drv' \in Calls /\ drv'.at \in {"building", "describing"} /\ drv'.buf = drv.buf
          /\ drv'.flags = drv.flags /\ drv.at \in Within
      BY <1>1, <1>6, Going DEF SetupTranslate, Describe, On, Within
    <2>3. Enter(Player, "translate", c) /\ held' = held
      BY <2>1 DEF Translate
    <2>4. task'[Player].op = "translate"
      BY <1>1, <1>2, <2>1, <2>3, EnterStep
    <2>5. QED
      BY <1>1, <1>2, <1>4, <2>2, <2>3, <2>4 DEF DriverInv, AskInv, HeldInv, On, Within, Fixed
  <1>7. CASE BeginUnlock
    <2>1. /\ On("unlock") /\ Enter(Player, "unlock", drv.buf) /\ held' = held \ {drv.buf}
          /\ drv' \in Calls /\ drv'.at = "unlocking" /\ drv'.buf = drv.buf
      BY <1>1, <1>7, Going DEF BeginUnlock, Unlock
    <2>2. task'[Player].op = "unlock"
      BY <1>1, <1>2, <2>1, EnterStep
    <2>3. held' = {}
      BY <1>1, <2>1 DEF HeldInv
    <2>4. QED
      BY <1>1, <1>2, <1>4, <2>1, <2>2, <2>3 DEF DriverInv, AskInv, HeldInv, On, Within
  <1>8. QED
    BY <1>5, <1>6, <1>7

\* The table of descriptors is written.
LEMMA BuildHolds ==
  ASSUME PageAligned, Disjoint, DriverInv, SetupBuild
  PROVE  DriverInv'
  <1> DEFINE p == PageOf(Desc[drv.buf], 0)
  <1>1. /\ On("building") /\ Idle(Player) /\ GoOn("desc") /\ UNCHANGED <<marked, bkl, task, held>>
        /\ Player \in Threads /\ drv \in Calls /\ AskInv /\ HeldInv /\ IInv
    BY DEF SetupBuild, Answered, DriverInv, AskInv
  <1>2. p \in Pages
    BY <1>1, BufferPages DEF AskInv, On, Visited
  <1>3. IInv'
    <2>1. CASE Present(p)
      BY <1>1, <2>1, StutterHolds DEF SetupBuild, memVars
    <2>2. CASE ~Present(p)
      <3>1. PICK f \in Frames \ (InUse \cup marked) : table' = [table EXCEPT ![p] = f]
        BY <2>2 DEF SetupBuild
      <3>2. QED
        BY <1>1, <1>2, <2>2, <3>1, BringIn DEF IInv, TypeOK
    <2>3. QED
      BY <2>1, <2>2
  <1>4. drv' \in Calls /\ drv'.at = "desc" /\ drv'.buf = drv.buf /\ drv'.flags = drv.flags
    BY <1>1, Going
  <1>5. Idle(Player)'
    BY <1>1 DEF Idle, At
  <1>6. QED
    BY <1>1, <1>3, <1>4, <1>5 DEF DriverInv, AskInv, HeldInv, On, Within, Fixed

LEMMA HelperHolds ==
  ASSUME PageAligned, Disjoint, DriverInv, Helper
  PROVE  DriverInv'
  <1>1. /\ Step(Player) /\ UNCHANGED drv /\ Player \in Threads
        /\ IInv /\ AskInv /\ HeldInv
    BY DEF Helper, DriverInv
  <1>2. IInv'
    BY <1>1, StepHolds
  <1>3. /\ ~Idle(Player)
        /\ task'[Player].op = task[Player].op /\ task'[Player].buf = task[Player].buf
        /\ \/ held' = held /\ (Idle(Player)' /\ task[Player].op = "lock" => ~task'[Player].ok)
           \/ /\ task[Player].op = "lock" /\ Idle(Player)' /\ task'[Player].ok
              /\ held' = held \cup {task[Player].buf}
    BY <1>1, HelperStep
  <1>4. AskInv'
    BY <1>1, <1>3 DEF AskInv, On
  <1>5. CASE On("locking")
    <2>1. task[Player].op = "lock" /\ task[Player].buf = drv.buf /\ held = {}
      BY <1>1, <1>3, <1>5 DEF AskInv, HeldInv
    <2>2. QED
      BY <1>1, <1>2, <1>3, <1>4, <1>5, <2>1 DEF DriverInv, HeldInv, On, Within, Fixed
  <1>6. CASE ~On("locking")
    <2>1. held' = held
      BY <1>1, <1>3, <1>6 DEF AskInv
    <2>2. QED
      BY <1>1, <1>2, <1>4, <1>6, <2>1 DEF DriverInv, HeldInv, On, Fixed
  <1>7. QED
    BY <1>5, <1>6

LEMMA KernelHolds ==
  ASSUME PageAligned, ~Smp, DriverInv, Kernel
  PROVE  DriverInv'
  <1>1. PICK p \in Pages : Touch(p) \/ Reclaim(p)
    BY DEF Kernel
  <1>2. IInv'
    BY <1>1, TouchHolds, ReclaimHolds DEF DriverInv
  <1>3. UNCHANGED <<task, held, drv>>
    BY <1>1 DEF Kernel, Touch, Reclaim
  <1>4. QED
    BY <1>2, <1>3 DEF DriverInv, AskInv, HeldInv, On, Fixed, Idle, At

----------------------------------------------------------------------------
LEMMA DriverInductive ==
  ASSUME PageAligned, Disjoint, ~Smp
  PROVE  DriverInv /\ [Next]_vars => DriverInv'
  <1> SUFFICES ASSUME DriverInv, [Next]_vars PROVE DriverInv'
    OBVIOUS
  <1>1. Quiet \/ BeginLock \/ SetupTranslate \/ Describe \/ BeginUnlock \/ SetupBuild \/ Helper \/ Kernel
    BY DEF Next, Driver, Quiet
  <1>2. QED
    BY <1>1, QuietHolds, AskHolds, BuildHolds, HelperHolds, KernelHolds

LEMMA DriverInvariance ==
  ASSUME PageAligned, Disjoint, ~Smp
  PROVE  Spec => []DriverInv
  <1>1. DriverInv /\ [Next]_vars => DriverInv'
    BY DriverInductive
  <1>2. Init => DriverInv
    BY StartHolds
  <1>3. QED
    BY <1>1, <1>2, PTL DEF Spec

\* Whatever fails in vixPlaybackCopyFrame, and with any flags, it ends without a lock
\* of the program and without a mark in the kernel.
THEOREM BalanceCorrect ==
  ASSUME PageAligned, Disjoint, ~Smp
  PROVE  Spec => []LocksBalanced
  <1>1. DriverInv => LocksBalanced
    <2> SUFFICES ASSUME DriverInv, On("none") PROVE held = {} /\ marked = {}
      BY DEF LocksBalanced
    <2>1. held = {} /\ Idle(Player)
      BY DEF DriverInv, AskInv, HeldInv, On
    <2>2. marked = {table[p] : p \in UNION {Touched(b) : b \in held}}
      BY <2>1, LeakedByInv DEF DriverInv, NothingLeaked
    <2>3. QED
      BY <2>1, <2>2
  <1>2. QED
    BY <1>1, DriverInvariance, PTL

----------------------------------------------------------------------------
\* The end of a list shows only when the engine has come to it.
EngineInv ==
  /\ DOMAIN engine = {"busy", "eol", "enabled", "desc", "buf"}
  /\ engine.busy = FALSE \/ engine.eol = FALSE

LEMMA EngineHolds == EngineInv /\ [Next]_vars => EngineInv'
  <1> SUFFICES ASSUME EngineInv, [Next]_vars PROVE EngineInv'
    OBVIOUS
  <1>1. CASE UNCHANGED engine
    BY <1>1 DEF EngineInv
  <1>2. CASE EngineReset
    BY <1>2 DEF EngineReset, EngineInv
  <1>3. CASE Transfer
    BY <1>3 DEF Transfer, EngineInv
  <1>4. CASE Complete
    BY <1>4 DEF Complete, EngineInv
  <1>5. CASE Interrupt
    BY <1>5 DEF Interrupt, EngineInv
  <1>6. QED
    BY <1>1, <1>2, <1>3, <1>4, <1>5
    DEF Next, Driver, Helper, Kernel, vars, CopyFrame, BeginLock, EndLock, InitIrq, SyncDone, SyncWait,
        HwirqWait, SetupTooLarge, SetupReuse, SetupTranslate, SetupBuild, Describe, Described,
        BeginUnlock, EndUnlock

\* vixQueryDMAStatus answers 0 only while the engine is at rest, although the handler of
\* the helper, the reset of the engine and the start of the next list all write the
\* register it looks at.
THEOREM StatusCorrect == Spec => []FreeMeansIdle
  <1>1. Init => EngineInv
    BY DEF Init, EngineInv
  <1>2. EngineInv => FreeMeansIdle
    BY DEF EngineInv, FreeMeansIdle, QueryDMAStatus
  <1>3. QED
    BY <1>1, <1>2, EngineHolds, PTL DEF Spec

----------------------------------------------------------------------------
(***************************************************************************)
(* The lists of the engine.                                                *)
(***************************************************************************)

\* The program locked the source itself; the addresses of its pages.
OwnPages(b) == Visited(b) \subseteq Pinned
Right(b)    == [k \in 1 .. Items(b) |-> table[PageOf(b, k - 1)]]

PinInv == \A p \in Pinned : Present(p)

\* What was looked up so far of a source that is translated.
LookInv ==
  On("building") =>
    /\ task[Player].op = "translate" /\ task[Player].buf = drv.buf
    /\ Len(task[Player].bus) = IF Idle(Player) THEN Items(drv.buf) ELSE task[Player].i
    /\ OwnPages(drv.buf) =>
         \A k \in 1 .. Len(task[Player].bus) : task[Player].bus[k] = table[PageOf(drv.buf, k - 1)]

\* A table that was filled stays right.
FillInv ==
  /\ built \subseteq Sources /\ DOMAIN lists = Sources
  /\ \A b \in built : OwnPages(b) => lists[b] = Right(b)

\* The engine rests from its reset until it is started, with a table that was filled.
RestInv ==
  /\ DOMAIN engine = {"busy", "eol", "enabled", "desc", "buf"}
  /\ drv.at \in {"setup", "building", "desc", "describing", "transfer"} => engine.busy = FALSE
  /\ drv.at \in {"desc", "describing", "transfer"} => drv.buf \in built
  /\ engine.busy = FALSE \/ engine.buf \in built

ListInv == PinInv /\ LookInv /\ FillInv /\ RestInv

\* Pages the program locked are neither brought in nor taken away.
LEMMA PinnedStay ==
  ASSUME DriverInv, PinInv, [Next]_vars
  PROVE  PinInv' /\ \A p \in Pinned : table'[p] = table[p]
  <1>1. table \in [Pages -> Frames \cup {None}] /\ Player \in Threads
    BY DEF DriverInv, IInv, TypeOK
  <1>2. ASSUME NEW q \in Pages, q \notin Pinned, NEW f, table' = [table EXCEPT ![q] = f]
        PROVE  \A p \in Pinned : table'[p] = table[p]
    BY <1>1, <1>2
  <1>3. CASE UNCHANGED table
    BY <1>3 DEF PinInv, Present
  <1>4. CASE Kernel
    <2>1. PICK p \in Pages \ Pinned : Touch(p) \/ Reclaim(p)
      BY <1>4 DEF Kernel
    <2>2. PICK f : table' = [table EXCEPT ![p] = f]
      BY <2>1 DEF Touch, Reclaim
    <2>3. QED
      BY <1>2, <2>1, <2>2 DEF PinInv, Present
  <1>5. CASE Helper /\ PageIn(Player)
    <2> DEFINE q == Page(Player)
    <2>1. CASE Present(q)
      BY <1>3, <1>5, <2>1 DEF PageIn
    <2>2. CASE ~Present(q)
      <3>1. PICK f \in Frames : table' = [table EXCEPT ![q] = f]
        BY <1>5, <2>2 DEF PageIn
      <3>2. q \notin Pinned
        BY <2>2 DEF PinInv
      <3> HIDE DEF q
      <3>3. \A p \in Pinned : table'[p] = table[p]
        BY <1>1, <3>1, <3>2
      <3>4. QED
        BY <3>3 DEF PinInv, Present
    <2>3. QED
      BY <2>1, <2>2
  <1>6. CASE Helper /\ ~PageIn(Player)
    BY <1>3, <1>6 DEF Helper, Step, LockPresent, LockAbsent, LockRefused, Regain, LockAgain, LockMark,
                      LockUndo, UnlockPage, TranslatePage
  <1>7. CASE SetupBuild
    <2> DEFINE q == PageOf(Desc[drv.buf], 0)
    <2>1. CASE Present(q)
      BY <1>3, <1>7, <2>1 DEF SetupBuild
    <2>2. CASE ~Present(q)
      <3>1. PICK f \in Frames : table' = [table EXCEPT ![q] = f]
        BY <1>7, <2>2 DEF SetupBuild
      <3>2. q \notin Pinned
        BY <2>2 DEF PinInv
      <3> HIDE DEF q
      <3>3. \A p \in Pinned : table'[p] = table[p]
        BY <1>1, <3>1, <3>2
      <3>4. QED
        BY <3>3 DEF PinInv, Present
    <2>3. QED
      BY <2>1, <2>2
  <1>8. CASE Quiet
    BY <1>3, <1>8 DEF Quiet, CopyFrame, EndLock, InitIrq, SyncDone, SyncWait, HwirqWait, EngineReset,
           SetupTooLarge, SetupReuse, Described, Transfer, EndUnlock, Complete, Interrupt, vars, memVars
  <1>9. CASE BeginLock \/ SetupTranslate \/ Describe \/ BeginUnlock
    BY <1>3, <1>9 DEF BeginLock, SetupTranslate, Describe, BeginUnlock, Lock, Translate, Unlock, Enter
  <1>10. QED
    BY <1>4, <1>5, <1>6, <1>7, <1>8, <1>9 DEF Next, Driver, Quiet

\* So a table that is right stays right.
LEMMA RightStays ==
  ASSUME PageAligned, NEW b \in Buffers, OwnPages(b), \A p \in Pinned : table'[p] = table[p]
  PROVE  Right(b)' = Right(b) /\ \A k \in 1 .. Items(b) : table'[PageOf(b, k - 1)] = table[PageOf(b, k - 1)]
  <1>1. Items(b) \in Nat
    BY BufferPages
  <1>2. \A k \in 1 .. Items(b) : PageOf(b, k - 1) \in Pinned
    <2> TAKE k \in 1 .. Items(b)
    <2>1. k - 1 \in 0 .. Items(b) - 1
      BY <1>1
    <2>2. QED
      BY <2>1 DEF OwnPages, Visited
  <1>3. QED
    BY <1>2 DEF Right

LEMMA FillKept ==
  ASSUME PageAligned, FillInv, \A p \in Pinned : table'[p] = table[p], UNCHANGED <<lists, built>>
  PROVE  FillInv'
  <1>1. \A b \in built : OwnPages(b) => Right(b)' = Right(b)
    BY RightStays DEF FillInv
  <1>2. QED
    BY <1>1 DEF FillInv, OwnPages

----------------------------------------------------------------------------
LEMMA QuietLists ==
  ASSUME PageAligned, DriverInv, ListInv, Quiet
  PROVE  LookInv' /\ FillInv' /\ RestInv'
  <1>1. UNCHANGED <<table, task, lists, built>>
    BY DEF Quiet, CopyFrame, EndLock, InitIrq, SyncDone, SyncWait, HwirqWait, EngineReset,
           SetupTooLarge, SetupReuse, Described, Transfer, EndUnlock, Complete, Interrupt, vars, memVars
  <1>2. FillInv'
    BY <1>1, FillKept DEF ListInv
  <1>3. drv \in Calls /\ AskInv /\ LookInv /\ RestInv
    BY DEF DriverInv, AskInv, ListInv
  <1>4. ASSUME UNCHANGED drv PROVE LookInv'
    BY <1>1, <1>3, <1>4 DEF LookInv, On, Idle, At, OwnPages
  <1>5. ASSUME drv'.at # "building" PROVE LookInv'
    BY <1>5 DEF LookInv, On
  <1>6. CASE InitIrq \/ UNCHANGED vars
    <2>1. UNCHANGED <<drv, engine>>
      BY <1>6 DEF InitIrq, vars
    <2>2. QED
      BY <1>1, <1>2, <1>3, <1>4, <2>1 DEF RestInv
  <1>7. CASE Complete \/ Interrupt
    <2>1. UNCHANGED drv
      BY <1>7 DEF Complete, Interrupt
    <2>2. drv' = drv /\ built' = built
      BY <1>1, <2>1
    <2>3. /\ DOMAIN engine' = DOMAIN engine /\ engine'.buf = engine.buf
          /\ engine'.busy = FALSE \/ engine'.busy = engine.busy
      <3>1. CASE Complete
        BY <1>3, <3>1 DEF RestInv, Complete
      <3>2. CASE Interrupt
        BY <1>3, <3>2 DEF RestInv, Interrupt
      <3>3. QED
        BY <1>7, <3>1, <3>2
    <2> DEFINE Rests(a, e, b) ==
                 /\ DOMAIN e = {"busy", "eol", "enabled", "desc", "buf"}
                 /\ a.at \in {"setup", "building", "desc", "describing", "transfer"} => e.busy = FALSE
                 /\ a.at \in {"desc", "describing", "transfer"} => a.buf \in b
                 /\ e.busy = FALSE \/ e.buf \in b
    <2>4. Rests(drv, engine, built)
      BY <1>3 DEF RestInv
    <2>5. Rests(drv, engine', built)
      BY <2>3, <2>4
    <2> HIDE DEF Rests
    <2>6. Rests(drv', engine', built')
      BY <2>2, <2>5
    <2>7. RestInv'
      BY <2>6 DEF Rests, RestInv
    <2>8. QED
      BY <1>2, <1>4, <2>1, <2>7
  <1>8. CASE \E b \in Sources, flags \in Flags, fits \in BOOLEAN : CopyFrame(b, flags, fits)
    <2>1. drv'.at \in {"lock", "sync", "reset"} /\ UNCHANGED engine
      BY <1>8 DEF CopyFrame, AfterLock
    <2>2. QED
      BY <1>1, <1>2, <1>3, <1>5, <2>1 DEF RestInv
  <1>9. CASE EndLock \/ SyncDone \/ SyncWait \/ HwirqWait \/ SetupTooLarge \/ EndUnlock
    <2>1. UNCHANGED engine /\ \/ drv' = NoCall
                              \/ \E l \in {"sync", "reset", "wait", "none", "unlock"} : GoOn(l)
      BY <1>9 DEF EndLock, SyncDone, SyncWait, HwirqWait, SetupTooLarge, EndUnlock, AfterLock
    <2>2. drv'.at \in {"sync", "reset", "wait", "none", "unlock"}
      BY <1>3, <2>1, NoCallOK, Going
    <2>3. QED
      BY <1>1, <1>2, <1>3, <1>5, <2>1, <2>2 DEF RestInv
  <1>10. CASE EngineReset
    <2>1. drv'.at = "setup"
      BY <1>3, <1>10, Going DEF EngineReset
    <2>2. DOMAIN engine' = DOMAIN engine /\ engine'.busy = FALSE
      BY <1>3, <1>10 DEF EngineReset, RestInv
    <2>3. QED
      BY <1>2, <1>3, <1>5, <2>1, <2>2 DEF RestInv
  <1>11. CASE SetupReuse
    <2>1. On("setup") /\ drv.buf \in built /\ drv'.at = "desc" /\ drv'.buf = drv.buf /\ UNCHANGED engine
      BY <1>3, <1>11, Going DEF SetupReuse
    <2>2. QED
      BY <1>1, <1>2, <1>3, <1>5, <2>1 DEF RestInv, On
  <1>12. CASE Described
    <2>1. On("describing") /\ drv'.at = "transfer" /\ drv'.buf = drv.buf /\ UNCHANGED engine
      BY <1>3, <1>12, Going DEF Described, Answered
    <2>2. QED
      BY <1>1, <1>2, <1>3, <1>5, <2>1 DEF RestInv, On
  <1>13. CASE Transfer
    <2>1. drv'.at \in {"none", "unlock"}
      BY <1>3, <1>13, Going DEF Transfer
    <2>2. /\ DOMAIN engine' = {"busy", "eol", "enabled", "desc", "buf"}
          /\ engine'.buf = drv.buf /\ drv.buf \in built
      BY <1>3, <1>13 DEF Transfer, RestInv, On
    <2>3. QED
      BY <1>1, <1>2, <1>5, <2>1, <2>2 DEF RestInv
  <1>14. QED
    BY <1>6, <1>7, <1>8, <1>9, <1>10, <1>11, <1>12, <1>13 DEF Quiet

\* A translation begins with nothing looked up.
LEMMA AskLists ==
  ASSUME PageAligned, DriverInv, ListInv, BeginLock \/ SetupTranslate \/ Describe \/ BeginUnlock
  PROVE  LookInv' /\ FillInv' /\ RestInv'
  <1>1. /\ Player \in Threads /\ task \in [Threads -> Tasks]
        /\ drv \in Calls /\ AskInv /\ FillInv /\ RestInv
    BY DEF DriverInv, AskInv, ListInv, IInv, TypeOK
  <1>2. UNCHANGED <<table, lists, built, engine>>
    BY DEF BeginLock, SetupTranslate, Describe, BeginUnlock, Lock, Translate, Unlock, Enter
  <1>3. FillInv'
    BY <1>1, <1>2, FillKept
  <1>4. CASE SetupTranslate
    <2>1. /\ On("setup") /\ Enter(Player, "translate", drv.buf)
          /\ drv'.at = "building" /\ drv'.buf = drv.buf
      BY <1>1, <1>4, Going DEF SetupTranslate, Translate
    <2> DEFINE sure == drv.buf \in held
               r    == Entered("translate", drv.buf, sure)
    <2>2. task'[Player] = r /\ sure \in BOOLEAN /\ drv.buf \in Buffers
      BY <1>1, <2>1 DEF Enter, Entered, AskInv, On
    <2> HIDE DEF sure
    <2>3. r.op = "translate" /\ r.buf = drv.buf /\ r.at = "loop" /\ r.i = 0 /\ r.bus = <<>>
      BY <2>2, EnteredTask
    <2> HIDE DEF r
    <2>4. LookInv'
      BY <2>1, <2>2, <2>3 DEF LookInv, On, Idle, At
    <2>5. RestInv'
      BY <1>1, <1>2, <2>1 DEF RestInv, On
    <2>6. QED
      BY <1>3, <2>4, <2>5
  <1>5. CASE Describe
    <2>1. On("desc") /\ drv'.at = "describing" /\ drv'.buf = drv.buf
      BY <1>1, <1>5, Going DEF Describe
    <2>2. QED
      BY <1>1, <1>2, <1>3, <2>1 DEF LookInv, RestInv, On
  <1>6. CASE BeginLock \/ BeginUnlock
    <2>1. drv'.at \in {"locking", "unlocking"}
      BY <1>1, <1>6, Going DEF BeginLock, BeginUnlock
    <2>2. QED
      BY <1>1, <1>2, <1>3, <2>1 DEF LookInv, RestInv, On
  <1>7. QED
    BY <1>4, <1>5, <1>6

\* A page more is looked up.
LEMMA HelperLists ==
  ASSUME PageAligned, DriverInv, ListInv, PinInv', Helper,
         \A p \in Pinned : table'[p] = table[p]
  PROVE  LookInv' /\ FillInv' /\ RestInv'
  <1>1. /\ UNCHANGED <<drv, lists, built, engine>> /\ Step(Player) /\ Player \in Threads
        /\ task \in [Threads -> Tasks] /\ LookInv /\ CallOk(Player)
    BY DEF Helper, DriverInv, ListInv, IInv, TypeOK, CallInv
  <1>2. FillInv' /\ RestInv'
    BY <1>1, FillKept DEF ListInv, RestInv
  <1>3. CASE ~On("building")
    BY <1>1, <1>2, <1>3 DEF LookInv, On
  <1>4. CASE On("building")
    <2> DEFINE b    == drv.buf
               s    == task[Player]
               more == s.i + 1 < Items(b)
               a    == Address(PageOf(b, s.i))
               z    == task'[Player]
    <2>1. /\ s.op = "translate" /\ s.buf = b /\ b \in Buffers /\ ~Idle(Player)
          /\ s.at = "loop" /\ s.i < Items(b)
      BY <1>1, <1>4, HelperStep DEF LookInv, CallOk, At, Idle, Buf, DriverInv, AskInv
    <2>2. TranslatePage(Player)
      BY <1>1, <2>1 DEF Step, LockPresent, LockAbsent, LockRefused, PageIn, Regain, LockAgain, LockMark,
                        LockUndo, UnlockPage, Runs, At
    <2>3. /\ Len(s.bus) = s.i /\ s.i \in Nat /\ s.bus \in Seq(Frames \cup {Wild})
          /\ OwnPages(b) => \A k \in 1 .. s.i : s.bus[k] = table[PageOf(b, k - 1)]
      BY <1>1, <1>4, <2>1 DEF LookInv, Tasks
    <2>4. /\ z.op = "translate" /\ z.buf = b /\ z.bus = Append(s.bus, a)
          /\ z.i = (IF more THEN s.i + 1 ELSE 0) /\ z.at = (IF more THEN "loop" ELSE "none")
          /\ UNCHANGED table
      BY <1>1, <2>1, <2>2 DEF TranslatePage, Page, Tasks
    <2>5. Items(b) \in Nat \ {0}
      BY <2>1, BufferPages
    <2>6. Len(z.bus) = IF z.at = "none" THEN Items(b) ELSE z.i
      BY <2>1, <2>3, <2>4, <2>5
    <2>7. ASSUME OwnPages(b), NEW k \in 1 .. s.i + 1
          PROVE  z.bus[k] = table[PageOf(b, k - 1)]
      <3>1. CASE k \in 1 .. s.i
        BY <2>3, <2>4, <2>7, <3>1
      <3>2. CASE k = s.i + 1
        <4>1. PageOf(b, s.i) \in Pinned
          <5>1. s.i \in 0 .. Items(b) - 1
            BY <2>1, <2>3, <2>5
          <5>2. QED
            BY <2>7, <5>1 DEF OwnPages, Visited
        <4>2. a = table[PageOf(b, s.i)]
          BY <4>1 DEF Address, ListInv, PinInv
        <4>3. z.bus[k] = a /\ k - 1 = s.i
          BY <2>3, <2>4, <3>2
        <4>4. QED
          BY <4>2, <4>3
      <3>3. QED
        BY <2>3, <2>7, <3>1, <3>2
    <2>8. Len(z.bus) = s.i + 1
      BY <2>3, <2>4
    <2>9. LookInv'
      <3>1. /\ drv' = drv /\ table' = table /\ z = task'[Player]
        BY <1>1, <2>4
      <3> HIDE DEF z, s, a, more
      <3>2. OwnPages(b) => \A k \in 1 .. Len(z.bus) : z.bus[k] = table[PageOf(b, k - 1)]
        BY <2>7, <2>8
      <3>3. QED
        BY <2>4, <2>6, <3>1, <3>2 DEF LookInv, On, Idle, At, OwnPages
    <2>10. QED
      BY <1>2, <2>9
  <1>5. QED
    BY <1>3, <1>4

LEMMA KernelLists ==
  ASSUME PageAligned, DriverInv, ListInv, Kernel, \A p \in Pinned : table'[p] = table[p]
  PROVE  LookInv' /\ FillInv' /\ RestInv'
  <1>1. UNCHANGED <<drv, lists, built, engine, task>> /\ LookInv /\ CallOk(Player) /\ Player \in Threads
        /\ task[Player] \in Tasks
    BY DEF Kernel, Touch, Reclaim, ListInv, DriverInv, IInv, CallInv, TypeOK
  <1>2. FillInv' /\ RestInv'
    BY <1>1, FillKept DEF ListInv, RestInv
  <1>3. CASE ~On("building")
    BY <1>1, <1>2, <1>3 DEF LookInv, On
  <1>4. CASE On("building")
    <2> DEFINE b == drv.buf
               s == task[Player]
    <2>1. b \in Buffers /\ Items(b) \in Nat
      BY <1>4, BufferPages DEF DriverInv, AskInv, On
    <2>2. s.i \in Nat /\ Len(s.bus) \in Nat
      BY <1>1 DEF Tasks
    <2>3. Len(s.bus) <= Items(b)
      BY <1>1, <1>4, <2>1, <2>2 DEF LookInv, CallOk, Idle, At, Buf
    <2>4. OwnPages(b) => \A k \in 1 .. Items(b) : table'[PageOf(b, k - 1)] = table[PageOf(b, k - 1)]
      BY <2>1, RightStays
    <2>5. OwnPages(b) => \A k \in 1 .. Len(s.bus) : s.bus[k] = table'[PageOf(b, k - 1)]
      BY <1>1, <1>4, <2>1, <2>2, <2>3, <2>4 DEF LookInv
    <2>6. LookInv'
      BY <1>1, <1>4, <2>5 DEF LookInv, On, Idle, At, OwnPages
    <2>7. QED
      BY <1>2, <2>6
  <1>5. QED
    BY <1>3, <1>4

\* The table is filled with what was looked up.
LEMMA BuildLists ==
  ASSUME PageAligned, DriverInv, ListInv, SetupBuild, \A p \in Pinned : table'[p] = table[p]
  PROVE  LookInv' /\ FillInv' /\ RestInv'
  <1> DEFINE b   == drv.buf
             bus == task[Player].bus
  <1>1. /\ On("building") /\ Idle(Player) /\ UNCHANGED engine
        /\ lists' = [lists EXCEPT ![b] = bus] /\ built' = built \cup {b}
        /\ FillInv /\ LookInv /\ RestInv /\ b \in Sources /\ b \in Buffers /\ drv \in Calls
    BY DEF SetupBuild, Answered, ListInv, DriverInv, AskInv, On
  <1>2. drv'.at = "desc" /\ drv'.buf = b
    BY <1>1, Going DEF SetupBuild
  <1>3. bus \in Seq(Frames \cup {Wild}) /\ Len(bus) = Items(b) /\ Items(b) \in Nat
    BY <1>1, BufferPages DEF DriverInv, IInv, TypeOK, Tasks, LookInv
  <1>4. ASSUME NEW c \in Sources, c = b, OwnPages(c) PROVE bus = Right(c)'
    <2>1. \A k \in 1 .. Items(c) : bus[k] = table[PageOf(c, k - 1)]
      BY <1>1, <1>3, <1>4 DEF LookInv
    <2>2. bus = [k \in 1 .. Items(c) |-> bus[k]]
      BY <1>3, <1>4
    <2> HIDE DEF bus
    <2>3. bus = Right(c)
      BY <2>1, <2>2 DEF Right
    <2>4. Right(c)' = Right(c)
      BY <1>4, RightStays
    <2>5. QED
      BY <2>3, <2>4
  <1>5. FillInv'
    <2>1. built' \subseteq Sources /\ DOMAIN lists' = Sources
      BY <1>1 DEF FillInv
    <2> SUFFICES ASSUME NEW c \in built', OwnPages(c) PROVE lists'[c] = Right(c)'
      BY <2>1 DEF FillInv, OwnPages
    <2>2. CASE c = b
      BY <1>1, <1>4, <2>2 DEF FillInv
    <2>3. CASE c # b
      <3>1. c \in built /\ c \in Buffers /\ lists'[c] = lists[c]
        BY <1>1, <2>3 DEF FillInv
      <3>2. Right(c)' = Right(c)
        BY <3>1, RightStays
      <3>3. QED
        BY <1>1, <3>1, <3>2 DEF FillInv
    <2>4. QED
      BY <2>2, <2>3
  <1>6. RestInv' /\ LookInv'
    BY <1>1, <1>2 DEF RestInv, LookInv, On
  <1>7. QED
    BY <1>5, <1>6

LEMMA ListInductive ==
  ASSUME PageAligned, DriverInv, ListInv, [Next]_vars
  PROVE  ListInv'
  <1>1. PinInv' /\ \A p \in Pinned : table'[p] = table[p]
    BY PinnedStay DEF ListInv
  <1>2. Quiet \/ BeginLock \/ SetupTranslate \/ Describe \/ BeginUnlock \/ SetupBuild \/ Helper \/ Kernel
    BY DEF Next, Driver, Quiet
  <1>3. QED
    BY <1>1, <1>2, QuietLists, AskLists, HelperLists, KernelLists, BuildLists DEF ListInv

\* The engine never reads a table that is being written, and one it reads for a source the
\* program locked itself names the frames of that source, whichever call of
\* vixPlaybackCopyFrame filled it.
THEOREM ListCorrect ==
  ASSUME PageAligned, Disjoint, ~Smp
  PROVE  Spec => ListHolds
  <1>1. Init => ListInv
    <2> SUFFICES ASSUME Init PROVE ListInv
      OBVIOUS
    <2>1. PinInv /\ FillInv
      BY DEF Init, PinInv, Present, FillInv
    <2>2. drv.at = "none"
      BY NoCallOK DEF Init
    <2>3. LookInv /\ RestInv
      BY <2>2 DEF Init, LookInv, RestInv, On
    <2>4. QED
      BY <2>1, <2>3 DEF ListInv
  <1>2. DriverInv /\ ListInv /\ [Next]_vars => ListInv'
    BY ListInductive
  <1>3. ListInv => ReadsSource
    BY DEF ListInv, FillInv, RestInv, ReadsSource, OwnPages, Right
  <1>4. ListInv /\ [Next]_vars =>
          [engine.busy /\ engine'.busy /\ ~On("transfer") => lists'[engine.buf] = lists[engine.buf]]_vars
    <2> SUFFICES ASSUME ListInv, [Next]_vars, engine.busy PROVE UNCHANGED lists
      OBVIOUS
    <2>1. ~On("building")
      BY DEF ListInv, RestInv, On
    <2>2. Quiet \/ BeginLock \/ SetupTranslate \/ Describe \/ BeginUnlock \/ Helper \/ Kernel
      BY <2>1 DEF Next, Driver, Quiet, SetupBuild, Answered
    <2>3. QED
      BY <2>2 DEF Quiet, CopyFrame, EndLock, InitIrq, SyncDone, SyncWait, HwirqWait, EngineReset,
           SetupTooLarge, SetupReuse, Described, Transfer, EndUnlock, Complete, Interrupt, vars,
           BeginLock, SetupTranslate, Describe, BeginUnlock, Helper, Kernel
  <1>5. QED
    BY <1>1, <1>2, <1>3, <1>4, DriverInvariance, PTL DEF Spec, ListHolds
=============================================================================
