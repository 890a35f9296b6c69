-------------------------------- MODULE Mem --------------------------------
(***************************************************************************)
(* Physical pages and user memory (kalloc.c, vm.c, exec.c, and growproc,   *)
(* fork, exit and wait of proc.c): who owns each page while fork, exec and *)
(* sbrk of several processes run out of memory half way.                   *)
(*                                                                         *)
(* A page is a token: kmem.freelist is its length nfree, and a page table  *)
(* is the set of the pages it owns.  Each kalloc and each kfree, a section *)
(* under kmem.lock, is one step, so that calls of different processes race *)
(* for the last pages.  Addresses and sizes are in units of which PGSIZE   *)
(* make a page, and wrap around at UINT.  Calls that fail before they      *)
(* allocate anything leave the state alone and are no steps.               *)
(***************************************************************************)
EXTENDS Integers, FiniteSets, FiniteSetsExt

CONSTANTS
  Procs,       \* process slots
  initproc,    \* the first process; init.c only forks, execs and waits
  NPAGES,      \* pages kinit1 and kinit2 free
  PGSIZE,      \* units of a page
  NPTE,        \* pages one user page table page maps
  KERNBASE,    \* end of user memory
  UINT,        \* 2^32, in units
  Increments,  \* bound: arguments of sbrk
  SegEnds,     \* bound: vaddr + memsz of a program segment
  ArgSizes     \* bound: size of the arguments exec copies to the stack

ASSUME InitAssumption == initproc \in Procs
ASSUME SizeAssumption ==
  /\ {NPAGES, PGSIZE, NPTE, KERNBASE, UINT} \subseteq Nat \ {0}
  /\ KERNBASE % PGSIZE = 0 /\ UINT % PGSIZE = 0 /\ KERNBASE < UINT

VARIABLES
  nfree,    \* length of kmem.freelist
  kstack,   \* the process has a kernel stack
  cur,      \* p->pgdir, as the set of pages it owns
  new,      \* the page table a call of p builds, or frees
  sz,       \* p->sz
  state,    \* p->state, RUNNING and RUNNABLE as one
  parent,   \* p->parent
  loc,      \* where p is, and the local variables of its call
  hist,     \* history: memory before the last call of p, and whether it failed
  panicked  \* panic() has been called

procs == <<kstack, sz, state, parent>>
vars == <<nfree, cur, new, procs, loc, hist, panicked>>

VPages == 0 .. KERNBASE \div PGSIZE - 1
Dir == <<"dir", 0>>            \* the page directory
Kmap == <<"kmap", 0>>          \* the page table pages of the kernel half
Tab(v) == <<"tab", v \div NPTE>>
Pg(v) == <<"page", v>>
Parts == {Dir, Kmap} \cup {Tab(v) : v \in VPages} \cup {Pg(v) : v \in VPages}
Mapped(pt) == {v \in VPages : Pg(v) \in pt}

PGROUNDUP(x) == ((x + PGSIZE - 1) \div PGSIZE) * PGSIZE

\* The pages of a user memory of size x.
PagesOf(x) == {v \in VPages : v * PGSIZE < x}

\* Local variables: mem is a page not mapped yet, a the loop's address, from and
\* to the old and new size (exec's sz is from), child np of fork or p of wait,
\* inop whether exec holds the program's inode in a log operation.
Idle(p) == [pc |-> "user", call |-> "none", mem |-> FALSE, a |-> 0, from |-> 0,
            to |-> 0, child |-> p, inop |-> FALSE]

NoCall == [pages |-> {}, size |-> 0, failed |-> FALSE]

TypeOK ==
  /\ nfree \in 0 .. NPAGES
  /\ kstack \in [Procs -> BOOLEAN]
  /\ cur \in [Procs -> SUBSET Parts]
  /\ new \in [Procs -> SUBSET Parts]
  /\ sz \in [Procs -> 0 .. KERNBASE - 1]
  /\ state \in [Procs -> {"UNUSED", "EMBRYO", "RUNNABLE", "ZOMBIE"}]
  /\ parent \in [Procs -> Procs]
  /\ loc \in [Procs -> [pc : {"user", "setup", "kmap", "copy", "load", "loaded",
                              "args", "alloc", "map", "undo", "dealloc", "freevm"},
                        call : {"none", "fork", "exec", "stack", "done", "sbrk", "wait"},
                        mem : BOOLEAN, a : 0 .. UINT, from : 0 .. UINT, to : 0 .. UINT,
                        child : Procs, inop : BOOLEAN]]
  /\ hist \in [Procs -> [pages : SUBSET VPages, size : 0 .. UINT, failed : BOOLEAN]]
  /\ panicked \in BOOLEAN

\* userinit: the first process has one page, at address 0.
FirstImage == {Dir, Kmap, Tab(0), Pg(0)}

Init ==
  /\ nfree = NPAGES - 1 - Cardinality(FirstImage)
  /\ kstack = [p \in Procs |-> p = initproc]
  /\ cur = [p \in Procs |-> IF p = initproc THEN FirstImage ELSE {}]
  /\ new = [p \in Procs |-> {}]
  /\ sz = [p \in Procs |-> IF p = initproc THEN PGSIZE ELSE 0]
  /\ state = [p \in Procs |-> IF p = initproc THEN "RUNNABLE" ELSE "UNUSED"]
  /\ parent = [p \in Procs |-> initproc]
  /\ loc = [p \in Procs |-> Idle(p)]
  /\ hist = [p \in Procs |-> NoCall]
  /\ panicked = FALSE

At(p, l) == ~panicked /\ loc[p].pc = l

Become(p, l) == loc' = [loc EXCEPT ![p] = l]
Goto(p, l) == Become(p, [loc[p] EXCEPT !.pc = l])

\* A system call of p begins, if p can still execute its program, which is at
\* address 0: otherwise the page fault kills it (trap.c).
Enter(p, l) ==
  /\ At(p, "user") /\ state[p] = "RUNNABLE" /\ 0 \in Mapped(cur[p])
  /\ Become(p, l)
  /\ hist' = [hist EXCEPT ![p] =
                [pages |-> Mapped(cur[p]), size |-> sz[p], failed |-> FALSE]]

\* The call returns, -1 if it failed.
Return(p, failed) ==
  /\ Become(p, Idle(p))
  /\ hist' = [hist EXCEPT ![p] = IF failed THEN [@ EXCEPT !.failed = TRUE] ELSE NoCall]

kalloc == nfree > 0 /\ nfree' = nfree - 1
kfree == nfree' = nfree + 1
NoMemory == nfree = 0 /\ nfree' = 0

----------------------------------------------------------------------------
\* setupkvm, for fork and exec

SetupDir(p) ==
  /\ At(p, "setup")
  /\ \/ kalloc /\ new' = [new EXCEPT ![p] = {Dir}] /\ Goto(p, "kmap")
     \/ NoMemory /\ Goto(p, "freevm") /\ UNCHANGED new
  /\ UNCHANGED <<cur, procs, hist, panicked>>

SetupKmap(p) ==
  /\ At(p, "kmap")
  /\ \/ /\ kalloc
        /\ new' = [new EXCEPT ![p] = @ \cup {Kmap}]
        /\ Goto(p, IF loc[p].call = "fork" THEN "copy" ELSE "load")
     \/ NoMemory /\ Goto(p, "freevm") /\ UNCHANGED new
  /\ UNCHANGED <<cur, procs, hist, panicked>>

----------------------------------------------------------------------------
\* allocuvm and mappages; sbrk works on p->pgdir, fork and exec on a new table

Target(p) == IF loc[p].call = "sbrk" THEN cur[p] ELSE new[p]

SetTarget(p, pt) ==
  IF loc[p].call = "sbrk"
  THEN cur' = [cur EXCEPT ![p] = pt] /\ UNCHANGED new
  ELSE new' = [new EXCEPT ![p] = pt] /\ UNCHANGED cur

AllocPage(p) ==
  /\ At(p, "alloc") /\ loc[p].a < loc[p].to
  /\ \/ kalloc /\ Become(p, [loc[p] EXCEPT !.pc = "map", !.mem = TRUE])
     \/ NoMemory /\ Goto(p, "undo")
  /\ UNCHANGED <<cur, new, procs, hist, panicked>>

\* walkpgdir: a page table page is missing.
WalkAlloc(p) ==
  LET t == Tab(loc[p].a \div PGSIZE) IN
  /\ At(p, "map") /\ t \notin Target(p)
  /\ \/ kalloc /\ SetTarget(p, Target(p) \cup {t}) /\ UNCHANGED loc
     \/ /\ NoMemory
        /\ Goto(p, IF loc[p].call = "fork" THEN "freevm" ELSE "undo")
        /\ UNCHANGED <<cur, new>>
  /\ UNCHANGED <<procs, hist, panicked>>

MapPage(p) ==
  LET v == loc[p].a \div PGSIZE IN
  /\ At(p, "map") /\ Tab(v) \in Target(p)
  /\ panicked' = (Pg(v) \in Target(p))
  /\ SetTarget(p, Target(p) \cup {Pg(v)})
  /\ Become(p, [loc[p] EXCEPT !.pc = IF loc[p].call = "fork" THEN "copy" ELSE "alloc",
                              !.mem = FALSE, !.a = @ + PGSIZE])
  /\ UNCHANGED <<nfree, procs, hist>>

AllocDone(p) ==
  /\ At(p, "alloc") /\ loc[p].a >= loc[p].to
  /\ \/ /\ loc[p].call = "sbrk"
        /\ sz' = [sz EXCEPT ![p] = loc[p].to]
        /\ Return(p, FALSE)
     \/ /\ loc[p].call # "sbrk"
        /\ Become(p, [loc[p] EXCEPT !.pc = IF loc[p].call = "exec" THEN "loaded" ELSE "args",
                                    !.from = loc[p].to, !.a = 0])
        /\ UNCHANGED <<sz, hist>>
  /\ UNCHANGED <<nfree, cur, new, kstack, state, parent, panicked>>

\* What deallocuvm has still to free between the two sizes.
Excess(p) == {v \in Mapped(Target(p)) : PGROUNDUP(loc[p].from) <= v * PGSIZE
                                        /\ v * PGSIZE < loc[p].to}

DeallocPage(p) ==
  /\ At(p, "undo") \/ At(p, "dealloc")
  /\ Excess(p) # {}
  /\ kfree
  /\ SetTarget(p, Target(p) \ {Pg(Min(Excess(p)))})
  /\ UNCHANGED <<procs, loc, hist, panicked>>

\* Faulty variants: the page that could not be mapped is forgotten; growproc
\* sets the size although allocuvm failed.
UndoDoneLeaks(p) ==
  /\ At(p, "undo") /\ Excess(p) = {}
  /\ \/ loc[p].call = "sbrk" /\ Return(p, TRUE)
     \/ /\ loc[p].call # "sbrk"
        /\ Become(p, [loc[p] EXCEPT !.pc = "freevm", !.mem = FALSE]) /\ UNCHANGED hist
  /\ UNCHANGED <<nfree, cur, new, procs, panicked>>

UndoDoneGrows(p) ==
  /\ At(p, "undo") /\ Excess(p) = {}
  /\ IF loc[p].mem THEN kfree ELSE UNCHANGED nfree
  /\ \/ /\ loc[p].call = "sbrk"
        /\ sz' = [sz EXCEPT ![p] = loc[p].to] /\ Return(p, TRUE)
     \/ /\ loc[p].call # "sbrk"
        /\ Become(p, [loc[p] EXCEPT !.pc = "freevm", !.mem = FALSE]) /\ UNCHANGED <<sz, hist>>
  /\ UNCHANGED <<cur, new, kstack, state, parent, panicked>>

\* allocuvm returns 0, after it has freed the page it could not map.
UndoDone(p) ==
  /\ At(p, "undo") /\ Excess(p) = {}
  /\ IF loc[p].mem THEN kfree ELSE UNCHANGED nfree
  /\ \/ loc[p].call = "sbrk" /\ Return(p, TRUE)
     \/ /\ loc[p].call # "sbrk"
        /\ Become(p, [loc[p] EXCEPT !.pc = "freevm", !.mem = FALSE]) /\ UNCHANGED hist
  /\ UNCHANGED <<cur, new, procs, panicked>>

----------------------------------------------------------------------------
\* sbrk: growproc

Sbrk(p, n) ==
  LET newsz == (sz[p] + n) % UINT IN
  /\ p # initproc
  /\ \/ /\ n > 0 /\ sz[p] <= newsz /\ newsz < KERNBASE
        /\ Enter(p, [Idle(p) EXCEPT !.pc = "alloc", !.call = "sbrk",
                       !.a = PGROUNDUP(sz[p]), !.from = sz[p], !.to = newsz])
     \/ /\ n < 0 /\ newsz < sz[p]
        /\ Enter(p, [Idle(p) EXCEPT !.pc = "dealloc", !.call = "sbrk",
                       !.from = newsz, !.to = sz[p]])
  /\ UNCHANGED <<nfree, cur, new, procs, panicked>>

\* Faulty variant: the size is left alone.
DeallocDoneKeepsSize(p) ==
  /\ At(p, "dealloc") /\ Excess(p) = {}
  /\ Return(p, loc[p].from = 0)
  /\ UNCHANGED <<nfree, cur, new, procs, panicked>>

\* growproc takes the size 0 that deallocuvm returns for an error.
DeallocDone(p) ==
  /\ At(p, "dealloc") /\ Excess(p) = {}
  /\ sz' = [sz EXCEPT ![p] = IF loc[p].from = 0 THEN @ ELSE loc[p].from]
  /\ Return(p, loc[p].from = 0)
  /\ UNCHANGED <<nfree, cur, new, kstack, state, parent, panicked>>

----------------------------------------------------------------------------
\* fork: allocproc, copyuvm

Fork(p, q) ==
  /\ state[q] = "UNUSED"
  /\ kalloc
  /\ Enter(p, [Idle(p) EXCEPT !.pc = "setup", !.call = "fork", !.child = q])
  /\ kstack' = [kstack EXCEPT ![q] = TRUE]
  /\ state' = [state EXCEPT ![q] = "EMBRYO"]
  /\ UNCHANGED <<cur, new, sz, parent, panicked>>

CopyPage(p) ==
  /\ At(p, "copy") /\ loc[p].a < sz[p]
  /\ panicked' = (loc[p].a \div PGSIZE \notin Mapped(cur[p]))
  /\ \/ kalloc /\ Become(p, [loc[p] EXCEPT !.pc = "map", !.mem = TRUE])
     \/ NoMemory /\ Goto(p, "freevm")
  /\ UNCHANGED <<cur, new, procs, hist>>

ForkDone(p) ==
  LET q == loc[p].child IN
  /\ At(p, "copy") /\ loc[p].a >= sz[p]
  /\ cur' = [cur EXCEPT ![q] = new[p]]
  /\ new' = [new EXCEPT ![p] = {}]
  /\ sz' = [sz EXCEPT ![q] = sz[p]]
  /\ parent' = [parent EXCEPT ![q] = p]
  /\ state' = [state EXCEPT ![q] = "RUNNABLE"]
  /\ Return(p, FALSE)
  /\ UNCHANGED <<nfree, kstack, panicked>>

----------------------------------------------------------------------------
\* exec

Exec(p) ==
  /\ Enter(p, [Idle(p) EXCEPT !.pc = "setup", !.call = "exec", !.inop = TRUE])
  /\ UNCHANGED <<nfree, cur, new, procs, panicked>>

\* The next program header: allocuvm(pgdir, sz, e).
ExecSegment(p, e) ==
  /\ At(p, "load") /\ loc[p].call = "exec"
  /\ \/ /\ e >= KERNBASE \/ (e = 0 /\ loc[p].from = 0)
        /\ Goto(p, "freevm")
     \/ /\ e < KERNBASE /\ loc[p].from <= e /\ e # 0
        /\ Become(p, [loc[p] EXCEPT !.pc = "alloc", !.a = PGROUNDUP(loc[p].from), !.to = e])
     \/ /\ e < loc[p].from
        /\ Become(p, [loc[p] EXCEPT !.pc = "loaded", !.to = e])
  /\ UNCHANGED <<nfree, cur, new, procs, hist, panicked>>

\* loaduvm reads the segment into the pages that allocuvm mapped.
ExecLoad(p) ==
  /\ At(p, "loaded")
  /\ panicked' = ~(PagesOf(loc[p].to) \subseteq Mapped(new[p]))
  /\ Become(p, [loc[p] EXCEPT !.pc = "load", !.to = 0])
  /\ UNCHANGED <<nfree, cur, new, procs, hist>>

\* A malformed header, a segment that is not aligned, or a short read.
ExecBad(p) ==
  /\ At(p, "load") \/ At(p, "loaded")
  /\ Goto(p, "freevm")
  /\ UNCHANGED <<nfree, cur, new, procs, hist, panicked>>

\* All headers are read: two more pages, the guard page and the stack.
ExecStack(p) ==
  LET base == PGROUNDUP(loc[p].from) IN
  /\ At(p, "load")
  /\ Become(p, [loc[p] EXCEPT !.pc = IF base + 2 * PGSIZE >= KERNBASE THEN "freevm" ELSE "alloc",
                              !.call = "stack", !.inop = FALSE, !.a = base,
                              !.from = base, !.to = base + 2 * PGSIZE])
  /\ UNCHANGED <<nfree, cur, new, procs, hist, panicked>>

\* Arguments of size n: copyout fails at the guard page below the stack page.
ExecArgsTooLong(p, n) ==
  /\ At(p, "args") /\ n > PGSIZE
  /\ Goto(p, "freevm")
  /\ UNCHANGED <<nfree, cur, new, procs, hist, panicked>>

\* Commit to the new image, switchuvm, and go on to free the old one.
ExecCommit(p, n) ==
  /\ At(p, "args") /\ n <= PGSIZE
  /\ cur' = [cur EXCEPT ![p] = new[p]]
  /\ new' = [new EXCEPT ![p] = cur[p]]
  /\ sz' = [sz EXCEPT ![p] = loc[p].from]
  /\ Become(p, [loc[p] EXCEPT !.pc = "freevm", !.call = "done"])
  /\ UNCHANGED <<nfree, kstack, state, parent, hist, panicked>>

----------------------------------------------------------------------------
\* exit and wait

\* exit(), also of a process that a page fault has killed
Exit(p) ==
  /\ At(p, "user") /\ state[p] = "RUNNABLE" /\ p # initproc
  /\ state' = [state EXCEPT ![p] = "ZOMBIE"]
  /\ parent' = [q \in Procs |-> IF parent[q] = p THEN initproc ELSE parent[q]]
  /\ hist' = [hist EXCEPT ![p] = NoCall]
  /\ UNCHANGED <<nfree, cur, new, kstack, sz, loc, panicked>>

\* wait() finds a zombie: kfree(p->kstack), then freevm(p->pgdir).
Wait(p, q) ==
  /\ state[q] = "ZOMBIE" /\ parent[q] = p
  /\ Enter(p, [Idle(p) EXCEPT !.pc = "freevm", !.call = "wait", !.child = q])
  /\ kfree
  /\ kstack' = [kstack EXCEPT ![q] = FALSE]
  /\ new' = [new EXCEPT ![p] = cur[q]]
  /\ cur' = [cur EXCEPT ![q] = {}]
  /\ UNCHANGED <<sz, state, parent, panicked>>

----------------------------------------------------------------------------
\* freevm(new), after the kfree(mem) of copyuvm's failure path

\* User pages first, then page table pages, then the directory.
Victim(pt) == IF Mapped(pt) # {} THEN Pg(Min(Mapped(pt)))
              ELSE IF pt # {Dir} THEN CHOOSE x \in pt : x # Dir ELSE Dir

FreePart(p) ==
  /\ At(p, "freevm")
  /\ \/ /\ loc[p].mem
        /\ Become(p, [loc[p] EXCEPT !.mem = FALSE]) /\ UNCHANGED new
     \/ /\ ~loc[p].mem /\ new[p] # {}
        /\ new' = [new EXCEPT ![p] = @ \ {Victim(@)}] /\ UNCHANGED loc
  /\ kfree
  /\ UNCHANGED <<cur, procs, hist, panicked>>

Freed(p) == At(p, "freevm") /\ ~loc[p].mem /\ new[p] = {}

ForkFailed(p) ==
  LET q == loc[p].child IN
  /\ Freed(p) /\ loc[p].call = "fork"
  /\ kfree
  /\ kstack' = [kstack EXCEPT ![q] = FALSE]
  /\ state' = [state EXCEPT ![q] = "UNUSED"]
  /\ Return(p, TRUE)
  /\ UNCHANGED <<cur, new, sz, parent, panicked>>

\* exec returns: -1, with the inode and the operation given back if it still has
\* them, or 0 after the commit.
ExecReturn(p) ==
  /\ Freed(p) /\ loc[p].call \in {"exec", "stack", "done"}
  /\ Return(p, loc[p].call # "done")
  /\ UNCHANGED <<nfree, cur, new, procs, panicked>>

WaitDone(p) ==
  /\ Freed(p) /\ loc[p].call = "wait"
  /\ state' = [state EXCEPT ![loc[p].child] = "UNUSED"]
  /\ Return(p, FALSE)
  /\ UNCHANGED <<nfree, cur, new, kstack, sz, parent, panicked>>

----------------------------------------------------------------------------

Step(p) ==
  \/ SetupDir(p) \/ SetupKmap(p) \/ AllocPage(p) \/ WalkAlloc(p) \/ MapPage(p)
  \/ AllocDone(p) \/ DeallocPage(p) \/ UndoDone(p) \/ DeallocDone(p)
  \/ CopyPage(p) \/ ForkDone(p) \/ ExecLoad(p) \/ ExecBad(p) \/ ExecStack(p)
  \/ FreePart(p) \/ ForkFailed(p) \/ ExecReturn(p) \/ WaitDone(p)
  \/ \E e \in SegEnds : ExecSegment(p, e)
  \/ \E n \in ArgSizes : ExecArgsTooLong(p, n) \/ ExecCommit(p, n)

Next ==
  \/ \E p \in Procs : Step(p) \/ Exec(p) \/ Exit(p)
  \/ \E p \in Procs, n \in Increments : Sbrk(p, n)
  \/ \E p, q \in Procs : Fork(p, q) \/ Wait(p, q)

Spec == Init /\ [][Next]_vars
----------------------------------------------------------------------------

\* Every page that is not on the free list, with the place that refers to it.
Owned == {<<p, "kstack", Dir>> : p \in {q \in Procs : kstack[q]}}
         \cup {<<p, "mem", Dir>> : p \in {q \in Procs : loc[q].mem}}
         \cup UNION {{<<p, "cur", x>> : x \in cur[p]} : p \in Procs}
         \cup UNION {{<<p, "new", x>> : x \in new[p]} : p \in Procs}

\* Pages are neither lost nor freed twice: at every step of every call, also on
\* the ways back from a kalloc that failed in setupkvm, walkpgdir, allocuvm or
\* copyuvm, a page is free or has one owner (kalloc.c, vm.c).
PagesConserved == TypeOK /\ nfree + Cardinality(Owned) = NPAGES

\* A process back in user mode has all of the pages below its size and no other
\* one, unless sbrk has just freed its program (see FailedCallHarmless), and its
\* last call left nothing behind; copyuvm, mappages and loaduvm never panic.
ImageMatchesSize ==
  /\ ~panicked
  /\ \A p \in Procs : state[p] = "RUNNABLE" /\ loc[p].pc = "user" =>
       /\ new[p] = {}
       /\ Mapped(cur[p]) # {} => Mapped(cur[p]) = PagesOf(sz[p])
       /\ {Dir, Kmap} \cup {Tab(v) : v \in Mapped(cur[p])} \subseteq cur[p]

\* A fork, exec or sbrk that returns -1 has left the caller's memory and size as
\* they were; the exception is sbrk to size 0, which frees every page, and then
\* returns -1 because growproc takes deallocuvm's 0 for an error.
FailedCallHarmless ==
  \A p \in Procs : state[p] = "RUNNABLE" /\ loc[p].pc = "user" /\ hist[p].failed =>
    /\ sz[p] = hist[p].size
    /\ Mapped(cur[p]) \in {hist[p].pages, {}}
============================================================================
