--------------------------- MODULE WasmPoolProofs ---------------------------
(***************************************************************************)
(* Proofs about the engine's cache and pool: types, sandboxes used by one  *)
(* execution at a time, and code that is fresh unless an invalidation was  *)
(* overtaken.                                                              *)
(***************************************************************************)
EXTENDS WasmPool, Integers, TLAPS, FiniteSetTheorems

(* --- The invariant --------------------------------------------------------- *)

\* Code, pools and floors are among those there have been.
Issued ==
  /\ pool = None => slots = {}
  /\ \A d \in deploys : d.code <= stored
  /\ \A x \in Executions : /\ exec[x].code <= stored
                           /\ exec[x].floor <= answered
                           /\ exec[x].pool <= created
  /\ \A x \in Executions : exec[x].at \in {"acquire", "running"} => exec[x].pool # None

\* A sandbox is known by its number.
Numbered ==
  /\ \A s \in slots : s.id <= serial
  /\ \A s, t \in slots : s.id = t.id => s = t
  /\ \A x \in Executions : Running(x) => exec[x].box.id <= serial

\* No older than a deploy that has returned ...
Current(code) == code >= answered

\* ... or dropped the compiled module.
Young(code) == Current(code) /\ \A d \in deploys : d.at = "pool" => code >= d.code

\* Whatever the cache, the pool and the executions on their way to either hold
\* is fresh; so is what a running execution will return to the pool.
Fresher ==
  /\ cached # None => Young(cached)
  /\ \A s \in slots : Current(s.code)
  /\ \A x \in Executions :
       /\ exec[x].at = "compile" => Young(exec[x].code)
       /\ exec[x].at = "pool" => Current(exec[x].code)
       /\ exec[x].at = "acquire" /\ ~Dropped(x) => Current(exec[x].code)
       /\ Running(x) /\ ~Dropped(x) => Current(exec[x].box.code)
       /\ Running(x) => exec[x].box.code >= exec[x].floor

TypeInv == TypeOK /\ Issued
BoxInv == Numbered /\ OneAtATime
PoolInv == TypeInv /\ BoxInv /\ (overtaken \/ Fresher)

(* --- Types ----------------------------------------------------------------- *)

\* An execution is a record of these fields.
LEMMA ExecutionParts ==
  ASSUME TypeInv, NEW x \in Executions
  PROVE  /\ exec[x] \in Execution
         /\ exec[x].code \in Nat /\ exec[x].floor \in Nat /\ exec[x].pool \in Nat
         /\ exec[x].box \in Sandbox
BY DEF TypeInv, TypeOK, Execution

\* The sandboxes of a new pool fit its channel.
LEMMA FreshFits ==
  ASSUME NEW code \in Nat, serial \in Nat
  PROVE  /\ Fresh(code, PoolSize) \subseteq Sandbox
         /\ IsFiniteSet(Fresh(code, PoolSize))
         /\ Cardinality(Fresh(code, PoolSize)) <= PoolSize
<1> DEFINE f == [i \in 1..PoolSize |-> [id |-> serial + i, code |-> code]]
<1>1. IsFiniteSet(1..PoolSize) /\ Cardinality(1..PoolSize) = PoolSize
  BY FS_Interval, Sizes
<1>2. f \in Surjection(1..PoolSize, Fresh(code, PoolSize))
  BY DEF Surjection, Fresh
<1>3. /\ IsFiniteSet(Fresh(code, PoolSize))
      /\ Cardinality(Fresh(code, PoolSize)) <= Cardinality(1..PoolSize)
  BY <1>1, <1>2, FS_Surjection
<1>4. Fresh(code, PoolSize) \subseteq Sandbox
  BY Sizes DEF Fresh, Sandbox
<1> QED
  BY <1>1, <1>3, <1>4

\* A step of x to another place, with nothing else of it changed.
LEMMA MovedOn ==
  ASSUME TypeInv, NEW x \in Executions, NEW at \in {"pool", "failed", "panicked", "done"},
         To(x, at), stored' = stored, answered' = answered, created' = created,
         pool' = pool, slots' = slots, deploys' = deploys, serial' = serial,
         cached' \in 0..stored, overtaken' = overtaken
  PROVE  TypeInv'
<1>1. exec' \in [Executions -> Execution]
  BY DEF TypeInv, TypeOK, To, Execution
<1>2. TypeOK'
  BY <1>1 DEF TypeInv, TypeOK
<1>3. Issued'
  BY DEF TypeInv, TypeOK, Issued, To
<1> QED
  BY <1>2, <1>3 DEF TypeInv

LEMMA TypeLookUp ==
  ASSUME TypeInv, NEW x \in Executions, LookUp(x)
  PROVE  TypeInv'
<1> DEFINE e == [exec[x] EXCEPT !.at = IF cached = None THEN "load" ELSE "pool",
                                 !.code = cached, !.floor = answered]
<1>a. e \in Execution
  <2>1. cached \in Nat /\ answered \in Nat
    BY DEF TypeInv, TypeOK
  <2> QED
    BY <2>1, ExecutionParts DEF Execution
<1>b. exec' = [exec EXCEPT ![x] = e]
  BY DEF LookUp
<1>1. exec' \in [Executions -> Execution]
  BY <1>a, <1>b DEF TypeInv, TypeOK
<1>2. TypeOK'
  BY <1>1 DEF TypeInv, TypeOK, LookUp
<1>3. Issued'
  BY ExecutionParts DEF TypeInv, TypeOK, Issued, LookUp
<1> QED
  BY <1>2, <1>3 DEF TypeInv

LEMMA TypeLoad ==
  ASSUME TypeInv, NEW x \in Executions, Load(x)
  PROVE  TypeInv'
<1>1. exec' \in [Executions -> Execution]
  BY ZenonT(30) DEF TypeInv, TypeOK, Load, SetCode, Execution
<1>2. TypeOK'
  BY <1>1 DEF TypeInv, TypeOK, Load
<1>3. Issued'
  BY DEF TypeInv, TypeOK, Issued, Load, SetCode
<1> QED
  BY <1>2, <1>3 DEF TypeInv

LEMMA TypeCompile ==
  ASSUME TypeInv, NEW x \in Executions, Compile(x)
  PROVE  TypeInv'
<1>1. cached' \in 0..stored
  BY ExecutionParts DEF TypeInv, TypeOK, Issued, Compile
<1> QED
  BY <1>1, MovedOn DEF Compile

LEMMA TypePoolFor ==
  ASSUME TypeInv, NEW x \in Executions, PoolFor(x)
  PROVE  TypeInv'
<1>1. /\ pool' \in 0..created' /\ pool' # None /\ created' >= created
      /\ created' \in Nat /\ serial' \in Nat
  BY Sizes DEF TypeInv, TypeOK, PoolFor, None
<1>2. slots' \subseteq Sandbox /\ IsFiniteSet(slots') /\ Cardinality(slots') <= PoolSize
  BY FreshFits, ExecutionParts DEF TypeInv, TypeOK, PoolFor
<1>3. exec' \in [Executions -> Execution]
  <2> DEFINE e == [exec[x] EXCEPT !.at = "acquire", !.pool = pool']
  <2>1. pool' \in Nat
    BY <1>1
  <2>2. e \in Execution
    BY <2>1, ExecutionParts DEF Execution
  <2>3. exec' = [exec EXCEPT ![x] = e]
    BY DEF PoolFor
  <2> QED
    BY <2>2, <2>3 DEF TypeInv, TypeOK
<1>4. TypeOK'
  BY <1>1, <1>2, <1>3 DEF TypeInv, TypeOK, PoolFor
<1>5. Issued'
  <2>1. \A y \in Executions : /\ exec'[y].code = exec[y].code
                              /\ exec'[y].floor = exec[y].floor
                              /\ exec'[y].pool <= created'
                              /\ exec'[y].at \in {"acquire", "running"} =>
                                   exec'[y].pool # None
    BY <1>1, ExecutionParts DEF TypeInv, TypeOK, Issued, PoolFor
  <2> QED
    BY <1>1, <2>1 DEF TypeInv, Issued, PoolFor
<1> QED
  BY <1>4, <1>5 DEF TypeInv

LEMMA TypeUse ==
  ASSUME TypeInv, NEW x \in Executions, NEW s \in Sandbox, exec[x].at = "acquire",
         Use(x, s), slots' = slots \/ slots' = slots \ {s}, serial' \in Nat,
         UNCHANGED <<stored, cached, pool, created, deploys, answered, overtaken>>
  PROVE  TypeInv'
<1>1. exec' \in [Executions -> Execution]
  BY ZenonT(30) DEF TypeInv, TypeOK, Use, Execution
<1>2. IsFiniteSet(slots') /\ Cardinality(slots') <= PoolSize /\ slots' \subseteq slots
  <2>1. IsFiniteSet(slots) /\ Cardinality(slots) <= PoolSize /\ Cardinality(slots) \in Nat
    BY FS_CardinalityType DEF TypeInv, TypeOK
  <2>2. /\ IsFiniteSet(slots \ {s})
        /\ Cardinality(slots \ {s}) \in {Cardinality(slots), Cardinality(slots) - 1}
    BY <2>1, FS_RemoveElement
  <2> QED
    BY <2>1, <2>2, Sizes
<1>3. TypeOK'
  BY <1>1, <1>2 DEF TypeInv, TypeOK
<1>4. Issued'
  BY <1>2 DEF TypeInv, TypeOK, Issued, Use
<1> QED
  BY <1>3, <1>4 DEF TypeInv

LEMMA TypeSucceed ==
  ASSUME TypeInv, NEW x \in Executions, Succeed(x)
  PROVE  TypeInv'
<1>1. CASE slots' = slots
  BY <1>1, MovedOn DEF Succeed, TypeInv, TypeOK
<1>2. CASE slots' # slots
  <2>1. To(x, "done") /\ ~Dropped(x) /\ Free /\ slots' = slots \cup {exec[x].box}
    BY <1>2 DEF Succeed
  <2>2. exec' \in [Executions -> Execution]
    BY <2>1 DEF TypeInv, TypeOK, To, Execution
  <2>3. IsFiniteSet(slots') /\ Cardinality(slots') <= PoolSize
    <3>1. IsFiniteSet(slots) /\ Cardinality(slots) < PoolSize /\ Cardinality(slots) \in Nat
      BY <2>1, FS_CardinalityType DEF TypeInv, TypeOK, Free
    <3>2. /\ IsFiniteSet(slots')
          /\ Cardinality(slots') \in {Cardinality(slots), Cardinality(slots) + 1}
      BY <2>1, <3>1, FS_AddElement
    <3> QED
      BY <3>1, <3>2, Sizes
  <2>4. TypeOK'
    BY <2>1, <2>2, <2>3, ExecutionParts DEF TypeInv, TypeOK, Succeed
  <2>5. pool # None
    BY <2>1 DEF TypeInv, Issued, Succeed, Dropped
  <2>6. Issued'
    BY <2>1, <2>5 DEF TypeInv, TypeOK, Issued, Succeed, To
  <2> QED
    BY <2>4, <2>6 DEF TypeInv
<1> QED
  BY <1>1, <1>2

LEMMA TypeExecute ==
  ASSUME TypeInv, NEW x \in Executions, Execute(x)
  PROVE  TypeInv'
<1>1. CASE AcquirePooled(x)
  BY <1>1, TypeUse DEF AcquirePooled, Taken, TypeInv, TypeOK
<1>2. CASE AcquireFresh(x)
  <2>1. [id |-> serial + 1, code |-> exec[x].code] \in Sandbox /\ serial' \in Nat
    BY <1>2, ExecutionParts DEF AcquireFresh, TypeInv, TypeOK, Sandbox
  <2> QED
    BY <1>2, <2>1, TypeUse DEF AcquireFresh
<1>3. CASE AcquireNil(x) \/ Reject(x) \/ CannotStart(x)
  BY <1>3, MovedOn DEF AcquireNil, Reject, CannotStart, TypeInv, TypeOK
<1> QED
  BY <1>1, <1>2, <1>3, TypeLookUp, TypeLoad, TypeCompile, TypePoolFor, TypeSucceed
  DEF Execute

LEMMA TypeDeploys ==
  ASSUME TypeInv, SaveContract \/ \E d \in deploys : DropCache(d) \/ DropPool(d)
  PROVE  TypeInv'
<1>1. CASE SaveContract
  <2>1. TypeOK'
    BY <1>1 DEF TypeInv, TypeOK, SaveContract, Deploy
  <2>2. Issued'
    BY <1>1, ExecutionParts DEF TypeInv, TypeOK, Issued, SaveContract, Deploy
  <2> QED
    BY <2>1, <2>2 DEF TypeInv
<1>2. ASSUME NEW d \in deploys, DropCache(d)
      PROVE  TypeInv'
  <2>1. TypeOK'
    BY <1>2 DEF TypeInv, TypeOK, DropCache, Deploy, None
  <2>2. Issued'
    BY <1>2 DEF TypeInv, TypeOK, Issued, DropCache, Deploy
  <2> QED
    BY <2>1, <2>2 DEF TypeInv
<1>3. ASSUME NEW d \in deploys, DropPool(d)
      PROVE  TypeInv'
  <2>1. d.code \in Nat /\ d.code <= stored
    BY DEF TypeInv, TypeOK, Issued, Deploy
  <2>2. answered' \in 0..stored /\ answered' >= answered
    BY <1>3, <2>1 DEF TypeInv, TypeOK, DropPool
  <2>3. TypeOK'
    BY <1>3, <2>2, FS_EmptySet, Sizes DEF TypeInv, TypeOK, DropPool, None
  <2>4. Issued'
    BY <1>3, <2>2, ExecutionParts DEF TypeInv, TypeOK, Issued, DropPool
  <2> QED
    BY <2>3, <2>4 DEF TypeInv
<1> QED
  BY <1>1, <1>2, <1>3

LEMMA TypeStep == TypeInv /\ [Next]_vars => TypeInv'
<1> SUFFICES ASSUME TypeInv, [Next]_vars PROVE TypeInv'
  OBVIOUS
<1>1. CASE UNCHANGED vars
  BY <1>1 DEF vars, TypeInv, TypeOK, Issued
<1> QED
  BY <1>1, TypeExecute, TypeDeploys DEF Next

\* Only x moves, and of it only the place.
LEMMA ToParts ==
  ASSUME TypeInv, NEW x \in Executions, NEW at, To(x, at)
  PROVE  /\ exec'[x] = [exec[x] EXCEPT !.at = at] /\ exec'[x].at = at
         /\ exec'[x].code = exec[x].code /\ exec'[x].pool = exec[x].pool
         /\ exec'[x].box = exec[x].box /\ exec'[x].floor = exec[x].floor
         /\ \A y \in Executions \ {x} : exec'[y] = exec[y]
<1>1. exec'[x] = [exec[x] EXCEPT !.at = at] /\ exec[x] \in Execution
  BY DEF To, TypeInv, TypeOK
<1>2. \A y \in Executions \ {x} : exec'[y] = exec[y]
  BY DEF To, TypeInv, TypeOK
<1> QED
  BY <1>1, <1>2 DEF Execution

(* --- Sandboxes -------------------------------------------------------------- *)

LEMMA SandboxParts ==
  ASSUME TypeInv
  PROVE  /\ serial \in Nat
         /\ \A s \in slots : s \in Sandbox /\ s.id \in Nat /\ s.code \in Nat
         /\ \A x \in Executions : exec[x].box.id \in Nat /\ exec[x].box.code \in Nat
BY ExecutionParts DEF TypeInv, TypeOK, Sandbox

\* Nobody starts to use a sandbox and none comes into the pool.
LEMMA BoxKept ==
  ASSUME BoxInv, slots' \subseteq slots, serial' = serial,
         \A y \in Executions : Running(y)' => Running(y) /\ exec'[y].box = exec[y].box
  PROVE  BoxInv'
<1>1. Numbered'
  BY DEF BoxInv, Numbered
<1>2. OneAtATime'
  BY DEF BoxInv, OneAtATime
<1> QED
  BY <1>1, <1>2 DEF BoxInv

\* x begins to use a sandbox that nobody else has.
LEMMA BoxUsed ==
  ASSUME TypeInv, BoxInv, NEW x \in Executions, NEW s \in Sandbox, Use(x, s),
         slots' \subseteq slots, serial' \in Nat, serial' >= serial, s.id <= serial',
         \A t \in slots' : t.id # s.id,
         \A y \in Executions : Running(y) => exec[y].box.id # s.id
  PROVE  BoxInv'
<1>1. exec'[x].box = s /\ \A y \in Executions \ {x} : exec'[y] = exec[y]
  BY DEF Use, TypeInv, TypeOK
<1>2. Numbered'
  BY <1>1, SandboxParts DEF BoxInv, Numbered, Running, Sandbox
<1>3. OneAtATime'
  BY <1>1 DEF BoxInv, OneAtATime, Running
<1> QED
  BY <1>2, <1>3 DEF BoxInv

LEMMA BoxPoolFor ==
  ASSUME TypeInv, BoxInv, NEW x \in Executions, PoolFor(x)
  PROVE  BoxInv'
<1>1. \A y \in Executions : Running(y)' => Running(y) /\ exec'[y].box = exec[y].box
  BY DEF PoolFor, Running, TypeInv, TypeOK
<1>2. CASE pool # None
  BY <1>1, <1>2, BoxKept DEF PoolFor
<1>3. CASE pool = None
  <2>1. serial' = serial + PoolSize /\ slots' = Fresh(exec[x].code, PoolSize)
    BY <1>3 DEF PoolFor
  <2>2. \A s \in slots' : s.id > serial /\ s.id <= serial'
    BY <2>1, SandboxParts, Sizes DEF Fresh
  <2>3. \A s, t \in slots' : s.id = t.id => s = t
    BY <2>1 DEF Fresh
  <2>4. Numbered'
    BY <1>1, <2>1, <2>2, <2>3, SandboxParts, Sizes DEF BoxInv, Numbered
  <2>5. \A y \in Executions : Running(y) => exec[y].box.id <= serial
    BY DEF BoxInv, Numbered
  <2>6. ASSUME NEW y \in Executions, Running(y)', NEW s \in slots'
        PROVE  s.id # exec'[y].box.id
    <3>1. exec'[y].box.id <= serial /\ exec'[y].box.id \in Nat
      BY <1>1, <2>5, <2>6, SandboxParts
    <3>2. s.id > serial /\ s.id \in Int
      BY <2>1, <2>2, SandboxParts, Sizes DEF Fresh
    <3> QED
      BY <3>1, <3>2, SandboxParts
  <2>7. OneAtATime'
    BY <1>1, <2>6 DEF BoxInv, OneAtATime
  <2> QED
    BY <2>4, <2>7 DEF BoxInv
<1> QED
  BY <1>2, <1>3

LEMMA BoxSucceed ==
  ASSUME TypeInv, BoxInv, NEW x \in Executions, Succeed(x)
  PROVE  BoxInv'
<1>1. /\ ~Running(x)'
      /\ \A y \in Executions : Running(y)' => Running(y) /\ exec'[y].box = exec[y].box
  <2>1. To(x, "panicked") \/ To(x, "done")
    BY DEF Succeed
  <2>2. /\ exec'[x].at \in {"panicked", "done"}
        /\ \A y \in Executions \ {x} : exec'[y] = exec[y]
    <3>1. CASE To(x, "panicked")
      BY <3>1, ToParts
    <3>2. CASE To(x, "done")
      BY <3>2, ToParts
    <3> QED
      BY <2>1, <3>1, <3>2
  <2> QED
    BY <2>2 DEF Running
<1>2. CASE slots' = slots
  BY <1>1, <1>2, BoxKept DEF Succeed
<1>3. CASE slots' = slots \cup {exec[x].box}
  <2>1. Running(x) /\ serial' = serial
    BY DEF Succeed, Running
  <2>2. Numbered'
    BY <1>1, <1>3, <2>1 DEF BoxInv, Numbered, OneAtATime
  <2>3. OneAtATime'
    BY <1>1, <1>3, <2>1 DEF BoxInv, OneAtATime
  <2> QED
    BY <2>2, <2>3 DEF BoxInv
<1> QED
  BY <1>2, <1>3 DEF Succeed

LEMMA BoxExecute ==
  ASSUME TypeInv, BoxInv, NEW x \in Executions, Execute(x)
  PROVE  BoxInv'
<1>1. CASE LookUp(x) \/ Load(x) \/ Compile(x)
  <2>1. /\ exec'[x].at \in {"load", "compile", "pool"}
        /\ \A y \in Executions \ {x} : exec'[y] = exec[y]
    <3>1. CASE LookUp(x)
      BY <3>1 DEF LookUp, TypeInv, TypeOK, Execution
    <3>2. CASE Load(x)
      BY <3>2 DEF Load, SetCode, TypeInv, TypeOK, Execution
    <3>3. CASE Compile(x)
      BY <3>3, ToParts DEF Compile
    <3> QED
      BY <1>1, <3>1, <3>2, <3>3
  <2> QED
    BY <1>1, <2>1, BoxKept DEF LookUp, Load, Compile, Running
<1>2. CASE AcquireNil(x) \/ Reject(x) \/ CannotStart(x)
  <2>1. /\ exec'[x].at \in {"panicked", "failed"}
        /\ \A y \in Executions \ {x} : exec'[y] = exec[y]
    <3>1. CASE To(x, "panicked")
      BY <3>1, ToParts
    <3>2. CASE To(x, "failed")
      BY <3>2, ToParts
    <3> QED
      BY <1>2, <3>1, <3>2 DEF AcquireNil, Reject, CannotStart
  <2> QED
    BY <1>2, <2>1, BoxKept DEF AcquireNil, Reject, CannotStart, Running
<1>3. CASE AcquirePooled(x)
  <2>1. PICK s \in slots : Use(x, s) /\ slots' = slots \ {s}
    BY <1>3 DEF AcquirePooled, Taken
  <2>2. serial' = serial /\ s \in Sandbox
    BY <1>3, SandboxParts DEF AcquirePooled
  <2>3. \A t \in slots' : t.id # s.id
    BY <2>1 DEF BoxInv, Numbered
  <2>4. \A y \in Executions : Running(y) => exec[y].box.id # s.id
    BY DEF BoxInv, OneAtATime
  <2> QED
    BY <2>1, <2>2, <2>3, <2>4, BoxUsed, SandboxParts DEF BoxInv, Numbered
<1>4. CASE AcquireFresh(x)
  <2> DEFINE s == [id |-> serial + 1, code |-> exec[x].code]
  <2>1. Use(x, s) /\ slots' = slots /\ serial' = serial + 1 /\ slots = {}
    BY <1>4 DEF AcquireFresh
  <2>2. s \in Sandbox /\ s.id = serial + 1
    BY SandboxParts, ExecutionParts DEF Sandbox
  <2>3. \A y \in Executions : Running(y) => exec[y].box.id # s.id
    BY <2>2, SandboxParts DEF BoxInv, Numbered
  <2>4. serial' \in Nat /\ serial' >= serial /\ s.id <= serial'
    BY <2>1, SandboxParts
  <2> HIDE DEF s
  <2> QED
    BY <2>1, <2>2, <2>3, <2>4, BoxUsed
<1> QED
  BY <1>1, <1>2, <1>3, <1>4, BoxPoolFor, BoxSucceed DEF Execute

LEMMA BoxStep == TypeInv /\ BoxInv /\ [Next]_vars => BoxInv'
<1> SUFFICES ASSUME TypeInv, BoxInv, [Next]_vars PROVE BoxInv'
  OBVIOUS
<1>1. CASE UNCHANGED vars
  BY <1>1, BoxKept DEF vars, Running
<1>2. CASE SaveContract
  BY <1>2, BoxKept DEF SaveContract, Running
<1>3. CASE \E d \in deploys : DropCache(d) \/ DropPool(d)
  BY <1>3, BoxKept DEF DropCache, DropPool, Running
<1> QED
  BY <1>1, <1>2, <1>3, BoxExecute DEF Next

(* --- Fresh code -------------------------------------------------------------- *)

\* A deploy that has returned or dropped the module has saved its code.
LEMMA StoredIsYoung ==
  ASSUME TypeInv
  PROVE  Young(stored)
BY DEF TypeInv, TypeOK, Issued, Young, Current

LEMMA YoungIsCurrent ==
  ASSUME NEW code, Young(code)
  PROVE  Current(code)
BY DEF Young

\* x goes on, the others, the deploys and the pool stay.
LEMMA FreshKept ==
  ASSUME TypeInv, Fresher, NEW x \in Executions,
         \A y \in Executions \ {x} : exec'[y] = exec[y],
         UNCHANGED <<pool, deploys, answered>>,
         cached' = cached \/ Young(cached'),
         \A s \in slots' : s \in slots \/ Current(s.code),
         exec'[x].at = "compile" => Young(exec'[x].code),
         exec'[x].at = "pool" => Current(exec'[x].code),
         exec'[x].at = "acquire" /\ exec'[x].pool = pool => Current(exec'[x].code),
         Running(x)' => /\ Current(exec'[x].box.code)
                        /\ exec'[x].box.code >= exec'[x].floor
  PROVE  Fresher'
<1>1. cached' # None => Young(cached')
  BY DEF Fresher
<1>2. \A s \in slots' : Current(s.code)
  BY DEF Fresher
<1>3. \A c : (Young(c) => Young(c)') /\ (Current(c) => Current(c)')
  BY DEF Young, Current
<1>4. ASSUME NEW y \in Executions
      PROVE  /\ exec'[y].at = "compile" => Young(exec'[y].code)
             /\ exec'[y].at = "pool" => Current(exec'[y].code)
             /\ exec'[y].at = "acquire" /\ exec'[y].pool = pool => Current(exec'[y].code)
             /\ Running(y)' /\ exec'[y].pool = pool => Current(exec'[y].box.code)
             /\ Running(y)' => exec'[y].box.code >= exec'[y].floor
  BY DEF Fresher, Dropped, Running
<1> QED
  BY <1>1, <1>2, <1>4 DEF Fresher, Dropped, Young, Current

LEMMA FreshStart ==
  ASSUME TypeInv, Fresher, NEW x \in Executions, LookUp(x) \/ Load(x) \/ Compile(x)
  PROVE  Fresher'
<1>1. CASE LookUp(x)
  <2>1. /\ exec'[x].at = IF cached = None THEN "load" ELSE "pool"
        /\ exec'[x].code = cached
        /\ \A y \in Executions \ {x} : exec'[y] = exec[y]
    BY <1>1 DEF LookUp, TypeInv, TypeOK, Execution
  <2>2. exec'[x].at = "pool" => Current(exec'[x].code)
    BY <2>1, YoungIsCurrent DEF Fresher
  <2>3. exec'[x].at \in {"load", "pool"}
    BY <2>1
  <2>4. /\ UNCHANGED <<pool, deploys, answered, cached, slots>>
    BY <1>1 DEF LookUp
  <2> QED
    BY <2>1, <2>2, <2>3, <2>4, FreshKept DEF Running
<1>2. CASE Load(x)
  <2>1. /\ exec'[x].at = "compile" /\ exec'[x].code = stored
        /\ \A y \in Executions \ {x} : exec'[y] = exec[y]
    BY <1>2 DEF Load, SetCode, TypeInv, TypeOK, Execution
  <2> QED
    BY <1>2, <2>1, StoredIsYoung, FreshKept DEF Load, Running
<1>3. CASE Compile(x)
  <2>1. Young(exec[x].code) /\ cached' = exec[x].code
    BY <1>3 DEF Compile, Fresher
  <2>2. /\ exec'[x].at = "pool" /\ exec'[x].code = exec[x].code
        /\ \A y \in Executions \ {x} : exec'[y] = exec[y]
    BY <1>3, ToParts DEF Compile
  <2> QED
    BY <1>3, <2>1, <2>2, YoungIsCurrent, FreshKept DEF Compile, Running
<1> QED
  BY <1>1, <1>2, <1>3

\* An execution whose pool is another than that of the new number.
LEMMA FreshPoolFor ==
  ASSUME TypeInv, Fresher, NEW x \in Executions, PoolFor(x)
  PROVE  Fresher'
<1>1. /\ exec'[x].at = "acquire" /\ exec'[x].code = exec[x].code
      /\ \A y \in Executions \ {x} : exec'[y] = exec[y]
  BY DEF PoolFor, TypeInv, TypeOK, Execution
<1>2. Current(exec[x].code)
  BY DEF PoolFor, Fresher
<1>3. CASE pool # None
  BY <1>1, <1>2, <1>3, FreshKept DEF PoolFor, Running
<1>4. CASE pool = None
  <2>1. /\ pool' = created + 1 /\ slots' = Fresh(exec[x].code, PoolSize)
        /\ UNCHANGED <<cached, deploys, answered>>
    BY <1>4 DEF PoolFor
  <2>2. \A s \in slots' : Current(s.code)
    BY <1>2, <2>1 DEF Fresh
  <2>3. \A y \in Executions \ {x} : exec'[y].pool # pool'
    BY <1>1, <2>1, ExecutionParts DEF TypeInv, TypeOK, Issued
  <2>4. \A y \in Executions \ {x} :
          /\ exec'[y].at = "compile" => Young(exec'[y].code)
          /\ exec'[y].at = "pool" => Current(exec'[y].code)
          /\ Running(y)' => exec'[y].box.code >= exec'[y].floor
    BY <1>1 DEF Fresher, Running
  <2>5. cached' # None => Young(cached')
    BY <2>1 DEF Fresher
  <2> QED
    BY <1>1, <1>2, <2>1, <2>2, <2>3, <2>4, <2>5
    DEF Fresher, Young, Current, Dropped, Running
<1> QED
  BY <1>3, <1>4

LEMMA FreshAcquire ==
  ASSUME TypeInv, Fresher, NEW x \in Executions, AcquirePooled(x) \/ AcquireFresh(x)
  PROVE  Fresher'
<1>1. PICK s \in Sandbox : Use(x, s) /\ Current(s.code)
  <2>1. CASE AcquirePooled(x)
    BY <2>1, SandboxParts DEF AcquirePooled, Fresher
  <2>2. CASE AcquireFresh(x)
    <3> DEFINE s == [id |-> serial + 1, code |-> exec[x].code]
    <3>1. Use(x, s) /\ Current(s.code)
      BY <2>2 DEF AcquireFresh, Fresher
    <3>2. s \in Sandbox
      BY SandboxParts, ExecutionParts DEF Sandbox
    <3> QED
      BY <3>1, <3>2
  <2> QED
    BY <2>1, <2>2
<1>2. /\ exec'[x].at = "running" /\ exec'[x].box = s /\ exec'[x].floor = exec[x].floor
      /\ \A y \in Executions \ {x} : exec'[y] = exec[y]
  BY <1>1 DEF Use, TypeInv, TypeOK, Execution
<1>3. exec'[x].box.code >= exec'[x].floor
  BY <1>1, <1>2, ExecutionParts DEF Current, TypeInv, TypeOK, Issued, Sandbox
<1>4. slots' \subseteq slots /\ UNCHANGED <<pool, deploys, answered, cached>>
  BY DEF AcquirePooled, AcquireFresh, Taken
<1> QED
  BY <1>1, <1>2, <1>3, <1>4, FreshKept

LEMMA FreshEnd ==
  ASSUME TypeInv, Fresher, NEW x \in Executions,
         AcquireNil(x) \/ Succeed(x) \/ Reject(x) \/ CannotStart(x)
  PROVE  Fresher'
<1>1. /\ exec'[x].at \in {"panicked", "done", "failed"}
      /\ \A y \in Executions \ {x} : exec'[y] = exec[y]
  BY ToParts DEF AcquireNil, Succeed, Reject, CannotStart
<1>2. \A s \in slots' : s \in slots \/ Current(s.code)
  BY DEF AcquireNil, Succeed, Reject, CannotStart, Fresher, Running
<1>3. UNCHANGED <<pool, deploys, answered, cached>>
  BY DEF AcquireNil, Succeed, Reject, CannotStart
<1> QED
  BY <1>1, <1>2, <1>3, FreshKept DEF Running

LEMMA FreshSave ==
  ASSUME TypeInv, Fresher, SaveContract
  PROVE  Fresher'
<1>1. \A c : (Young(c) => Young(c)') /\ (Current(c) => Current(c)')
  BY DEF SaveContract, Young, Current
<1> QED
  BY <1>1 DEF SaveContract, Fresher, Dropped, Running

LEMMA FreshDropCache ==
  ASSUME TypeInv, Fresher, NEW d \in deploys, DropCache(d), ~overtaken'
  PROVE  Fresher'
<1>1. \A x \in Executions : exec[x].at = "compile" => exec[x].code >= d.code
  <2>1. d.code \in Nat /\ ~Holds("compile", d)
    BY DEF DropCache, TypeInv, TypeOK, Deploy
  <2> QED
    BY <2>1, ExecutionParts DEF Holds
<1>2. \A x \in Executions : exec[x].at = "compile" => Young(exec[x].code)'
  BY <1>1 DEF Fresher, DropCache, Young, Current
<1>3. \A c : Current(c) => Current(c)'
  BY DEF DropCache, Current
<1> QED
  BY <1>2, <1>3 DEF DropCache, Fresher, Dropped, Running

LEMMA FreshDropPool ==
  ASSUME TypeInv, Fresher, NEW d \in deploys, DropPool(d), ~overtaken'
  PROVE  Fresher'
<1>1. \A x \in Executions : exec[x].at = "pool" => exec[x].code >= d.code
  <2>1. d.code \in Nat /\ ~Holds("pool", d)
    BY DEF DropPool, TypeInv, TypeOK, Deploy
  <2> QED
    BY <2>1, ExecutionParts DEF Holds
<1>2. \A c : Young(c) => Young(c)'
  BY DEF DropPool, Young, Current
<1>3. \A c : Current(c) /\ c >= d.code => Current(c)'
  BY DEF DropPool, Current
<1>4. pool' = None /\ slots' = {} /\ exec' = exec /\ cached' = cached
  BY DEF DropPool
<1>5. \A x \in Executions : exec'[x].at \in {"acquire", "running"} => Dropped(x)'
  BY <1>4 DEF TypeInv, Issued, Dropped
<1> QED
  BY <1>1, <1>2, <1>3, <1>4, <1>5 DEF Fresher, Running

LEMMA FreshStep == PoolInv /\ [Next]_vars => (overtaken \/ Fresher)'
<1> SUFFICES ASSUME PoolInv, [Next]_vars, ~overtaken' PROVE Fresher'
  OBVIOUS
<1>1. ~overtaken
  BY DEF Next, Execute, LookUp, Load, Compile, PoolFor, AcquirePooled, AcquireFresh,
         AcquireNil, Succeed, Reject, CannotStart, SaveContract, DropCache, DropPool, vars
<1>2. TypeInv /\ Fresher
  BY <1>1 DEF PoolInv
<1>3. CASE UNCHANGED vars
  BY <1>2, <1>3 DEF vars, Fresher, Young, Current, Dropped, Running
<1>4. ASSUME NEW x \in Executions, Execute(x)
      PROVE  Fresher'
  BY <1>2, <1>4, FreshStart, FreshPoolFor, FreshAcquire, FreshEnd DEF Execute
<1> QED
  BY <1>2, <1>3, <1>4, FreshSave, FreshDropCache, FreshDropPool DEF Next

(* --- The theorems ------------------------------------------------------------- *)

LEMMA PoolInit == Init => PoolInv
<1> SUFFICES ASSUME Init PROVE PoolInv
  OBVIOUS
<1>1. TypeOK
  <2>1. exec \in [Executions -> Execution]
    BY DEF Init, Execution, NoSandbox, Sandbox, None
  <2>2. IsFiniteSet(slots) /\ Cardinality(slots) <= PoolSize
    BY FS_EmptySet, Sizes DEF Init
  <2>3. /\ {stored, created, serial} \subseteq Nat
        /\ cached \in 0..stored /\ answered \in 0..stored /\ pool \in 0..created
    BY DEF Init, None
  <2>4. slots \subseteq Sandbox /\ deploys \subseteq Deploy /\ overtaken \in BOOLEAN
    BY DEF Init
  <2> QED
    BY <2>1, <2>2, <2>3, <2>4 DEF TypeOK
<1>2. Issued
  BY DEF Init, Issued, None
<1>3. BoxInv
  BY DEF Init, BoxInv, Numbered, OneAtATime, Running
<1>4. Fresher
  BY DEF Init, Fresher, Dropped, Running
<1> QED
  BY <1>1, <1>2, <1>3, <1>4 DEF PoolInv, TypeInv

LEMMA PoolInvCorrect == Spec => []PoolInv
<1>1. PoolInv /\ [Next]_vars => PoolInv'
  BY TypeStep, BoxStep, FreshStep DEF PoolInv
<1> QED
  BY PoolInit, <1>1, PTL DEF Spec

\* Every variable has its type, and the pool's channel its size, for any
\* executions, pool sizes and deploys.
THEOREM TypeCorrect == Spec => []TypeOK
<1>1. PoolInv => TypeOK
  BY DEF PoolInv, TypeInv
<1> QED
  BY PoolInvCorrect, <1>1, PTL

\* A sandbox is used by one execution at a time (acquireModule, releaseModule).
THEOREM OneAtATimeCorrect == Spec => []OneAtATime
<1>1. PoolInv => OneAtATime
  BY DEF PoolInv, BoxInv
<1> QED
  BY PoolInvCorrect, <1>1, PTL

\* Overtaken invalidations are all that lets an execution run code older than a
\* deploy that had returned when it began (InvalidateContract).
THEOREM FreshUnlessOvertakenCorrect == Spec => []FreshUnlessOvertaken
<1>1. PoolInv => FreshUnlessOvertaken
  BY DEF PoolInv, Fresher, FreshUnlessOvertaken
<1> QED
  BY PoolInvCorrect, <1>1, PTL
=============================================================================
