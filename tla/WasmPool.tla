------------------------------ MODULE WasmPool ------------------------------
(***************************************************************************)
(* The core service's WASM engine for one contract: the code in LevelDB,   *)
(* the compiled module in the cache, the pool of sandboxes, executions of  *)
(* submitted transactions and deploys of new code, each a goroutine of an  *)
(* HTTP request.  Code is the number of its save; of a sandbox only its    *)
(* serial number and its code are kept, and the order in the pool's        *)
(* channel is left out.  What an execution computes is in WorldState.      *)
(***************************************************************************)
EXTENDS Naturals, FiniteSets

CONSTANTS
  Executions,   \* transactions to execute
  PoolSize,     \* sandboxes of a pool, WASM_POOL_SIZE
  MaxDeploys    \* bound: deploys

ASSUME Sizes == PoolSize \in Nat \ {0} /\ MaxDeploys \in Nat
ASSUME Finite == IsFiniteSet(Executions)

VARIABLES
  stored,       \* the code in LevelDB; 1 was there at the start
  cached,       \* contractCache: the code of the compiled module, or None
  pool,         \* pools: the number of the pool, or None
  slots,        \* its sandboxes; those of a pool dropped are closed and gone
  created,      \* how many pools there have been
  serial,       \* instanceSerial
  exec,         \* the executions
  deploys,      \* the deploys under way
  answered,     \* the latest code whose deploy has returned
  overtaken     \* an invalidation met an execution that held older code

vars == <<stored, cached, pool, slots, created, serial, exec, deploys,
          answered, overtaken>>

None == 0
Sandbox == [id : Nat, code : Nat]
NoSandbox == [id |-> None, code |-> None]

\* floor is the code whose deploy had returned when the execution began.
Execution == [at : {"idle", "load", "compile", "pool", "acquire", "running",
                    "done", "failed", "panicked"},
              floor : Nat, code : Nat, pool : Nat, box : Sandbox]
Deploy == [code : Nat, at : {"cache", "pool"}]

(* --- Execute ------------------------------------------------------------- *)

To(x, at) == exec' = [exec EXCEPT ![x].at = at]
SetCode(x, at, code) == exec' = [exec EXCEPT ![x].at = at, ![x].code = code]
Use(x, box) == exec' = [exec EXCEPT ![x].at = "running", ![x].box = box]

\* getOrCompile looks into the cache first ...
LookUp(x) ==
  /\ exec[x].at = "idle"
  /\ exec' = [exec EXCEPT ![x].at = IF cached = None THEN "load" ELSE "pool",
                          ![x].code = cached, ![x].floor = answered]
  /\ UNCHANGED <<stored, cached, pool, slots, created, serial, deploys,
                 answered, overtaken>>

\* ... then takes the code from LevelDB ...
Load(x) ==
  /\ exec[x].at = "load"
  /\ SetCode(x, "compile", stored)
  /\ UNCHANGED <<stored, cached, pool, slots, created, serial, deploys,
                 answered, overtaken>>

\* ... compiles it without a lock, and replaces what is in the cache.
Compile(x) ==
  /\ exec[x].at = "compile"
  /\ cached' = exec[x].code
  /\ To(x, "pool")
  /\ UNCHANGED <<stored, pool, slots, created, serial, deploys, answered,
                 overtaken>>

\* PoolSize sandboxes of this code, numbered from the next serial on.
Fresh(code, n) == {[id |-> serial + i, code |-> code] : i \in 1..n}

\* poolFor, under poolsMu: the pool there is, whatever code it was made of, or
\* a new one of the code the execution holds.
PoolFor(x) ==
  /\ exec[x].at = "pool"
  /\ IF pool # None
       THEN UNCHANGED <<pool, slots, created, serial>>
       ELSE /\ created' = created + 1
            /\ pool' = created'
            /\ slots' = Fresh(exec[x].code, PoolSize)
            /\ serial' = serial + PoolSize
  /\ exec' = [exec EXCEPT ![x].at = "acquire", ![x].pool = pool']
  /\ UNCHANGED <<stored, cached, deploys, answered, overtaken>>

\* The execution's pool has been dropped since: its channel is closed and empty.
Dropped(x) == exec[x].pool # pool

\* acquireModule takes a sandbox of the pool, ...
Taken_Kept(s) == slots
Taken(s) == slots \ {s}
AcquirePooled(x) ==
  /\ exec[x].at = "acquire" /\ ~Dropped(x)
  /\ \E s \in slots : Use(x, s) /\ slots' = Taken(s)
  /\ UNCHANGED <<stored, cached, pool, created, serial, deploys, answered,
                 overtaken>>

\* ... makes one if there is none, ...
AcquireFresh(x) ==
  /\ exec[x].at = "acquire" /\ ~Dropped(x) /\ slots = {}
  /\ Use(x, [id |-> serial + 1, code |-> exec[x].code])
  /\ serial' = serial + 1
  /\ UNCHANGED <<stored, cached, pool, slots, created, deploys, answered,
                 overtaken>>

\* ... and from a closed channel gets nil, at once, and calls it.
AcquireNil(x) ==
  /\ exec[x].at = "acquire" /\ Dropped(x)
  /\ To(x, "panicked")
  /\ UNCHANGED <<stored, cached, pool, slots, created, serial, deploys,
                 answered, overtaken>>

\* releaseModule after success: back to the pool, unless that is full; sending
\* on a closed channel panics, also under a default.
Free_Always == TRUE
Free == Cardinality(slots) < PoolSize
Succeed(x) ==
  /\ exec[x].at = "running"
  /\ IF Dropped(x) THEN To(x, "panicked") /\ UNCHANGED slots
     ELSE /\ To(x, "done")
          /\ slots' = IF Free THEN slots \cup {exec[x].box} ELSE slots
  /\ UNCHANGED <<stored, cached, pool, created, serial, deploys, answered,
                 overtaken>>

\* The contract refuses or traps: its sandbox is closed.
Reject(x) ==
  /\ exec[x].at = "running"
  /\ To(x, "failed")
  /\ UNCHANGED <<stored, cached, pool, slots, created, serial, deploys,
                 answered, overtaken>>

\* Code that cannot be read, compiled or instantiated; a pool half made is closed.
CannotStart(x) ==
  /\ \/ exec[x].at \in {"load", "compile"}
     \/ exec[x].at = "pool" /\ pool = None
     \/ exec[x].at = "acquire" /\ ~Dropped(x) /\ slots = {}
  /\ To(x, "failed")
  /\ UNCHANGED <<stored, cached, pool, slots, created, serial, deploys,
                 answered, overtaken>>

(* --- Deploy --------------------------------------------------------------- *)

SaveContract ==
  /\ stored <= MaxDeploys
  /\ stored' = stored + 1
  /\ deploys' = deploys \cup {[code |-> stored', at |-> "cache"]}
  /\ UNCHANGED <<cached, pool, slots, created, serial, exec, answered, overtaken>>

\* Some execution is at that step with code older than d's.
Holds(at, d) == \E x \in Executions : exec[x].at = at /\ exec[x].code < d.code

\* InvalidateContract: first the compiled module ...
DropCache_KeepsModule(d) ==
  /\ d.at = "cache"
  /\ deploys' = (deploys \ {d}) \cup {[code |-> d.code, at |-> "pool"]}
  /\ overtaken' = (overtaken \/ Holds("compile", d))
  /\ UNCHANGED <<stored, cached, pool, slots, created, serial, exec, answered>>
DropCache(d) ==
  /\ d.at = "cache"
  /\ cached' = None
  /\ deploys' = (deploys \ {d}) \cup {[code |-> d.code, at |-> "pool"]}
  /\ overtaken' = (overtaken \/ Holds("compile", d))
  /\ UNCHANGED <<stored, pool, slots, created, serial, exec, answered>>

\* ... then, under the other lock, the pool: closed, drained, its sandboxes
\* closed.  Whoever takes one between could as well have come before.
DropPool(d) ==
  /\ d.at = "pool"
  /\ pool' = None /\ slots' = {}
  /\ deploys' = deploys \ {d}
  /\ answered' = IF d.code > answered THEN d.code ELSE answered
  /\ overtaken' = (overtaken \/ Holds("pool", d))
  /\ UNCHANGED <<stored, cached, created, serial, exec>>

(* --- The specification ---------------------------------------------------- *)

\* A core just started, with code deployed before.
Init ==
  /\ stored = 1 /\ cached = None
  /\ pool = None /\ slots = {} /\ created = 0 /\ serial = 0
  /\ exec = [x \in Executions |-> [at |-> "idle", floor |-> None, code |-> None,
                                   pool |-> None, box |-> NoSandbox]]
  /\ deploys = {} /\ answered = 1 /\ overtaken = FALSE

Execute(x) ==
  \/ LookUp(x) \/ Load(x) \/ Compile(x) \/ PoolFor(x)
  \/ AcquirePooled(x) \/ AcquireFresh(x) \/ AcquireNil(x)
  \/ Succeed(x) \/ Reject(x) \/ CannotStart(x)

Next ==
  \/ \E x \in Executions : Execute(x)
  \/ SaveContract
  \/ \E d \in deploys : DropCache(d) \/ DropPool(d)

Spec == Init /\ [][Next]_vars

(* --- Properties ----------------------------------------------------------- *)

\* Every variable has its type; a pool's channel holds no more than its size.
TypeOK ==
  /\ {stored, created, serial} \subseteq Nat
  /\ cached \in 0..stored /\ answered \in 0..stored
  /\ pool \in 0..created
  /\ slots \subseteq Sandbox /\ IsFiniteSet(slots)
  /\ Cardinality(slots) <= PoolSize
  /\ exec \in [Executions -> Execution]
  /\ deploys \subseteq Deploy
  /\ overtaken \in BOOLEAN

Running(x) == exec[x].at = "running"

\* A sandbox, whose memory and globals an execution works in, is used by one
\* execution at a time and is not in the pool meanwhile (acquireModule,
\* releaseModule).
OneAtATime ==
  \A x \in Executions : Running(x) =>
    /\ \A y \in Executions \ {x} : Running(y) => exec[y].box.id # exec[x].box.id
    /\ \A s \in slots : s.id # exec[x].box.id

\* An execution begun after a deploy has returned runs that deploy's code, or
\* younger, unless an invalidation came between another execution's getting
\* hold of older code and its putting that into the cache or the pool
\* (InvalidateContract against getOrCompile and poolFor).
FreshUnlessOvertaken ==
  overtaken \/ \A x \in Executions : Running(x) => exec[x].box.code >= exec[x].floor

\* "drops compiled cache + sandbox pool so the next Execute reloads WASM from
\* LevelDB" (InvalidateContract): no execution begun after a deploy has returned
\* runs older code.
NextExecuteReloads ==
  \A x \in Executions : Running(x) => exec[x].box.code >= exec[x].floor

\* A successful execution returns its sandbox to the pool, and one that cannot
\* have one says so: no execution ends otherwise (releaseModule).
EndsOrdinarily == \A x \in Executions : exec[x].at # "panicked"

=============================================================================
