# Tosca in TLA+

Tosca is infrastructure around the Ethereum Virtual Machine: several
interpreters of EVM byte code, several processors that execute transactions
with them, and a conformance test tool that holds interpreters against an
executable specification. This directory contains TLA+ models of its core, TLC
configurations that check them on small instances, and TLAPS proofs of the
results that do not depend on the instance. Every definition is translated
from the source; `PROJECT.json` names the lines each one stands for.

    tlc -workers 2 -config RunContextCalls.cfg MCRunContext   # one run
    tlapm RunContextProofs.tla                                 # one set of proofs

## The system and its parts

A *transaction* enters a **processor**. The processor checks it, lets the
sender buy gas, executes it in a **run context** and settles what is left. The
run context opens and closes calls: it takes snapshots of the world state
(`tosca.TransactionContext`, owned by the client), moves values, deploys code,
and hands code to an **interpreter**, which calls back into the run context for
nested calls. The interpreters share helper structures between goroutines, such
as the **hash cache**. The **conformance tests** (`ct`) generate test states
from the conditions of the rules of a **specification**, run an interpreter on
each for one step and compare.

| Part | Where | Operations that change state | Modelled by |
|---|---|---|---|
| Floria processor | `go/processor/floria/processor.go` | checks, gas purchase, execution, settlement | `FloriaProcessor` |
| Floria run context | `go/processor/floria/run_context.go`, `precompiled.go`, `state_contract.go`, call instructions of lfvm | call, create, deploy, snapshot and restore, depth and static flag | `RunContext`, `RunContextRefund` |
| Refund accounting | `go/tosca/utils.go`, `go/tosca/world_state.go`, `go/interpreter/lfvm/gas.go` | SSTORE, SELFDESTRUCT, begin and end of calls | `StorageGas`, `RefundJournal` |
| geth adapter | `go/geth_adapter/` | calls and creates through geth, refund shift, read-only flag | `GethAdapter` |
| Hash cache | `go/interpreter/lfvm/hash_cache.go` (sfvm has a copy) | `getHash` by several goroutines | `HashCache`, `LruCache` |
| LFVM interpreter | `go/interpreter/lfvm/` | every instruction, super instructions included | `Lfvm` on `EvmState`, `EvmWords` |
| Specification of the EVM | `go/ct/spc/specification.go` | the effect of every rule | `CtSpecification` |
| Test state | `go/ct/st/` | stack, memory, storage, accounts, journals | `EvmState` |
| Test pipeline | `go/ct/spc/enumeration.go`, `go/ct/driver/run.go` | feeders, generators, testers, issue collector, printer | `ConformanceRun` |
| Code conversion of lfvm | `go/interpreter/lfvm/converter.go`, `opcode.go`, `ct.go` | conversion, map of positions, code cache | `LfvmConverter`, without the cache |
| SFVM interpreter | `go/interpreter/sfvm/` | every instruction, jump analysis | `Sfvm`, without the cache of analyses |
| evmzero | `cpp/vm/evmzero/` | every instruction | `Evmzero` |
| evmrs | `rust/src/` | every instruction | `Evmrs` |
| Cache of evmzero | `cpp/common/lru_cache.h`, used by `evmzero.cc` and `sha3_cache.h` | `GetOrInsert` by several threads, `Clear` | `EvmzeroCache`, `LruCache` |
| Rule language | `go/ct/rlz/` | evaluation, restriction and test values of conditions | `RuleLanguage` |
| State generators | `go/ct/gen/` | constraint solvers, generation part by part, cloning | `ConstraintSolvers`, `Assignments`, `CodeGenerator`, `WorldGenerators`, `AccountsGenerator`, `ContextGenerators`, `StateGenerator`, `RuleEnumeration` |
| Opera processor | `go/processor/opera/` | checks, gas purchase, execution, settlement | `OperaProcessor` |
| State contracts | `state_contract.go` of floria and geth, `processor.go` of opera | five methods of the driver | `StateContracts` |
| EVMC bindings | `go/interpreter/evmc/` | host calls, conversions | `EvmcHost`, where they do more than pass values on |
| Registries, interface types, serialization, command lines, examples | `go/tosca/`, `go/ct/` | nothing a property is about | no |

The components list of `PROJECT.json` is complete and gives the reason for
every part that is left out.

## The modules

### StorageGas, RefundJournal: what the refund counter promises

`StorageGas` holds the classification of a storage write by original, current
and new value (`GetStorageStatus`) and the refund of each class in each
revision. `RefundJournal` is the abstract specification of the refund of a
transaction: SSTOREs and SELFDESTRUCTs earn and give back refund inside nested
calls, a call that succeeds keeps both storage and refund, one that fails
takes both back. Two modules refine it, `RunContextRefund` and `GethAdapter`, and its
assumption on the constants is one of `GethAdapter`'s (`JournalAssumption`).

### RunContext: calls and creates of one transaction

State: the world (balances, nonces, code, storage, logs, warm and destructed
accounts), `runContext.depth` and `.static`, and a sequence of *frames*, which
is the Go call stack of `runContext.Call` and `Interpreter.Run`. A frame keeps
the Go variables that are alive across the nested run (kind, sender, recipient,
snapshot, whether it set the static flag, the refund its interpreter has
collected), and as a history variable the world its caller saw. Actions:

| Action | Code |
|---|---|
| `Start` | `Call` from the processor: executeCall or executeCreate |
| `Instruction` | CALL, STATICCALL, DELEGATECALL, CALLCODE, CREATE, CREATE2, SSTORE, LOG, SELFDESTRUCT of a running frame, with the part of executeCall/executeCreate up to the start of the nested code |
| `Stop` | code ends with success; deferred functions, `checkAndDeployCode` |
| `Fail` | code reverts or fails, out of gas included; snapshot restored |

Which instruction a contract executes next is free, so the model covers every
contract. Gas is left out: running out of it is a failure a frame may meet at
any time. Addresses of new contracts are functions of creator and nonce given
by the instance (and may collide); the Keccak hash behind them is not modelled.

`executeCall` returns before any code runs at the depth limit, if the value cannot be
moved, for the state contract, for a precompiled contract and for an account without
code. Each of these returns passes through the deferred function that restores the
snapshot (`Restored`), so that the roll-back of an early return is a consequence and
not part of the action's shape. The state contract may set balances, code and storage
of others and raise a nonce by up to `MaxNonceIncrement` (255).

Accounts become warm where an instruction that is modelled accesses them: through the
access list of the transaction (`setUpAccessList`), as callee or delegate of a call,
as beneficiary, and as address of a new contract. A delegate may be any of `Delegates`.
Instructions that only read (BALANCE, EXTCODE..., SLOAD), and warm slots, are left out:
nothing here depends on what they make warm.

`RunContextRefund` adds the refinement of `RefundJournal`. There is no counter
in Floria: each running interpreter has its own and hands it to its caller on
success. The mapping is the sum over the frames. The steps that reject the code of a
create are excepted by name (`RejectsCode`), see finding 1.

### FloriaProcessor: around the run context

One action accepts (checks pass and gas is bought in the same handler) or
rejects a transaction, one executes it with any result `RunContext` may give,
and one settles (`returnExcessGas`: refund cap, excess gas, coinbase). Values are
modulo `ValueLimit` (2^256 in the code) exactly where the code uses
`tosca.Value`, and unbounded where it uses big integers. `held` and `burnt` are
history variables for the conservation property.

### OperaProcessor, StateContracts: the other processors

`OperaProcessor` puts the Opera processor beside Floria. Both get the same
transactions on the same state, in one step each (`SubmitToBoth`, `RunBoth`,
`SettleBoth`, ...), and the execution ends alike in both; the variable `opera` is what
the Opera processor has made of the state. The two differ in their order (Opera buys
gas before it checks the intrinsic gas, counts the nonce of a create in
go-ethereum) and in what they know (Opera has no blobs, no limit of init code, no check
of tip against cap). The comparison ends with the first transaction of such a kind
(`TreatedDifferently`). What `evm.Create` does with nonces is external.

`StateContracts` holds the built-in contract with which the driver writes balances,
nonces, code and storage, once as Floria implements it, method by method, and once as
Opera and geth do, in stages: base price, length, refusal, price of the data, effect.
`KnownDifference` names the two points in which they differ, and `Cut` how.

### GethAdapter: a Tosca interpreter inside geth

One frame is one activation of `Interpret`. The adapter hides the read-only
flag of nested calls in the highest bit of the gas and shifts the unsigned
refund counter of the StateDB by a constant during a transaction; both are
modelled as the arithmetic they are (`refundShift`, `refundLimit`,
`readOnlyBit`). geth's EVM between two activations is external and modelled by
what the adapter relies on: snapshot, call, revert, rejection of code.

### HashCache, LruCache: the shared cache of hashes

`HashCache` models `getHash` with its array, index and doubly linked list.
What happens under one lock is one step, except that filling in a hash is a
step of its own, because a thread that found the entry earlier reads it without
the lock and may see it half written. `LruCache` is the abstract cache:
a sequence of keys in order of use.

### EvmzeroCache: the same job in C++

`LruCache<>` of evmzero keeps all its entries in the list from the start, unused ones at
the end, and knows from the size of its index whether the last one holds a key. Every
operation is one critical section, and `GetOrInsert` is two of them with the
computation of the value in between. Pointers are positions, with `Nil` for the null
pointer and `Beyond` for the address behind the vector, which `Clear` stores as the
successor of the last entry. A content without a key (code without a hash, an input
of another size than 32 or 64 bytes) passes the cache by.

### From a rule to test states: ConstraintSolvers to RuleEnumeration

A rule of the specification is a conjunction of conditions on expressions. The tool
turns it into states in two ways: `GenerateSatisfyingState` lets every condition
constrain a `StateGenerator`; `EnumerateTestCases` takes, for every property that
conditions speak about, each of its test values in turn, and constrains a clone of
the generator to it. The generator then makes the parts of the state one after the
other. The parts share an *assignment* of words to variables, which each may extend.

| Module | Code |
|---|---|
| `ConstraintSolvers` | `range_solver.go`, `interval_solver.go` |
| `Assignments` | words, addresses, variables, assignment, the errors |
| `CodeGenerator` | `code.go`: constants first, then operations, code and data at variable positions |
| `WorldGenerators` | `storage.go`, `transient_storage.go`, `selfdestructed.go` |
| `AccountsGenerator` | `accounts.go` |
| `ContextGenerators` | `stack.go`, `block_context.go`, `transaction_context.go`, fork blocks |
| `StateGenerator` | `state.go`: the constraints it holds itself, clone, one operator per part |
| `RuleLanguage` | `conditions.go`, `expressions.go`, `domains.go`: check, restrict, test values |
| `RuleEnumeration` | the state machine: `RestrictRule`, `ChooseValue`, `StartGenerating`, `Generate(part)` |

A generator returns a *set* of outcomes (assignment, error, value), one for each random
choice that matters: at which of the possible positions an operation is put, which
number of an interval is taken. A random word or address is a fresh one, drawn from a
part of the range that no constant reaches. A part that nothing constrains is skipped.
The enumeration visits the clones of a generator one after the other; here the
choices branch, which is the same as long as clones share nothing, and a clone that
drops something is what `TestCasesHaveTheirValues` would notice.

### EvmWords, EvmState, LfvmConverter, Lfvm, Sfvm, Evmzero, Evmrs, CtSpecification, EvmConformance

`EvmState` is the state of one contract execution as the conformance tests see
it; `EvmWords` its words, scaled down: a byte has 5 bits, a word 4 bytes, Go's
uint64 18 bits, int64 17, uint16 two bytes and int32 12 bits and a sign. The widths keep every distinction the code
makes (words that are no uint64, uint64s that are no int64, shifts beyond the
width) while products stay within TLC's integers. `Lfvm` is one iteration
of the interpreter loop as a function from states to states: static gas,
stack limits, then the instruction with its dynamic gas, memory expansion and
access lists, every error path included. It runs on code that `LfvmConverter` made
of the EVM code: the data of a PUSH goes into 16-bit arguments, two bytes to each,
so that the code gets shorter, but every JUMPDEST keeps its position and is reached
over a JUMP_TO and NOOPs; a PUSH whose data is cut off by the end of the code makes
it longer. The adapter of the tests maps positions there and back (`evmToLfvm`,
`lfvmToEvm`), and so does `StepN`. With super instructions switched on, up to five
instructions become one, which checks the stack and pays once. `CtSpecification` is the second,
independent description in the repository: for each instruction a family of
rules, each a condition and an effect. `EvmConformance` runs lfvm step by step
and compares each step with all rules that apply, as `ct run` would;
`MCEvmConformance` builds the test states from the sample values of
`go/ct/rlz/parameters.go`.

`Sfvm` runs the EVM code itself, with an analysis of the jump destinations. Its
instructions are a copy of those of lfvm (the two files `instructions.go` differ in
PC, PUSH and the jumps only), so its operators refer to `Lfvm` where the functions
are the same; what it adds is an independent answer to where data ends, where a
jump may go and what a cut off PUSH pushes.

`Evmzero` (C++) and `Evmrs` (Rust) are the same step in two more interpreters,
written from their own sources and in their own order: evmzero looks at the
description of an instruction and charges its static gas first, sums up the
dynamic costs and pays once; evmrs pays item by item inside each instruction,
and an error on the way leaves the state a failed one. Their arithmetic differs
as well: evmzero computes costs modulo 2^64 with explicit overflow checks, evmrs
has its own SIGNEXTEND, BYTE and SAR on halves of a word. Both reach accounts
and nested calls through the EVMC host (`EvmcHost`). Each of the four interpreters
finds the jump destinations in its own way. `EvmConformance` demands that sfvm,
evmzero and evmrs end in the state in which lfvm ends, in every state, including
those for which the specification has no rule, and that each super instruction of
the converted code does what its parts do one after the other.

### ConformanceRun: the pipeline of `ct run`

`ForEachState` with its two channels, its team of generators and its team of
testers, the abort flag both poll, the stored error, the progress printer, and
`opRun` with its limit of issues. A goroutine is a program counter with the
data it holds; channel operations, flag reads and issue collection are separate
steps, so an abort may overtake any of them.

## The runs

All runs are small enough for two cores and a few minutes. Deadlock checking is
off exactly where the system may stop: after the transaction, after the last
transaction of the instance, or after `ForEachState` returned.

| Run | Configuration | Instance | What it shows |
|---|---|---|---|
| `run_context_calls` | `RunContextCalls.cfg` | four call kinds, creates, a contract, a precompiled contract, the state contract and its driver, a delegate, depth limit 2, three instructions, Prague | `BookkeepingIsExact`, `StaticCallsChangeNothing`, `FailureUndoes` |
| `run_context_creates` | `RunContextCreates.cfg` | calls, creates in calls and creates, colliding addresses, rejected code, SSTOREs and self-destructs under three sets of refund rules, four frames, three instructions, balances that may overflow | `ConstructionIsExclusive`, `SupplyIsConserved`, refinement `RefundsAreJournalled` |
| `rejected_code_refund` | `RunContextRejectedCode.cfg` | creates in calls and creates, without values | violates `RejectedCodeEarnsNothing` |
| `floria` | `Floria.cfg`, `MCProcessors` | two transactions, five blocks, four balances, both rule sets, Opera beside Floria; calls of the state contracts with gas around their prices | `EveryUnitIsAccountedFor`, `PurchaseIsCovered`, `SetupIsPaid`, `CallsExecutedOnce`, `CreatesExecutedOnce`, `OperaAgrees`, `StateContractsAgree` |
| `floria_blob_cap` | `FloriaBlobCap.cfg` | Floria alone with a small `ValueLimit` | violates `EveryUnitIsAccountedFor` |
| `geth_adapter` | `GethAdapter.cfg` | five units of gas, depth limit 2, three sets of refund rules | `StaticCallsAreProtected`, `NoGasLost`, `RefundIsCovered`, refinement `RefundsAreJournalled` |
| `hash_cache` | `HashCache.cfg` | two threads, four keys, three entries | `IndexIsExact`, `ListIsLinked`, refinement `EvictsLeastRecentlyUsed`, liveness `CallsReturn` |
| `hash_cache_race` | `HashCacheRace.cfg` | two threads, three keys, two entries | violates `ReturnsTheHash` |
| `evmzero_cache` | `EvmzeroCache.cfg` | two threads, four keys and a content without one, three entries | `PointersAreSafe`, `CacheIsConsistent`, `ReturnsTheValue`, `KeepsLruOrder` |
| `conformance_run` | `ConformanceRun.cfg` | two rules, six test cases, two generators and two testers, two places per channel | `NoSendAfterClose`, `SuccessMeansTested`, `FailuresAreReported`, `IssuesBounded`, liveness `Terminates` |
| `evm_conformance` | `EvmConformance.cfg` | every instruction in every revision | `Conforms`, `EvmzeroAgrees`, `EvmrsAgrees`, `SfvmAgrees`, `SuperInstructionsAgree`, `RulesDecideEveryState` |
| `state_generator` | `RuleEnumeration.cfg` | more than a thousand rules: all pairs of conditions that meet, shapes of the specification's rules, conditions on aliased variables | `GeneratedStatesSatisfyTheRule`, `TestCasesHaveTheirValues`, `RulesAreProbed`, `IntervalSolverIsExact` |

The type invariants are proved (`TypeCorrect`) and not checked again.

### The bounds, and why they are enough

- *RunContext.* Depth limit 2 is the smallest that has an inner call, an outer call and
  a call refused by the limit. Exclusive construction needs one level more: a
  contract creates with CREATE2, the init code calls the contract back, and that
  creates once more at the address still under construction. Three state
  changing instructions allow a change before, inside and after a nested call.
  `NonceLimit` 4 is within reach of the overflow check of `incrementNonce`, and
  `ValueLimit` (3 and 5) within reach of that of `canTransferValue`: some of the worlds
  of `RunContextCreates.cfg` hold more value than the limit, so that a call could make
  the balance of its recipient wrap. In `RunContextCreates.cfg`
  the state contract is switched off (its address and
  its driver are the zero address): it may set balances and nonces at will, so
  conservation of value and exclusive construction are stated without it.
- *FloriaProcessor.* Prices, limits and balances are chosen on both sides of
  every comparison. Two transactions are enough for a replay. `ValueLimit` is above
  every product, so that the case of finding 2 has a run of its own.
- *StateContracts.* Values around the bound 256 of an increment and around the scaled
  width of a nonce, nonces that wrap, code of three lengths, and gas just below and at
  each price.
- *GethAdapter.* A unit of gas per instruction; five units reach a static call
  with two nested calls. `MaxRefund` only has to stay below the shift.
- *HashCache.* Capacity 3 is the smallest with head, inner entry and tail; four
  keys make evictions happen. The same holds for *EvmzeroCache*, whose `Clear` may come
  between any two steps; capacity 1 is excluded, the code would follow a null pointer.
- *ConformanceRun.* Each channel holds `ChannelFactor * numJobs` elements (10
  in the code, 1 here, so that full channels occur).
- *EvmConformance.* Stack limit 8 (7 parameters of CALL and one more); memory
  limit 2048 bytes (512 words); divisor 2 of the quadratic memory costs, so that
  they matter at small sizes. `Plenty`, the gas of most test states, lies between the
  linear costs of the largest memory and its full costs, as `MaxGasUsedByCt` of
  `go/ct/st/state.go` does: evmzero and evmrs have no limit on the memory but the
  gas. `GasAssumption` states this, and that twice that gas is still a 64-bit number. For each test state TLC also tries the exact gas the
  instruction takes, one less and one more. Jump targets lie on every kind of
  byte, data that looks like a JUMPDEST included, and PUSHes are cut off after each
  number of bytes. Each super instruction is tried at every height of the
  stack, with and without a jump destination behind it. Programs of the family `programs` run
  over several instructions; all other test states stop after a few steps.

- *RuleEnumeration.* 12 numbers stand for uint64, 32 for addresses, 64 for words; the
  ranges nest as in the code (`RangesAssumption`). Code has up to 4 bytes, a PUSH up
  to 2 bytes of data, so that operations and data compete for room. A fork lasts 3
  blocks and the window of block hashes 2 (256 in the code), so that windows cross
  block 0 and forks. Two conditions are the most that meet on one variable in most
  rules; the shapes have up to six. The interval solver is checked on all numbers of its
  type, whose arithmetic wraps, for all sequences of three operations with bounds at
  and next to both ends and one in the middle; that includes every relation of
  two intervals.

### Fairness

- `HashCache`: strong fairness for the two steps that take the lock (a
  `sync.Mutex` hands itself to a goroutine that has waited for long), weak
  fairness for the steps that hold it or need none. Nobody is made to call.
- `ConformanceRun`: weak fairness for each goroutine. No strong fairness is
  needed: a channel that stays ready stays ready.
- The other modules claim nothing that needs fairness. Executions
  end because every rule of an instruction that goes on charges gas, and `Conforms`
  holds the interpreter to the rules.

### What the code does differently from what it says

Three runs are expected to end in a violation; each is a finding in
`PROJECT.json` with the comment or test it contradicts.

1. `rejected_code_refund`: when the returned code of a create is rejected,
   the snapshot is restored and the gas taken, but the refund collected by the
   undone init code is still handed to the contract that created it
   (`run_context.go:269`, `instructions.go:853`). For a create that is the transaction
   itself `calculateGasLeft` ignores the refund, so the property is about nested ones.
2. `floria_blob_cap`: the balance check uses big integers for the gas fee but a
   product modulo 2^256 for the blob fee; if that wraps, the check passes and the
   balance of the sender wraps in the purchase (`processor.go:300`). The theorem
   `PurchaseAlwaysCovered` holds exactly when no blob fee wraps at its own cap.
3. `hash_cache_race`: a hit returns `entry.hash` after the lock was released;
   the entry may have been evicted and refilled in between (`hash_cache.go:112`).
   The code's default capacity makes that very unlikely; it is not impossible.

Smaller observations, which the properties exclude by name or which have no
property:

- `Conforms` excludes `DelegatesToItself`: for a cold account that delegates to
  itself, `callEffect` asks whether the delegate is warm before it marks the target
  warm (two cold accesses), lfvm's `genericCall` after (one cold, one warm).
- `RulesDecideEveryState` excludes `ColdNoOpStore`: the specification has no rule for
  an SSTORE of the current value to a cold slot (`specification.go`, table of
  SSTORE), and `runTest` counts a state without a rule as passed.
- `st.Accounts.GetCodeHash` always yields the zero hash, so the tests do not compare
  what EXTCODEHASH returns for code.
- The specification requires the data of a PUSH to be complete, and the generator
  of the tests guarantees it. The test states here have cut off PUSHes as well: the
  rules apply to them, but have nothing to say of the position behind one, which
  `st.Code` takes for data. `RulesDecideEveryState` excludes it (`BehindMissingData`); the
  four interpreters agree there.
- `SuperInstructionsAgree` excludes `TruncatesDestination`: the super instruction
  SWAP2_SWAP1_POP_JUMP converts its destination with `int32(trg.Uint64())`
  (`super_instructions.go:124`), without the check for larger values that `opJump`
  makes, and so jumps to the low bits of a destination at which JUMP fails. Super
  instructions are off in the default configuration.
- A call in evmrs adds the gas its callee left before it subtracts what the callee
  was given, in a sum that must stay below 2^63 (`rust/src/utils/gas.rs:52`); above
  half of that gas the call fails. `EvmrsAgrees` is violated without the second
  half of `GasAssumption`. No block has that much gas.
- With the Sonic rules a create whose value the sender cannot pay is charged and
  keeps the sender's nonce; `CreatesExecutedOnce` is stated for the Ethereum rules.
- `OperaAgrees` ends where `TreatedDifferently` says so. One of these cases is an order:
  a transaction with less than its intrinsic gas is refused by Opera after the
  gas was bought, and the price is not returned (`opera/processor.go:193`).
- The state contracts differ in `KnownDifference`: Floria protects the sender of the
  call where Opera and geth protect the origin of the transaction, and looks at the
  low 64 bits of an increment only (`floria/state_contract.go:241`).
  `StateContractsAgree` says what Floria does there: what the others would do for the
  low bits of the increment with the sender as origin. So no increment raises a nonce
  by more than 255, and the driver never changes its own balance or nonce.
- The properties of the generators let the outcomes of `Exempt` pass, and only these:
  below block 256 the
  window of block hashes wraps, nothing is excluded from it
  (`go/ct/gen/block_context.go:165`), and the number of an earlier block is drawn; the
  least offset is its own negation, and a number 2^63 below is drawn; a balance is
  drawn after an account was made non-empty and is zero (`go/ct/gen/accounts.go:296`);
  warm and cold slots and blob hashes are compared by variables, not by their words,
  and another variable with the same word asks for the opposite.
  In each case a state comes out that does not satisfy the conditions, instead of
  `ErrUnsatisfiable`; without its part of `Exempt` TLC finds one. Unless it runs in full mode,
  `ct run` skips states that do not satisfy their rule.
- `go/ct/gen/state.go:33` calls the generator sound and complete. The properties are
  about soundness. Complete it is not: a constant and a variable for the same
  position of the stack are a conflict even if they agree (`go/ct/gen/stack.go:119`).
- `lt` and `gt` restrict a generator by a strict bound on the predecessor or successor
  (`go/ct/rlz/conditions.go:198`), so one value that satisfies the condition is never generated
  by `GenerateSatisfyingState`.
- After a generation error `ct run` returns the error without exporting the
  issues it has collected.

## The proofs

TLC looks at one instance; the theorems hold for all values of the constants
under the assumptions named in the modules (`...Assumption`), which TLC
evaluates in every run.

| Module | Theorem | Argument |
|---|---|---|
| `RefundJournalProofs` | `TypeCorrect`, `RefundAlwaysCovers`, `RefundIsNeverNegative` | `RefundCover` is inductive once stated for every snapshot: an SSTORE changes the refund by at least the change of its slot's debt (`SstoreEarnsDebt`, a case analysis of the storage status table), and `ClearedAfterWrite` gives the change of the number of cleared slots |
| `RunContextProofs` | `TypeCorrect`, `BookkeepingAlwaysExact`, `StaticCallsAreProtected`, `FailedCallsAreUndone`, `ConstructionAlwaysExclusive`, `SupplyAlwaysConserved`, `RefundRefinement` | see below |
| `FloriaProcessorProofs` | `TypeCorrect`, `SetupAlwaysPaid`, `CallsAreExecutedOnce`, `PurchaseAlwaysCovered`, `EveryUnitAccountedFor`, `CreatesAreExecutedOnce` | the invariant keeps the limit above the set-up gas and the gas left below what was bought; the purchase follows from monotonicity of the products in the prices; what was held pays for what is returned and paid to the coinbase (`PaymentKnown`), so no addition wraps below the supply |
| `FloriaProcessorProofs` | `OperaAlwaysAgrees` | `Agreement` relates the two processors while a transaction is in progress, and each joint step (`SubmitAgrees`, `RunAgrees`, `SettleAgrees`, ...) keeps it, on top of the invariants of Floria |
| `GethAdapterProofs` | `TypeCorrect`, `StaticCallsStayProtected` | a frame above a read-only one is read-only and its snapshot holds the same world (`Sealed`); what a caller keeps and what it gave away add up to at most what it was given (`Funded`), so the flag in the gas is never taken for gas |
| `GethAdapterProofs` | `GasIsConserved`, `RefundRefinement`, `RefundAlwaysCovered` | sums over the frames (`Balanced`); each step of the adapter is a step of `RefundJournal` (`JournalStep`), whose own invariants then hold for the adapter (`Tracked`) |
| `HashCacheProofs` | `TypeCorrect`, `IndexStaysExact`, `ListStaysLinked` | the list invariant is stated over arbitrary entries, and kept by moving an entry to the front (`MovedLinked`) and by adding one to a free (`AddedToFree`) or a full cache (`AddedToFull`); the hash being filled in is the only one that may be wrong (`Filled`, `Pending`) |
| `HashCacheProofs` | `LeastRecentlyUsedEvicted` | see below |
| `EvmzeroCacheProofs` | `TypeCorrect`, `PointersStaySafe`, `CacheStaysConsistent`, `CallersGetTheirValue` | see below |
| `ConformanceRunProofs` | `TypeCorrect`, `ChannelsCloseInTime`, `SuccessIsEarned` | every test case is with a generator, in the channel, with a tester or has passed, unless something is to be reported (`Accounted`); a goroutine is done only after its channel was closed and empty (`Phases`) |
| `ConformanceRunProofs` | `FailuresReportedOnce`, `IssuesAlwaysBounded` | no test case is in two places (`Once`); the failures are those counted and those still on their way to the collector (`Counted`), which are at most one for each tester that checked the limit before (`Bounded`) |
| `CollectionLemmas` | lemmas only | sequences used as stacks, finite sets, and totals of functions, see below |

*RunContextProofs.* `BookkeepingIsExact` alone is not inductive: the flag is reset
by the call that set it, so the invariant needs `ResetByOutermost`, and the
protection of static calls needs that the world a failed frame falls back to
looks like the current one (`StaticWorldsAgree`). `FailureUndoes` needs
`SnapshotsAreTimely`: the snapshot of a frame is the world its caller saw, but
for the nonce and the warm address of a create. Every step opens a frame, works
in one, closes one, or returns at once (`StepCases`), and the invariant is
shown once for each of these four instead of once for each instruction.
A call that returns before any code runs has restored its snapshot or moved nothing.
`ConstructionIsExclusive` needs that a recipient under construction has a nonce other
than zero in the current world and in every snapshot taken since, with room before it
wraps (`Marked`); conservation needs that every snapshot holds as much value as the
current world (`Steady`).

*Sums.* `Total` (module `Totals`) is a fold over a set, defined by recursion, and
`Earned` the total over the first frames of a stack. `CollectionLemmas` proves what the
other proofs need of them: that the fold exists and is unique, its value on the empty
function, and how it changes with one argument. A finite set enters as one whose
elements can be numbered (`Listed`), and the induction over the size of a set is done in
first-order form: `Induction` says that a set that holds 0 and the successor of each of
its members holds all natural numbers, and each lemma takes the set of the sizes for
which its statement holds. `Induction` is a hypothesis of the lemmas, of those
that use them, and of no theorem: `InductionHolds` discharges it in each
module, from the well-foundedness of the natural numbers. It comes late in the modules,
because everything before is then proved with fewer facts in sight.

*GethAdapterProofs, refinement.* The mapping is made of operators on a stack of frames
and a StateDB (`Refund`, `Entry`, `Entries`), so the proof compares their values before and
after a step. There are five kinds of steps: the refund is untouched (`QuietStep`), a call
begins (`BeginStep`), an instruction earns (`WriteStep`), a call ends and keeps what it
earned (`KeepStep`) or does not (`AbortStep`). That the shifted counter never wraps needs
a bound on the refund in terms of the gas spent so far, in the current state and in
each snapshot (`Bounded`).

*HashCacheProofs, order of use.* `Order` is a recursive function along the links. `Walk`
says that c numbers the used positions along the list and d is its inverse; `WalkVisits`
shows, with `NaturalsInSet`, that the recursive function then yields c. A hit turns c into
`ToFront` of c, an insertion into a free entry into `PushTop` of c, one into a full cache
moves the tail to the front (`MovedWalk`, `AddedToFreeWalk`, `AddedToFullWalk`). What these do
to the keys is `Touch` and `Add` of `LruCache` (`LookupOrder`, `InsertOrder`). That a walk
exists (`Walked`) is invariant; that the list is linked both ways does not imply it, since
a separate cycle is linked as well.

*EvmzeroCacheProofs.* The list alone is inductive (`Linked`, kept by `Touch` and
`GetNewHead` on arbitrary entries), but that the index is exact is not: whether the tail
holds a key is known from the size of the index only. `Filled` says that the entries
that were never used are the first m positions, linked as `Clear` left them with entry
m as the tail, and that all others and the keys of the index lead to each other. So
the index has `Capacity` keys exactly when the tail has a key to erase.

`RefundJournal` states its assumption as a definition (`ConstantAssumption`), which
the theorems of `RefundJournalProofs` have as a hypothesis; TLC evaluates it for the
instance of `GethAdapter`.

Some theorems have hypotheses beyond the assumptions of the modules:

| Hypothesis | Where | Says | Why |
|---|---|---|---|
| `~OffChainSimulation` | the theorems of `FloriaProcessorProofs` on nonces and money | checks of nonces and balances are on | switching them off is what that setting is for |
| `BlobFeesFit` | `PurchaseAlwaysCovered` and the three that build on it | no blob fee wraps at its own cap | finding 2: without it the theorem is false |
| `SupplyFits` | `EveryUnitAccountedFor`, `CreatesAreExecutedOnce`, `OperaAlwaysAgrees`, `SupplyAlwaysConserved` | all balances together are below `ValueLimit` | 2^256 is above what any chain issued; the code adds modulo 2^256 without a check |
| `RefundsFit` | the two `RefundRefinement`s, `RefundAlwaysCovered` | the bound `MaxRefund` of the model is above what the gas or the instructions of a transaction can earn | the bound must not be met; in `GethAdapter` it lies below `refundShift` by assumption |
| `NoncesLast` | first half of `ConstructionAlwaysExclusive` | fewer instructions than it takes a nonce to wrap, if each raises one by `MaxNonceIncrement` | only the state contract increments a nonce without a check for overflow |
| `[]DriverIdle` | second half of it, `SupplyAlwaysConserved`, `RefundRefinement` of the run context | the driver account neither sends the transaction nor runs code | the state contract obeys the driver only, and sets balances, nonces and storage at will |

`Account` and `Address` are assumed to be finite, as are the sets of workers of
`ConformanceRun`: the sums and counts are over them.

### What is only model-checked

- Liveness: `CallsReturn`, `Terminates`.
- `KeepsLruOrder`: its mapping selects the used entries with `SelectSeq`, and what that
  yields is an induction over sequences.
- `StateContractsAgree`: a comparison of three programs on enumerated inputs.
- The generators (`GeneratedStatesSatisfyTheRule`, `TestCasesHaveTheirValues`,
  `RulesAreProbed`, `IntervalSolverIsExact`): their algorithms are recursive operators.
- Everything about the interpreters (`Conforms`, `RulesDecideEveryState` and the four
  properties of agreement): their words are built on `Bitwise` and the converters on
  recursive operators, which the prover does not support.

## What is not modelled

- The caches of converted code (lfvm), of jump analyses (sfvm) and of code analyses
  (evmrs): each is one call of a library's cache, which is not in the repository,
  keyed by the code hash.
- evmrs built with other features: tail calls and the conversion to function pointers.
- EVMC bindings that pass a value on unchanged, and the loading of libraries.
- The parts of a generated state that no rule constrains (memory, call context and
  journal, gas refund, fees of a block), the random extra entries, and what follows a
  generated state in the enumeration: `enumerateParameters` overwrites parameters on
  the stack with samples, and states that no longer satisfy the rule are skipped.
- Releasing states and stacks to pools (`sync.Pool`).
- go-ethereum's own processing of transactions, behind the geth processor.
- Command lines, logging, statistics, serialization and printing, registries (a map
  under a lock each), and libraries such as go-ethereum, evmone and Keccak, which
  appear only as what the code relies on.
