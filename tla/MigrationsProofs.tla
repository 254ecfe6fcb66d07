-------------------------- MODULE MigrationsProofs --------------------------
(* Proofs about Migrations, for every list of scripts that truffle can be    *)
(* given and any number of deaths of the process.                            *)
EXTENDS MigrationsSpec, FiniteSetTheorems, TLAPS

-----------------------------------------------------------------------------
(* What the scripts are made of.                                             *)
LEMMA ProgramFacts ==
    ASSUME NEW e \in Environments
    PROVE  /\ LastOf(e) \in Nat /\ LastOf(e) > 0
           /\ \A i \in 1..LastOf(e) :
                 /\ Program[e][i].number \in Nat /\ Program[e][i].number > 0
                 /\ Steps(e, i) \in Seq(Statements[e][i])
                 /\ \A s \in Statements[e][i] : IsStep(s)
           /\ \A i, j \in 1..LastOf(e) :
                 i <= j => Program[e][i].number <= Program[e][j].number
<1>1. IsProgram(Program[e])
  BY ProgramAssumption
<1>2. LastOf(e) \in Nat /\ LastOf(e) > 0
  BY <1>1 DEF IsProgram, LastOf
<1>3. ASSUME NEW i \in 1..LastOf(e)
      PROVE  /\ Program[e][i].number \in Nat /\ Program[e][i].number > 0
             /\ Steps(e, i) \in Seq(Statements[e][i])
             /\ \A s \in Statements[e][i] : IsStep(s)
  <2>1. IsScript(Program[e][i])
    BY <1>1 DEF IsProgram, LastOf
  <2>2. Steps(e, i) \in Seq({Steps(e, i)[j] : j \in DOMAIN Steps(e, i)})
    BY <2>1 DEF IsScript, Steps
  <2>3. DOMAIN Steps(e, i) = 1..Len(Steps(e, i))
    BY <2>2
  <2>4. Steps(e, i) \in Seq(Statements[e][i])
    BY <2>2, <2>3 DEF Statements
  <2>5. \A s \in Statements[e][i] : IsStep(s)
    BY <2>1 DEF IsScript, Statements, Steps
  <2> QED
    BY <2>1, <2>4, <2>5 DEF IsScript
<1>4. \A i, j \in 1..LastOf(e) : i <= j => Program[e][i].number <= Program[e][j].number
  BY <1>1 DEF IsProgram, LastOf
<1> QED
  BY <1>2, <1>3, <1>4

-----------------------------------------------------------------------------
(* What one statement does to a well formed world.                           *)
IsWorld(w) == IsChain(w.chain) /\ IsBook(w.book) /\ IsBook(w.memory) /\ w.script \in Nat

LEMMA ResolveTyped ==
    ASSUME NEW w, IsWorld(w), NEW k \in Values
    PROVE  Resolve(k, w) \in Address
BY DEF IsWorld, IsBook, Resolve, External, Address

LEMMA UpdatedTyped ==
    ASSUME NEW b, IsBook(b), NEW k \in Keys, NEW a \in Address
    PROVE  IsBook(Updated(b, k, a))
BY DEF IsBook, Updated, Put

LEMMA NewAddressTyped ==
    ASSUME NEW w, IsWorld(w), NEW s, IsStep(s)
    PROVE  NewAddress(s, w) \in Address /\ NewAddress(s, w)[1] = s.key
<1>1. s.key \in Values
  BY DEF IsStep, Values
<1>2. IsFiniteSet(Deployments(s.key, w))
  BY FS_Subset DEF IsWorld, IsChain, Deployments
<1>3. Cardinality(Deployments(s.key, w)) \in Nat
  BY <1>2, FS_CardinalityType
<1> QED
  BY <1>1, <1>3 DEF NewAddress, IsWorld, Address

LEMMA NewContractTyped ==
    ASSUME NEW w, IsWorld(w), NEW s, IsStep(s)
    PROVE  IsContract(NewContract(s, w))
BY ResolveTyped DEF IsStep, IsContract, NewContract, Owners

LEMMA CalledTyped ==
    ASSUME NEW w, IsWorld(w), NEW s, IsStep(s), s.op \in OnContract,
           NEW c, IsContract(c)
    PROVE  IsContract(Called(c, s, w))
<1> DEFINE fresh == [f \in DOMAIN s.wiring |-> Resolve(s.wiring[f], w)]
<1>1. \A f \in DOMAIN fresh : fresh[f] \in Address
  BY ResolveTyped DEF IsStep
<1>2. \A f \in DOMAIN Rewired(c, s, w) : Rewired(c, s, w)[f] \in Address
  BY <1>1 DEF Rewired, IsContract
<1>3. CASE s.op = "set"
  BY <1>2, <1>3 DEF Called, IsContract
<1>4. CASE s.op \in {"pause", "unpause"}
  BY <1>4 DEF Called, IsContract
<1>5. CASE s.op = "transfer"
  BY <1>5 DEF Called, IsContract
<1>6. CASE s.op = "grant"
  <2>1. Called(c, s, w) = [c EXCEPT !.grants = c.grants + 1]
    BY <1>6 DEF Called
  <2>2. c.grants + 1 \in Nat
    BY DEF IsContract
  <2> QED
    BY <2>1, <2>2 DEF IsContract
<1> QED
  BY <1>3, <1>4, <1>5, <1>6 DEF OnContract

LEMMA ChainAfterTyped ==
    ASSUME NEW w, IsWorld(w), NEW s, IsStep(s), Accepted(s, w)
    PROVE  IsChain(ChainAfter(s, w))
<1>1. CASE s.op \in Creating
  <2> DEFINE new == NewAddress(s, w)
             chn == Put(w.chain, new, NewContract(s, w))
  <2>1. ChainAfter(s, w) = chn
    BY <1>1 DEF ChainAfter
  <2>2. DOMAIN chn = DOMAIN w.chain \cup {new}
    BY DEF Put
  <2>3. IsFiniteSet(DOMAIN chn)
    BY <2>2, FS_AddElement DEF IsWorld, IsChain
  <2>4. chn = [a \in DOMAIN chn |-> chn[a]]
    BY DEF Put
  <2>5. \A a \in DOMAIN chn : IsContract(chn[a])
    BY NewContractTyped DEF Put, IsWorld, IsChain
  <2>6. DOMAIN chn \subseteq Address
    BY <2>2, NewAddressTyped DEF IsWorld, IsChain
  <2> QED
    BY <2>1, <2>3, <2>4, <2>5, <2>6 DEF IsChain
<1>2. CASE s.op \in OnContract
  <2>1. Resolve(s.key, w) \in DOMAIN w.chain
    BY <1>2 DEF Accepted
  <2>2. ChainAfter(s, w) =
           [w.chain EXCEPT ![Resolve(s.key, w)] = Called(w.chain[Resolve(s.key, w)], s, w)]
    BY <1>2 DEF ChainAfter, Creating, OnContract
  <2>3. IsContract(Called(w.chain[Resolve(s.key, w)], s, w))
    BY <1>2, <2>1, CalledTyped DEF IsWorld, IsChain
  <2> QED
    BY <2>1, <2>2, <2>3 DEF IsChain, IsWorld
<1>3. CASE s.op \notin Creating \cup OnContract
  BY <1>3 DEF ChainAfter, IsWorld
<1> QED
  BY <1>1, <1>2, <1>3

LEMMA BookAfterTyped ==
    ASSUME NEW w, IsWorld(w), NEW s, IsStep(s), Accepted(s, w)
    PROVE  IsBook(BookAfter(s, w))
<1>1. s.key \in Keys /\ External(s.key) \in Address
  BY DEF IsStep, External, Address, Values
<1>2. CASE s.op = "record"
  <2>1. w.memory[s.key] \in Address
    BY <1>2 DEF Accepted, IsWorld, IsBook
  <2> QED
    BY <1>1, <1>2, <2>1, UpdatedTyped DEF BookAfter, IsWorld
<1>3. CASE s.op = "note"
  BY <1>1, <1>3, UpdatedTyped DEF BookAfter, IsWorld
<1>4. CASE s.op \notin {"record", "note"}
  BY <1>4 DEF BookAfter, IsWorld
<1> QED
  BY <1>2, <1>3, <1>4

LEMMA MemoryAfterTyped ==
    ASSUME NEW w, IsWorld(w), NEW s, IsStep(s)
    PROVE  IsBook(MemoryAfter(s, w))
<1>1. s.key \in Keys /\ External(s.key) \in Address
  BY DEF IsStep, External, Address, Values
<1>2. CASE s.op \in Creating
  BY <1>1, <1>2, NewAddressTyped, UpdatedTyped DEF MemoryAfter, IsWorld
<1>3. CASE s.op = "bind"
  BY <1>1, <1>3, UpdatedTyped DEF MemoryAfter, IsWorld, Creating
<1>4. CASE s.op \notin Creating \cup {"bind"}
  BY <1>4 DEF MemoryAfter, IsWorld
<1> QED
  BY <1>2, <1>3, <1>4

-----------------------------------------------------------------------------
(* Type correctness.                                                         *)
LEMMA CurrentTyped ==
    ASSUME TypeOK, InScript
    PROVE  /\ Current \in Statements[env][script] /\ IsStep(Current)
           /\ Tail(todo) \in Seq(Statements[env][script])
           /\ IsWorld(world)
<1>1. todo \in Seq(Statements[env][script]) /\ todo # << >>
  BY DEF TypeOK, InScript
<1>2. Current \in Statements[env][script] /\ Tail(todo) \in Seq(Statements[env][script])
  BY <1>1 DEF Current
<1>3. IsStep(Current)
  BY <1>2, ProgramFacts DEF TypeOK
<1>4. IsWorld(world)
  BY ProgramFacts DEF TypeOK, IsWorld, world
<1> QED
  BY <1>2, <1>3, <1>4

LEMMA ExecuteTyped ==
    ASSUME TypeOK, NEW ops, Execute(ops)
    PROVE  /\ IsChain(chain') /\ IsBook(book') /\ IsBook(memory')
           /\ todo' \in Seq(Statements[env][script])
<1>1. InScript /\ Accepted(Current, world)
  BY DEF Execute
<1>2. chain' = ChainAfter(Current, world) /\ book' = BookAfter(Current, world)
      /\ memory' = MemoryAfter(Current, world) /\ todo' = Tail(todo)
  BY DEF Execute
<1> QED
  BY <1>1, <1>2, CurrentTyped, ChainAfterTyped, BookAfterTyped, MemoryAfterTyped

LEMMA EmptyIsBook == IsBook(Empty)
BY DEF IsBook, Empty

LEMMA BeginTyped ==
    ASSUME TypeOK, NEW i \in 1..LastOf(env), Begin(i), env' = env
    PROVE  /\ script' \in 1..LastOf(env') /\ todo' \in Seq(Statements[env'][script'])
           /\ IsBook(memory') /\ running' \in BOOLEAN
BY ProgramFacts, EmptyIsBook DEF TypeOK, Begin

LEMMA DieTyped ==
    ASSUME TypeOK, Die, env' = env
    PROVE  /\ script' \in 1..LastOf(env') /\ todo' \in Seq(Statements[env'][script'])
           /\ IsBook(memory') /\ running' \in BOOLEAN
BY EmptyIsBook DEF TypeOK, Die

LEMMA NumbersFacts ==
    ASSUME TypeOK
    PROVE  /\ DOMAIN numbers = 1..LastOf(env) /\ Len(numbers) = LastOf(env)
           /\ \A i \in 1..LastOf(env) : numbers[i] = Program[env][i].number
           /\ \A i \in 1..LastOf(env) : numbers[i] \in Nat /\ numbers[i] > 0
           /\ \A i \in 1..LastOf(env) : numbers[i] \in Numbers
           /\ Numbers \subseteq Nat
           /\ LastOf(env) \in Nat /\ LastOf(env) > 0
<1>1. LastOf(env) \in Nat /\ LastOf(env) > 0
  BY ProgramFacts DEF TypeOK
<1>2. DOMAIN numbers = 1..LastOf(env)
      /\ \A i \in 1..LastOf(env) : numbers[i] = Program[env][i].number
  BY DEF TypeOK, NumbersOf
<1>3. Len(numbers) = LastOf(env)
  <2> DEFINE Num(i) == Program[env][i].number
  <2>1. numbers = [i \in 1..LastOf(env) |-> Num(i)]
    BY DEF TypeOK, NumbersOf
  <2>2. \A i \in 1..LastOf(env) : Num(i) \in Nat
    BY ProgramFacts DEF TypeOK
  <2>3. numbers \in Seq(Nat)
    <3> HIDE DEF Num
    <3> QED BY <1>1, <2>1, <2>2
  <2> QED
    BY <1>1, <1>2, <2>3
<1>4. \A i \in 1..LastOf(env) : numbers[i] \in Nat /\ numbers[i] > 0
  BY <1>2, ProgramFacts DEF TypeOK
<1> QED
  BY <1>1, <1>2, <1>3, <1>4 DEF Numbers

LEMMA InitTyped == Init => TypeOK
<1> SUFFICES ASSUME Init PROVE TypeOK
  OBVIOUS
<1>1. env \in Environments
  BY DEF Init
<1>2. LastOf(env) \in Nat /\ LastOf(env) > 0
  BY <1>1, ProgramFacts
<1>3. Steps(env, 1) \in Seq(Statements[env][1])
  BY <1>1, <1>2, ProgramFacts
<1>4. IsChain(Empty)
  BY FS_EmptySet DEF IsChain, Empty
<1> QED
  BY <1>1, <1>2, <1>3, <1>4, EmptyIsBook, ProgramAssumption DEF Init, TypeOK
LEMMA ExecuteKeepsType ==
    ASSUME TypeOK, NEW ops, Execute(ops),
           completed' \in Numbers \cup {0}, lastFile' \in Nat
    PROVE  TypeOK'
<1>1. /\ IsChain(chain') /\ IsBook(book') /\ IsBook(memory')
      /\ todo' \in Seq(Statements[env][script])
  BY ExecuteTyped
<1>2. UNCHANGED <<env, numbers, inflight, script, running, failure, faults, passedOver>>
  BY DEF Execute
<1>3. todo' \in Seq(Statements[env'][script']) /\ Numbers' = Numbers
  BY <1>1, <1>2 DEF Numbers
<1> QED
  BY <1>1, <1>2, <1>3 DEF TypeOK

(* A step that changes the process and not what lies on chain or in files.   *)
LEMMA ProcessKeepsType ==
    ASSUME TypeOK, UNCHANGED <<env, numbers, chain, book, lastFile>>,
           completed' \in Numbers \cup {0}, inflight' \in Numbers \cup {0},
           failure' \in Ops \cup {"none"}, faults' \in 0..MaxFaults[env],
           passedOver' \subseteq 1..LastOf(env),
           Die \/ \E i \in 1..LastOf(env) : Begin(i)
    PROVE  TypeOK'
<1>1. /\ script' \in 1..LastOf(env') /\ todo' \in Seq(Statements[env'][script'])
      /\ IsBook(memory') /\ running' \in BOOLEAN
  BY BeginTyped, DieTyped
<1>2. Numbers' = Numbers
  BY DEF Numbers
<1> QED
  BY <1>1, <1>2 DEF TypeOK

(* A step that changes the contracts and nothing else.                       *)
LEMMA ChainKeepsType ==
    ASSUME TypeOK, IsChain(chain'),
           UNCHANGED <<env, numbers, completed, inflight, files, process, failure, faults,
                       passedOver>>
    PROVE  TypeOK'
<1>1. Numbers' = Numbers /\ Statements[env'][script'] = Statements[env][script]
  BY DEF Numbers, process
<1> QED
  BY <1>1 DEF TypeOK, files, process

LEMMA FaultTyped == ASSUME TypeOK, Fault PROVE faults' \in 0..MaxFaults[env]
BY ProgramAssumption DEF TypeOK, Fault

LEMMA NextTyped == ASSUME TypeOK, [Next]_vars PROVE TypeOK'
<1> USE NumbersFacts
<1>t. TypeOK
  OBVIOUS
<1>0. /\ completed \in Numbers \cup {0} /\ inflight \in Numbers \cup {0}
      /\ failure \in Ops \cup {"none"} /\ faults \in 0..MaxFaults[env]
      /\ script \in 1..LastOf(env) /\ lastFile \in Nat
      /\ completed \in Nat /\ passedOver \subseteq 1..LastOf(env)
  BY DEF TypeOK
<1>1. CASE DeployContract
  BY <1>0, <1>1, ExecuteKeepsType DEF DeployContract
<1>2. CASE UpdateBook \/ CallContract \/ SwitchPause \/ ParameterIsSet
  BY <1>0, <1>2, ExecuteKeepsType DEF UpdateBook, CallContract, SwitchPause, ParameterIsSet
<1>3. CASE UpdateLastCompletedMigration
  BY <1>0, <1>3, ExecuteKeepsType DEF UpdateLastCompletedMigration
<1>4. CASE Fail
  <2>1. Current.op \in Ops
    BY <1>4, CurrentTyped DEF Fail, Failing, IsStep
  <2> QED
    BY <1>0, <1>4, <2>1, ProcessKeepsType DEF Fail, onChain, files
<1>5. CASE SetCompleted
  <2>1. completed' \in Numbers
    BY <1>0, <1>5 DEF SetCompleted
  <2>2. Die \/ \E i \in 1..LastOf(env) : Begin(i)
    BY <1>0, <1>5 DEF SetCompleted
  <2> QED
    BY <1>0, <1>5, <2>1, <2>2, ProcessKeepsType DEF SetCompleted, files
<1>6. CASE Crash
  BY <1>0, <1>6, FaultTyped, ProcessKeepsType DEF Crash, Fault, onChain, files
<1>7. CASE CrashInFlight
  BY <1>0, <1>7, FaultTyped, ProcessKeepsType DEF CrashInFlight, Fault, files
<1>8. CASE ParameterIsMissing
  <2>1. failure' \in Ops
    BY <1>8 DEF ParameterIsMissing, Ops
  <2> QED
    BY <1>0, <1>8, <2>1, FaultTyped, ProcessKeepsType
    DEF ParameterIsMissing, Fault, onChain, files
<1>9. CASE Restart
  <2>1. PICK i \in 1..LastOf(env) : Begin(i)
    BY <1>9 DEF Restart, FirstPending, Pending
  <2>2. Unfinished(script') \subseteq 1..LastOf(env)
    BY <1>0, <2>1 DEF Unfinished, Begin
  <2>3. passedOver' \subseteq 1..LastOf(env)
    BY <1>0, <1>9, <2>2 DEF Restart
  <2> QED
    BY <1>0, <1>9, <2>1, <2>3, ProcessKeepsType DEF Restart, files
<1>10. CASE RepairPause
  <2> DEFINE a == Resolve(Current.key, world)
  <2>1. a \in DOMAIN chain /\ chain' = [chain EXCEPT ![a] = [chain[a] EXCEPT !.paused = TRUE]]
    BY <1>10 DEF RepairPause
  <2>2. \A c : IsContract(c) => IsContract([c EXCEPT !.paused = TRUE])
    BY DEF IsContract
  <2>3. IsChain(chain')
    <3> HIDE DEF a
    <3> QED BY <2>1, <2>2 DEF TypeOK, IsChain
  <2> QED
    BY <1>10, <2>3, ChainKeepsType DEF RepairPause
<1>11. CASE OwnerConfirms
  <2>1. \A c : IsContract(c) => IsContract([c EXCEPT !.owner = "owner", !.appointed = FALSE])
    BY DEF IsContract, Owners
  <2>2. IsChain(chain')
    BY <1>11, <2>1 DEF OwnerConfirms, TypeOK, IsChain
  <2> QED
    BY <1>11, <2>2, ChainKeepsType DEF OwnerConfirms
<1>12. CASE UNCHANGED vars
  BY <1>12, ChainKeepsType DEF vars, onChain, files, process, TypeOK
<1> QED
  BY <1>1, <1>2, <1>3, <1>4, <1>5, <1>6, <1>7, <1>8, <1>9, <1>10, <1>11, <1>12
  DEF Next, Proceed

(* Whatever the scripts are and wherever the process dies, the files and the *)
(* contracts stay well formed (json_func.js, Migrations.sol).                *)
THEOREM TypeCorrect == Spec => []TypeOK
<1>1. Init => TypeOK
  BY InitTyped
<1>2. TypeOK /\ [Next]_vars => TypeOK'
  BY NextTyped
<1> QED
  BY <1>1, <1>2, PTL DEF Spec
-----------------------------------------------------------------------------
(* The names in the book, in the script and between the contracts.           *)
HasNames(w) == NamesExist(w.book, w.chain) /\ NamesExist(w.memory, w.chain)
               /\ SlotsExist(w.chain)

LEMMA ResolveExists ==
    ASSUME NEW w, HasNames(w), NEW k
    PROVE  Resolve(k, w)[1] = k /\ Exists(Resolve(k, w), w.chain)
BY DEF HasNames, NamesExist, Resolve, External, Exists

LEMMA NamesStay ==
    ASSUME NEW b, NEW c, NamesExist(b, c), NEW d, DOMAIN c \subseteq DOMAIN d
    PROVE  NamesExist(b, d)
BY DEF NamesExist, Exists

LEMMA NamePut ==
    ASSUME NEW b, NEW c, NamesExist(b, c), NEW k, NEW a, a[1] = k, Exists(a, c)
    PROVE  NamesExist(Updated(b, k, a), c)
BY DEF NamesExist, Updated, Put

LEMMA ChainAfterGrows ==
    ASSUME NEW w, NEW s
    PROVE  /\ DOMAIN w.chain \subseteq DOMAIN ChainAfter(s, w)
           /\ s.op \in Creating => NewAddress(s, w) \in DOMAIN ChainAfter(s, w)
BY DEF ChainAfter, Put, Creating, OnContract

LEMMA NamesAfter ==
    ASSUME NEW w, IsWorld(w), HasNames(w), NEW s, IsStep(s), Accepted(s, w)
    PROVE  /\ NamesExist(BookAfter(s, w), ChainAfter(s, w))
           /\ NamesExist(MemoryAfter(s, w), ChainAfter(s, w))
<1>1. NamesExist(w.book, ChainAfter(s, w)) /\ NamesExist(w.memory, ChainAfter(s, w))
  BY ChainAfterGrows, NamesStay DEF HasNames
<1>2. External(s.key)[1] = s.key /\ Exists(External(s.key), ChainAfter(s, w))
  BY DEF External, Exists
<1>3. NamesExist(BookAfter(s, w), ChainAfter(s, w))
  <2>1. CASE s.op = "record"
    <3>1. w.memory[s.key][1] = s.key /\ Exists(w.memory[s.key], ChainAfter(s, w))
      BY <1>1, <2>1 DEF Accepted, NamesExist
    <3> QED
      BY <1>1, <2>1, <3>1, NamePut DEF BookAfter
  <2>2. CASE s.op = "note"
    BY <1>1, <1>2, <2>2, NamePut DEF BookAfter
  <2>3. CASE s.op \notin {"record", "note"}
    BY <1>1, <2>3 DEF BookAfter
  <2> QED
    BY <2>1, <2>2, <2>3
<1>4. NamesExist(MemoryAfter(s, w), ChainAfter(s, w))
  <2>1. CASE s.op \in Creating
    <3>1. NewAddress(s, w)[1] = s.key /\ Exists(NewAddress(s, w), ChainAfter(s, w))
      BY <2>1, NewAddressTyped, ChainAfterGrows DEF Exists
    <3>2. NamesExist(Updated(w.memory, s.key, NewAddress(s, w)), ChainAfter(s, w))
      BY <1>1, <3>1, NamePut
    <3>3. MemoryAfter(s, w) = Updated(w.memory, s.key, NewAddress(s, w))
      BY <2>1 DEF MemoryAfter, Creating
    <3> QED
      BY <3>2, <3>3
  <2>2. CASE s.op = "bind"
    BY <1>1, <1>2, <2>2, NamePut DEF MemoryAfter, Creating
  <2>3. CASE s.op \notin Creating \cup {"bind"}
    BY <1>1, <2>3 DEF MemoryAfter
  <2> QED
    BY <2>1, <2>2, <2>3
<1> QED
  BY <1>3, <1>4

SlotsOf(c, d) == \A f \in DOMAIN c.slots : Exists(c.slots[f], d)

LEMMA CalledSlots ==
    ASSUME NEW w, HasNames(w), NEW s, IsStep(s), s.op \in OnContract, NEW c,
           IsContract(c), SlotsOf(c, w.chain)
    PROVE  SlotsOf(Called(c, s, w), w.chain)
<1>1. CASE s.op = "set"
  <2>1. Called(c, s, w).slots = Rewired(c, s, w)
    BY <1>1 DEF Called, IsContract
  <2>2. \A f \in DOMAIN Rewired(c, s, w) : Exists(Rewired(c, s, w)[f], w.chain)
    BY ResolveExists DEF Rewired, SlotsOf
  <2> QED
    BY <2>1, <2>2 DEF SlotsOf
<1>2. CASE s.op # "set"
  <2>1. Called(c, s, w).slots = c.slots
    BY <1>2 DEF Called, IsContract, OnContract
  <2> QED
    BY <2>1 DEF SlotsOf
<1> QED
  BY <1>1, <1>2

LEMMA SlotsAfter ==
    ASSUME NEW w, IsWorld(w), HasNames(w), NEW s, IsStep(s), Accepted(s, w)
    PROVE  SlotsExist(ChainAfter(s, w))
<1> DEFINE chn == ChainAfter(s, w)
<1>0. \A a \in DOMAIN w.chain : SlotsOf(w.chain[a], w.chain)
  BY DEF HasNames, SlotsExist, SlotsOf
<1>1. \A a \in DOMAIN chn : SlotsOf(chn[a], w.chain)
  <2>1. CASE s.op \in Creating
    <3>1. chn = Put(w.chain, NewAddress(s, w), NewContract(s, w))
      BY <2>1 DEF ChainAfter
    <3>2. SlotsOf(NewContract(s, w), w.chain)
      BY ResolveExists DEF SlotsOf, NewContract
    <3> HIDE DEF chn
    <3> QED
      BY <1>0, <3>1, <3>2 DEF Put
  <2>2. CASE s.op \in OnContract
    <3> DEFINE t == Resolve(s.key, w)
    <3>1. t \in DOMAIN w.chain
      BY <2>2 DEF Accepted
    <3>2. chn = [w.chain EXCEPT ![t] = Called(w.chain[t], s, w)]
      BY <2>2 DEF ChainAfter, Creating, OnContract
    <3>3. SlotsOf(Called(w.chain[t], s, w), w.chain)
      BY <1>0, <2>2, <3>1, CalledSlots DEF IsWorld, IsChain
    <3> HIDE DEF chn, t
    <3> QED
      BY <1>0, <3>1, <3>2, <3>3
  <2>3. CASE s.op \notin Creating \cup OnContract
    BY <1>0, <2>3 DEF ChainAfter
  <2> QED
    BY <2>1, <2>2, <2>3
<1>2. DOMAIN w.chain \subseteq DOMAIN chn
  BY ChainAfterGrows
<1> HIDE DEF chn
<1>3. SlotsExist(chn)
  BY <1>1, <1>2 DEF SlotsExist, SlotsOf, Exists
<1> QED
  BY <1>3 DEF chn

LEMMA ExecuteKeepsNames ==
    ASSUME TypeOK, BookNamesDeployed, NEW ops, Execute(ops)
    PROVE  BookNamesDeployed'
<1>1. InScript /\ Accepted(Current, world) /\ IsStep(Current) /\ IsWorld(world)
  BY CurrentTyped DEF Execute
<1>2. HasNames(world)
  BY DEF BookNamesDeployed, HasNames, world
<1>3. chain' = ChainAfter(Current, world) /\ book' = BookAfter(Current, world)
      /\ memory' = MemoryAfter(Current, world)
  BY DEF Execute
<1> QED
  BY <1>1, <1>2, <1>3, NamesAfter, SlotsAfter DEF BookNamesDeployed

LEMMA EmptyHasNames == ASSUME NEW c PROVE NamesExist(Empty, c)
BY DEF NamesExist, Empty

(* A step that only starts or ends a process, or changes no address.         *)
LEMMA OthersKeepNames ==
    ASSUME BookNamesDeployed, book' = book, memory' \in {memory, Empty},
           DOMAIN chain' = DOMAIN chain,
           \A a \in DOMAIN chain : chain'[a].slots = chain[a].slots
    PROVE  BookNamesDeployed'
<1>1. NamesExist(book', chain') /\ NamesExist(memory', chain')
  BY NamesStay, EmptyHasNames DEF BookNamesDeployed
<1>2. SlotsExist(chain')
  BY DEF BookNamesDeployed, SlotsExist, Exists
<1> QED
  BY <1>1, <1>2 DEF BookNamesDeployed

(* A contract that has been handed over stays so.                            *)
Leaving(c) == c.appointed \/ c.owner = "owner"

(* The steps that are no statement of a script do not touch the book or what *)
(* the contracts refer to.                                                   *)
OutsideScript ==
    /\ book' = book /\ memory' \in {memory, Empty}
    /\ DOMAIN chain' = DOMAIN chain
    /\ \A a \in DOMAIN chain : /\ chain'[a].slots = chain[a].slots
                               /\ Leaving(chain[a]) => Leaving(chain'[a])

LEMMA StatementOrNot == ASSUME TypeOK, [Next]_vars PROVE (\E ops : Execute(ops)) \/ OutsideScript
<1>1. CASE UNCHANGED <<chain, book>> /\ memory' \in {memory, Empty}
  BY <1>1 DEF OutsideScript
<1>2. CASE RepairPause
  <2> DEFINE a == Resolve(Current.key, world)
  <2>1. a \in DOMAIN chain /\ chain' = [chain EXCEPT ![a] = [chain[a] EXCEPT !.paused = TRUE]]
    BY <1>2 DEF RepairPause
  <2>2. \A c : IsContract(c) => /\ [c EXCEPT !.paused = TRUE].slots = c.slots
                                /\ Leaving(c) => Leaving([c EXCEPT !.paused = TRUE])
    BY DEF IsContract, Leaving
  <2>3. \A b \in DOMAIN chain : /\ chain'[b].slots = chain[b].slots
                                /\ Leaving(chain[b]) => Leaving(chain'[b])
    <3> HIDE DEF a
    <3> QED BY <2>1, <2>2 DEF TypeOK, IsChain
  <2> QED
    BY <1>2, <2>1, <2>3 DEF RepairPause, OutsideScript, files, process
<1>3. CASE OwnerConfirms
  <2>1. \A c : IsContract(c) =>
               /\ [c EXCEPT !.owner = "owner", !.appointed = FALSE].slots = c.slots
               /\ Leaving([c EXCEPT !.owner = "owner", !.appointed = FALSE])
    BY DEF IsContract, Leaving
  <2>2. \A a \in DOMAIN chain : /\ chain'[a].slots = chain[a].slots
                                /\ Leaving(chain[a]) => Leaving(chain'[a])
    BY <1>3, <2>1 DEF OwnerConfirms, TypeOK, IsChain
  <2>3. DOMAIN chain' = DOMAIN chain
    BY <1>3 DEF OwnerConfirms
  <2> QED
    BY <1>3, <2>2, <2>3 DEF OwnerConfirms, OutsideScript, files, process
<1>4. Proceed => (\E ops : Execute(ops)) \/ Fail \/ SetCompleted
  BY DEF Proceed, DeployContract, UpdateBook, CallContract, SwitchPause, ParameterIsSet,
         UpdateLastCompletedMigration
<1>5. Fail \/ SetCompleted \/ Crash \/ CrashInFlight \/ ParameterIsMissing \/ Restart
      \/ UNCHANGED vars => UNCHANGED <<chain, book>> /\ memory' \in {memory, Empty}
  BY DEF Fail, SetCompleted, Crash, CrashInFlight, ParameterIsMissing, Restart, Fault, Die,
         Begin, vars, onChain, files, process
<1> QED
  BY <1>1, <1>2, <1>3, <1>4, <1>5 DEF Next

LEMMA NextNames == ASSUME TypeOK, BookNamesDeployed, [Next]_vars PROVE BookNamesDeployed'
BY StatementOrNot, ExecuteKeepsNames, OthersKeepNames DEF OutsideScript

(* The address book never names what was not deployed for the key, and no    *)
(* contract refers to a missing one (json_func.js:11), wherever the process  *)
(* dies: an address is known only from a deployment that was mined.          *)
THEOREM NamesAreDeployed == Spec => []BookNamesDeployed
<1>1. Init => BookNamesDeployed
  BY EmptyHasNames DEF Init, BookNamesDeployed, SlotsExist, Empty
<1>2. TypeOK /\ BookNamesDeployed /\ [Next]_vars => BookNamesDeployed'
  BY NextNames
<1> QED
  BY <1>1, <1>2, TypeCorrect, PTL DEF Spec
-----------------------------------------------------------------------------
(* The order of the scripts. The invariant: the script that runs, or ran     *)
(* last, is the one that was completed last or the next one; a setCompleted  *)
(* in flight is of a script that died; and only the first script runs before *)
(* anything is completed, so that the contract it replaces has no number.    *)
OrderInv ==
    /\ completed <= numbers[script]
    /\ \A n \in Numbers : n > completed => numbers[script] <= n
    /\ inflight # 0 => inflight = numbers[script] /\ ~running /\ script > 1
    /\ script > 1 => completed > 0
    /\ script = 1 /\ running => completed = 0

LEMMA SortedNumbers ==
    ASSUME TypeOK
    PROVE  \A i, j \in 1..LastOf(env) : i <= j => numbers[i] <= numbers[j]
BY NumbersFacts, ProgramFacts DEF TypeOK

LEMMA DeployKeepsNumber ==
    ASSUME TypeOK, OrderInv, DeployContract
    PROVE  completed' = completed
<1>1. InScript /\ Current.op \in Creating
  BY DEF DeployContract, Execute
<1>2. Current \in Statements[env][script]
  BY <1>1, CurrentTyped
<1>3. CASE Current.key = MigrationKey
  <2>1. script = 1
    <3>0. Statements[env][script] =
              {Steps(env, script)[j] : j \in 1..Len(Steps(env, script))}
      BY DEF TypeOK, Statements
    <3>1. PICK j \in 1..Len(Steps(env, script)) : Current = Steps(env, script)[j]
      BY <1>2, <3>0
    <3>2. IsProgram(Program[env])
      BY ProgramAssumption DEF TypeOK
    <3>3. script \in 1..Len(Program[env])
      BY DEF TypeOK, LastOf
    <3>4. script \notin 2..Len(Program[env])
      BY <1>1, <1>3, <3>1, <3>2 DEF IsProgram, Steps
    <3>5. Len(Program[env]) \in Nat
      BY <3>2 DEF IsProgram
    <3> QED
      BY <3>3, <3>4, <3>5
  <2>2. completed = 0
    BY <1>1, <2>1 DEF OrderInv, InScript
  <2> QED
    BY <1>3, <2>2 DEF DeployContract
<1>4. CASE Current.key # MigrationKey
  BY <1>4 DEF DeployContract
<1> QED
  BY <1>3, <1>4

(* All steps but SetCompleted, CrashInFlight and Restart.                    *)
LEMMA OtherKeepOrder ==
    ASSUME TypeOK, OrderInv,
           UNCHANGED <<numbers, completed, inflight, script>>, running' => running
    PROVE  OrderInv'
<1>1. Numbers' = Numbers
  BY DEF Numbers
<1> QED
  BY <1>1 DEF OrderInv, TypeOK

LEMMA SetCompletedKeepsOrder == ASSUME TypeOK, OrderInv, SetCompleted PROVE OrderInv'
<1> USE NumbersFacts, SortedNumbers
<1>1. script \in 1..LastOf(env) /\ running
  BY DEF TypeOK, SetCompleted, ScriptEnds
<1>2. inflight' = 0
  BY <1>1 DEF OrderInv, SetCompleted
<1>3. Numbers' = Numbers /\ numbers' = numbers /\ completed' = numbers[script]
  BY DEF Numbers, SetCompleted
<1>4. \A n \in Numbers : \E j \in 1..LastOf(env) : n = numbers[j]
  BY DEF Numbers
<1>5. CASE Die
  BY <1>1, <1>2, <1>3, <1>5 DEF OrderInv, Die
<1>6. CASE script < Len(numbers) /\ Begin(script + 1)
  <2>1. script' = script + 1 /\ script + 1 \in 1..LastOf(env)
    BY <1>1, <1>6 DEF Begin
  <2>2. \A n \in Numbers : n > numbers[script] => numbers[script + 1] <= n
    <3> TAKE n \in Numbers
    <3>1. PICK j \in 1..LastOf(env) : n = numbers[j]
      BY <1>4
    <3> QED
      BY <1>1, <2>1, <3>1
  <2> QED
    BY <1>1, <1>2, <1>3, <2>1, <2>2 DEF OrderInv
<1> QED
  BY <1>5, <1>6 DEF SetCompleted

(* Where a process starts, and what it finds completed.                      *)
LEMMA RestartFacts ==
    ASSUME TypeOK, OrderInv, NEW i \in FirstPending(completed)
    PROVE  /\ i \in 1..LastOf(env) /\ numbers[i] > completed
           /\ \A n \in Numbers : n > completed => numbers[i] <= n
           /\ i > 1 => completed > 0
           /\ i = 1 => completed = 0
<1> USE NumbersFacts, SortedNumbers
<1>1. i \in 1..LastOf(env) /\ numbers[i] > completed
      /\ \A j \in 1..(i - 1) : numbers[j] <= completed
  BY DEF FirstPending, Pending
<1>2. completed \in Numbers \cup {0} /\ completed \in Nat
  BY DEF TypeOK
<1>3. \A n \in Numbers : n > completed => numbers[i] <= n
  <2> SUFFICES ASSUME NEW n \in Numbers, n > completed PROVE numbers[i] <= n
    OBVIOUS
  <2>1. PICK j \in 1..LastOf(env) : n = numbers[j]
    BY DEF Numbers
  <2>2. j >= i
    BY <1>1, <1>2, <2>1
  <2> QED
    BY <1>1, <2>1, <2>2
<1>4. i > 1 => completed > 0
  <2> SUFFICES ASSUME i > 1 PROVE completed > 0
    OBVIOUS
  <2>1. 1 \in 1..(i - 1) /\ 1 \in 1..LastOf(env)
    BY <1>1
  <2> QED
    BY <1>1, <1>2, <2>1
<1>5. i = 1 => completed = 0
  <2> SUFFICES ASSUME i = 1, completed \in Numbers PROVE FALSE
    BY <1>2
  <2>1. PICK j \in 1..LastOf(env) : completed = numbers[j]
    BY DEF Numbers
  <2> QED
    BY <1>1, <1>2, <2>1
<1> QED
  BY <1>1, <1>3, <1>4, <1>5

(* What Restart finds completed in the end is what it found at first, or the *)
(* number it starts with, which is then the next one.                        *)
LEMMA RestartCompletes ==
    ASSUME TypeOK, OrderInv, Restart
    PROVE  \/ completed' = completed
           \/ /\ completed' \in Numbers /\ completed' > completed
              /\ \A n \in Numbers : n > completed => completed' <= n
<1> USE NumbersFacts
<1>1. completed' = IF inflight = 0 THEN completed ELSE inflight
  BY DEF Restart
<1>2. script \in 1..LastOf(env) /\ completed \in Nat
  BY DEF TypeOK
<1> QED
  BY <1>1, <1>2 DEF OrderInv

LEMMA RestartKeepsOrder == ASSUME TypeOK, OrderInv, Restart PROVE OrderInv'
<1> USE NumbersFacts
<1>1. PICK i \in FirstPending(completed) : Begin(i)
  BY DEF Restart
<1>2. script' = i /\ inflight' = 0 /\ numbers' = numbers /\ Numbers' = Numbers
  BY <1>1 DEF Begin, Restart, Numbers
<1>3. /\ i \in 1..LastOf(env) /\ numbers[i] > completed
      /\ \A n \in Numbers : n > completed => numbers[i] <= n
      /\ i > 1 => completed > 0
      /\ i = 1 => completed = 0
  BY RestartFacts
<1>4. completed \in Nat /\ script \in 1..LastOf(env)
  BY DEF TypeOK
<1>5. CASE completed' = completed
  BY <1>2, <1>3, <1>4, <1>5 DEF OrderInv
<1>6. CASE completed' # completed
  <2>1. completed' = inflight /\ inflight # 0
    BY <1>6 DEF Restart
  <2>2. completed > 0
    BY <1>4, <2>1 DEF OrderInv
  <2>3. completed' \in Numbers /\ completed' > completed
        /\ \A n \in Numbers : n > completed => completed' <= n
    BY <1>6, RestartCompletes
  <2>4. completed' = numbers[i]
    BY <1>3, <1>4, <2>3
  <2> QED
    BY <1>2, <1>3, <1>4, <2>2, <2>3, <2>4 DEF OrderInv
<1> QED
  BY <1>5, <1>6

LEMMA CrashInFlightKeepsOrder == ASSUME TypeOK, OrderInv, CrashInFlight PROVE OrderInv'
<1>1. /\ script > 1 /\ inflight' = numbers[script] /\ running' = FALSE
      /\ UNCHANGED <<numbers, completed, script>>
  BY DEF CrashInFlight, Fault, Die
<1>2. Numbers' = Numbers
  BY <1>1 DEF Numbers
<1> QED
  BY <1>1, <1>2 DEF OrderInv, TypeOK
LEMMA ProceedOrder ==
    ASSUME TypeOK, OrderInv, Proceed
    PROVE  \/ SetCompleted
           \/ /\ UNCHANGED <<numbers, completed, inflight, script>> /\ (running' => running)
              /\ Fail \/ failure' = failure
BY DeployKeepsNumber
DEF Proceed, DeployContract, UpdateBook, CallContract, SwitchPause, ParameterIsSet,
    UpdateLastCompletedMigration, Execute, Fail, Die, onChain

LEMMA NextOrder == ASSUME TypeOK, OrderInv, [Next]_vars PROVE OrderInv'
<1>1. CASE Proceed
  BY <1>1, ProceedOrder, SetCompletedKeepsOrder, OtherKeepOrder
<1>2. CASE CrashInFlight
  BY <1>2, CrashInFlightKeepsOrder
<1>3. CASE Restart
  BY <1>3, RestartKeepsOrder
<1>4. CASE Crash \/ ParameterIsMissing \/ RepairPause \/ OwnerConfirms \/ UNCHANGED vars
  <2>1. UNCHANGED <<numbers, completed, inflight, script>>
    BY <1>4 DEF Crash, ParameterIsMissing, RepairPause, OwnerConfirms, Fault, Die, vars,
                onChain, process
  <2>2. running' = FALSE \/ UNCHANGED running
    BY <1>4 DEF Crash, ParameterIsMissing, RepairPause, OwnerConfirms, Fault, Die, vars, process
  <2> QED
    BY <2>1, <2>2, OtherKeepOrder
<1> QED
  BY <1>1, <1>2, <1>3, <1>4 DEF Next

LEMMA InitOrder == Init => OrderInv
<1> SUFFICES ASSUME Init PROVE OrderInv
  OBVIOUS
<1>1. TypeOK
  BY InitTyped
<1>2. script = 1 /\ completed = 0 /\ inflight = 0 /\ 1 \in 1..LastOf(env)
  BY <1>1, NumbersFacts DEF Init
<1>3. \A n \in Numbers : numbers[1] <= n
  <2> SUFFICES ASSUME NEW n \in Numbers PROVE numbers[1] <= n
    OBVIOUS
  <2>1. PICK j \in 1..LastOf(env) : n = numbers[j]
    BY <1>1, NumbersFacts DEF Numbers
  <2> QED
    BY <1>1, <1>2, <2>1, SortedNumbers
<1> QED
  BY <1>1, <1>2, <1>3, NumbersFacts DEF OrderInv

(* A later number is completed when all the earlier ones are, wherever       *)
(* processes died and transactions were mined late.                          *)
THEOREM OrderInvariant == Spec => []OrderInv
<1>1. Init => OrderInv
  BY InitOrder
<1>2. TypeOK /\ OrderInv /\ [Next]_vars => OrderInv'
  BY NextOrder
<1> QED
  BY <1>1, <1>2, TypeCorrect, PTL DEF Spec

-----------------------------------------------------------------------------
(* Which scripts are passed over. The invariant: a script that has statements*)
(* to come, although its number is completed, shares the number with an      *)
(* earlier one or runs again after a death.                                  *)
LateInv ==
    /\ inflight # 0 => faults > 0
    /\ todo # << >> /\ completed >= numbers[script] => faults > 0 \/ Twin(script)
    /\ PassedOverForAReason

(* A step in which the script only goes on.                                  *)
LEMMA GoOnKeepsLate ==
    ASSUME TypeOK, LateInv,
           UNCHANGED <<numbers, completed, inflight, script, faults, passedOver>>,
           todo' # << >> => todo # << >>
    PROVE  LateInv'
BY DEF LateInv, PassedOverForAReason, Twin

LEMMA FaultKeepsLate == ASSUME TypeOK, LateInv, Fault PROVE LateInv'
<1>1. faults' > 0 /\ passedOver' = passedOver
  BY NumbersFacts, ProgramAssumption DEF TypeOK, Fault
<1> QED
  BY <1>1 DEF LateInv, PassedOverForAReason

LEMMA SetCompletedKeepsLate == ASSUME TypeOK, OrderInv, LateInv, SetCompleted PROVE LateInv'
<1> USE NumbersFacts, SortedNumbers
<1>1. /\ script \in 1..LastOf(env) /\ todo = << >>
      /\ UNCHANGED <<numbers, inflight, faults, passedOver>> /\ completed' = numbers[script]
  BY DEF TypeOK, SetCompleted, ScriptEnds
<1>2. PassedOverForAReason'
  BY <1>1 DEF LateInv, PassedOverForAReason, Twin
<1>3. CASE Die
  BY <1>1, <1>2, <1>3 DEF LateInv, Die
<1>4. CASE script < Len(numbers) /\ Begin(script + 1)
  <2>1. script' = script + 1 /\ script + 1 \in 1..LastOf(env)
    BY <1>1, <1>4 DEF Begin
  <2>2. completed' >= numbers[script + 1] => numbers[script] = numbers[script + 1]
    BY <1>1, <2>1
  <2>3. completed' >= numbers'[script'] => Twin(script)'
    BY <1>1, <2>1, <2>2 DEF Twin
  <2> QED
    BY <1>1, <1>2, <2>1, <2>3 DEF LateInv
<1> QED
  BY <1>3, <1>4 DEF SetCompleted

LEMMA RestartKeepsLate == ASSUME TypeOK, OrderInv, LateInv, Restart PROVE LateInv'
<1> USE NumbersFacts, SortedNumbers
<1>1. PICK i \in FirstPending(completed) : Begin(i)
  BY DEF Restart
<1>2. /\ script' = i /\ inflight' = 0 /\ UNCHANGED <<numbers, faults>>
      /\ passedOver' = passedOver \cup Unfinished(i)
      /\ completed' = IF inflight = 0 THEN completed ELSE inflight
  BY <1>1 DEF Begin, Restart
<1>3. /\ i \in 1..LastOf(env) /\ numbers[i] > completed
      /\ \A j \in 1..(i - 1) : numbers[j] <= completed
  BY DEF FirstPending, Pending
<1>4. completed \in Nat /\ script \in 1..LastOf(env) /\ completed <= numbers[script]
  BY DEF TypeOK, OrderInv
<1>5. completed' >= numbers[i] => faults > 0
  BY <1>2, <1>3, <1>4 DEF LateInv
<1>6. ASSUME NEW j \in Unfinished(i) PROVE faults > 0 \/ Twin(j)
  <2>1. j \in script..(i - 1) /\ j \in 1..LastOf(env) /\ numbers[j] <= completed
    BY <1>3, <1>4 DEF Unfinished
  <2>2. CASE j > script
    <3>1. numbers[script] = numbers[j]
      BY <1>4, <2>1, <2>2
    <3>2. script \in 1..(j - 1)
      BY <1>4, <2>1, <2>2
    <3> QED
      BY <3>1, <3>2 DEF Twin
  <2>3. CASE j = script
    BY <1>4, <2>1, <2>3 DEF Unfinished, LateInv
  <2> QED
    BY <1>4, <2>1, <2>2, <2>3
<1>7. PassedOverForAReason'
  BY <1>2, <1>6 DEF LateInv, PassedOverForAReason, Twin
<1> QED
  BY <1>2, <1>5, <1>7 DEF LateInv

LEMMA NextLate == ASSUME TypeOK, OrderInv, LateInv, [Next]_vars PROVE LateInv'
<1>1. CASE \E ops : Execute(ops) /\ UNCHANGED completed
  <2>1. todo' # << >> => todo # << >>
    BY <1>1 DEF Execute, InScript
  <2> QED
    BY <1>1, <2>1, GoOnKeepsLate DEF Execute
<1>2. CASE Fail \/ RepairPause \/ OwnerConfirms \/ UNCHANGED vars
  <2>1. UNCHANGED <<numbers, completed, inflight, script, faults, passedOver, todo>>
    BY <1>2 DEF Fail, RepairPause, OwnerConfirms, Die, vars, onChain, process
  <2> QED
    BY <2>1, GoOnKeepsLate
<1>3. CASE Fault
  BY <1>3, FaultKeepsLate
<1>4. CASE SetCompleted
  BY <1>4, SetCompletedKeepsLate
<1>5. CASE Restart
  BY <1>5, RestartKeepsLate
<1>6. Proceed => (\E ops : Execute(ops) /\ UNCHANGED completed) \/ Fail \/ SetCompleted
  BY DeployKeepsNumber
  DEF Proceed, DeployContract, UpdateBook, CallContract, SwitchPause, ParameterIsSet,
      UpdateLastCompletedMigration
<1>7. Crash \/ CrashInFlight \/ ParameterIsMissing => Fault
  BY DEF Crash, CrashInFlight, ParameterIsMissing
<1> QED
  BY <1>1, <1>2, <1>3, <1>4, <1>5, <1>6, <1>7 DEF Next

(* Unless a process died, truffle passes over a script that has not got to   *)
(* its end only if it shares its number with an earlier one.                 *)
THEOREM PassedOver == Spec => []PassedOverForAReason
<1>1. Init => LateInv
  <2> SUFFICES ASSUME Init PROVE LateInv
    OBVIOUS
  <2>1. script = 1 /\ completed = 0 /\ numbers[1] > 0 /\ numbers[1] \in Nat
    BY InitTyped, NumbersFacts DEF Init
  <2> QED
    BY <2>1 DEF Init, LateInv, PassedOverForAReason
<1>2. TypeOK /\ OrderInv /\ LateInv /\ [Next]_vars => LateInv'
  BY NextLate
<1>3. LateInv => PassedOverForAReason
  BY DEF LateInv
<1> QED
  BY <1>1, <1>2, <1>3, TypeCorrect, OrderInvariant, PTL DEF Spec

-----------------------------------------------------------------------------
(* How the process moves through the scripts.                                *)
StatementDone == (\E ops : Execute(ops)) /\ UNCHANGED <<env, numbers, script, running>>

ScriptStarts ==
    /\ script' \in 1..LastOf(env) /\ numbers[script'] >= numbers[script]
    /\ todo' = Steps(env, script') /\ memory' = Empty
    /\ UNCHANGED <<env, numbers>>

ScriptStays ==
    /\ UNCHANGED <<env, numbers, script, todo>>
    /\ running' => running

LEMMA ScriptMoves ==
    ASSUME TypeOK, OrderInv, [Next]_vars
    PROVE  \/ StatementDone
           \/ ScriptStarts /\ OutsideScript
           \/ ScriptStays /\ OutsideScript
<1> USE NumbersFacts
<1>1. CASE \E ops : Execute(ops)
  BY <1>1 DEF Execute, StatementDone
<1>2. CASE SetCompleted
  <2>1. ASSUME Die PROVE ScriptStays
    <3>1. UNCHANGED <<env, numbers, script, todo>> /\ running' = FALSE
      BY <1>2, <2>1 DEF SetCompleted, Die
    <3> QED
      BY <3>1 DEF ScriptStays
  <2>2. ASSUME script < Len(numbers), Begin(script + 1) PROVE ScriptStarts
    <3>1. script \in 1..LastOf(env) /\ script + 1 \in 1..LastOf(env)
      BY <2>2 DEF TypeOK
    <3>2. numbers[script + 1] >= numbers[script]
      BY <3>1, SortedNumbers
    <3>3. /\ script' = script + 1 /\ todo' = Steps(env, script + 1) /\ memory' = Empty
          /\ UNCHANGED <<env, numbers>>
      BY <1>2, <2>2 DEF SetCompleted, Begin
    <3> QED
      BY <3>1, <3>2, <3>3 DEF ScriptStarts
  <2>3. \E i : Die \/ Begin(i)
    BY <1>2 DEF SetCompleted
  <2>4. OutsideScript
    BY <1>2, <2>3 DEF SetCompleted, files, OutsideScript, Die, Begin
  <2> QED
    BY <1>2, <2>1, <2>2, <2>4 DEF SetCompleted
<1>3. CASE Restart
  <2>1. PICK i \in FirstPending(completed) : Begin(i)
    BY <1>3 DEF Restart
  <2>2. i \in 1..LastOf(env) /\ numbers[i] > completed
    BY RestartFacts
  <2>3. numbers[script] <= numbers[i]
    BY <2>2 DEF OrderInv
  <2>4. script \in 1..LastOf(env)
    BY DEF TypeOK
  <2> QED
    BY <1>3, <2>1, <2>2, <2>3, <2>4 DEF Restart, Begin, ScriptStarts, OutsideScript, files
<1>4. CASE Fail \/ Crash \/ CrashInFlight \/ ParameterIsMissing \/ RepairPause
           \/ OwnerConfirms \/ UNCHANGED vars
  <2>1. UNCHANGED <<env, numbers, script, todo>>
    BY <1>4 DEF Fail, Crash, CrashInFlight, ParameterIsMissing, RepairPause, OwnerConfirms,
                Fault, Die, vars, process
  <2>2. running' = FALSE \/ running' = running
    BY <1>4 DEF Fail, Crash, CrashInFlight, ParameterIsMissing, RepairPause, OwnerConfirms,
                Fault, Die, vars, process
  <2>3. ScriptStays
    BY <2>1, <2>2 DEF ScriptStays
  <2> QED
    BY <1>1, <2>3, StatementOrNot
<1>5. Proceed => (\E ops : Execute(ops)) \/ Fail \/ SetCompleted
  BY DEF Proceed, DeployContract, UpdateBook, CallContract, SwitchPause, ParameterIsSet,
         UpdateLastCompletedMigration
<1> QED
  BY <1>1, <1>2, <1>3, <1>4, <1>5 DEF Next

(* Of the statements t, one of S is still to come.                           *)
Awaits(t, S) == \E j \in 1..Len(t) : t[j] \in S

LEMMA AwaitsTail ==
    ASSUME NEW X, NEW t \in Seq(X), t # << >>, NEW S, Awaits(t, S), Head(t) \notin S
    PROVE  Awaits(Tail(t), S)
<1>1. PICK j \in 1..Len(t) : t[j] \in S
  BY DEF Awaits
<1>2. j # 1 /\ Len(Tail(t)) = Len(t) - 1
  BY <1>1
<1>3. j - 1 \in 1..Len(Tail(t)) /\ Tail(t)[j - 1] = t[j]
  BY <1>2
<1> QED
  BY <1>1, <1>3 DEF Awaits

LEMMA AwaitsAll ==
    ASSUME NEW e \in Environments, NEW i \in 1..LastOf(e), NEW s \in Statements[e][i],
           NEW S, s \in S
    PROVE  Awaits(Steps(e, i), S)
BY DEF Statements, Awaits

LEMMA AwaitsNothing == ASSUME NEW S PROVE ~Awaits(<< >>, S)
BY DEF Awaits

LEMMA ExecuteAwaits ==
    ASSUME TypeOK, NEW ops, Execute(ops), NEW S, Awaits(todo, S), Current \notin S
    PROVE  Awaits(todo', S)
<1>1. todo \in Seq(Statements[env][script]) /\ todo # << >> /\ todo' = Tail(todo)
      /\ Current = Head(todo)
  BY DEF TypeOK, Execute, InScript, Current
<1> QED
  BY <1>1, AwaitsTail

-----------------------------------------------------------------------------
(* The number in the file. The invariant: while a script runs, or while its  *)
(* number is in flight, it has still to write the file or has written one    *)
(* more than the contract has.                                               *)
Numbering(i) == {s \in Statements[env][i] : s.op = "updateLast"}

FileInv ==
    IF env \in Truffle
    THEN /\ FileOffByOneAtMost
         /\ running \/ inflight # 0 =>
                lastFile = completed + 1 \/ Awaits(todo, Numbering(script))
         /\ inflight # 0 => todo = << >>
    ELSE lastFile = 0

(* The next number is at most two ahead of the completed one.                *)
LEMMA NextNumberIsNear ==
    ASSUME TypeOK, OrderInv, env \in Truffle, KeepsNumbers(env)
    PROVE  numbers[script] - completed \in 0..2
<1> USE NumbersFacts
<1>1. /\ script \in 1..LastOf(env) /\ completed \in Nat
      /\ completed <= numbers[script] /\ numbers[script] \in Numbers
      /\ \A n \in Numbers : n > completed => numbers[script] <= n
      /\ Numbers \subseteq Nat
  BY DEF TypeOK, OrderInv
<1>2. Numbers = {Program[env][i].number : i \in 1..LastOf(env)}
  BY DEF Numbers
<1>3. \A n \in Numbers : n <= 2 \/ n - 1 \in Numbers \/ n - 2 \in Numbers
  BY <1>2 DEF KeepsNumbers
<1> DEFINE n == numbers[script]
<1>4. n \in Nat /\ (n <= 2 \/ n - 1 \in Numbers \/ n - 2 \in Numbers)
  BY <1>1, <1>3
<1>5. \A m \in Numbers : m > completed => n <= m
  BY <1>1
<1>6. n \in Nat /\ completed <= n
  BY <1>1
<1> HIDE DEF n
<1>7. n - completed \in 0..2
  BY <1>1, <1>4, <1>5, <1>6
<1> QED
  BY <1>7 DEF n

LEMMA ScriptWrites ==
    ASSUME NEW i \in 1..LastOf(env), env \in Truffle, env \in Environments, KeepsNumbers(env)
    PROVE  Awaits(Steps(env, i), Numbering(i))
<1>1. PICK s \in Statements[env][i] : s.op = "updateLast"
  BY DEF KeepsNumbers
<1>2. s \in Numbering(i)
  BY <1>1 DEF Numbering
<1> QED
  BY <1>2, AwaitsAll

(* The statements but the one that writes the number.                        *)
LEMMA OtherStatementsKeepFile ==
    ASSUME TypeOK, OrderInv, FileInv, NEW ops, Execute(ops), "updateLast" \notin ops,
           completed' = completed, lastFile' = lastFile
    PROVE  FileInv'
<1>1. /\ InScript /\ Current.op # "updateLast"
      /\ UNCHANGED <<env, numbers, inflight, script, running>>
  BY DEF Execute
<1>2. Current \notin Numbering(script) /\ running /\ todo # << >>
  BY <1>1 DEF Numbering, InScript
<1>3. Awaits(todo, Numbering(script)) => Awaits(todo', Numbering(script))
  BY <1>2, ExecuteAwaits
<1>4. CASE env \in Truffle
  <2>1. inflight = 0
    BY <1>2, <1>4 DEF FileInv
  <2>2. Numbering(script)' = Numbering(script)
    BY <1>1 DEF Numbering
  <2> QED
    BY <1>1, <1>2, <1>3, <1>4, <2>1, <2>2 DEF FileInv, FileOffByOneAtMost
<1>5. CASE env \notin Truffle
  BY <1>1, <1>5 DEF FileInv
<1> QED
  BY <1>4, <1>5

LEMMA WritingKeepsFile ==
    ASSUME TypeOK, OrderInv, FileInv, KeepsNumbers(env), UpdateLastCompletedMigration
    PROVE  FileInv'
<1>1. /\ InScript /\ Current.op = "updateLast" /\ lastFile' = completed + 1
      /\ UNCHANGED <<env, completed, inflight, script, running>>
  BY DEF UpdateLastCompletedMigration, Execute
<1>2. completed \in Nat
  BY NumbersFacts DEF TypeOK
<1>3. CASE env \in Truffle
  <2>1. inflight = 0
    BY <1>1, <1>3 DEF FileInv, InScript
  <2>2. FileOffByOneAtMost'
    BY <1>1, <1>2 DEF FileOffByOneAtMost
  <2> QED
    BY <1>1, <1>3, <2>1, <2>2 DEF FileInv
<1>4. CASE env \notin Truffle
  <2>1. Current \in Statements[env][script] /\ script \in 1..LastOf(env)
    BY <1>1, CurrentTyped DEF TypeOK
  <2>2. script = 1
    BY <1>4, <2>1 DEF KeepsNumbers
  <2> QED
    BY <1>1, <1>4, <2>1, <2>2 DEF KeepsNumbers
<1> QED
  BY <1>3, <1>4

LEMMA SetCompletedKeepsFile ==
    ASSUME TypeOK, OrderInv, FileInv, KeepsNumbers(env), SetCompleted
    PROVE  FileInv'
<1>1. /\ running /\ todo = << >> /\ completed' = numbers[script]
      /\ UNCHANGED <<env, numbers, inflight, lastFile>>
  BY DEF SetCompleted, ScriptEnds, files
<1>2. completed \in Nat /\ script \in 1..LastOf(env) /\ env \in Environments
  BY NumbersFacts DEF TypeOK
<1>3. CASE env \in Truffle
  <2>1. lastFile = completed + 1
    BY <1>1, <1>3, AwaitsNothing DEF FileInv
  <2>2. inflight = 0
    BY <1>1 DEF OrderInv
  <2>3. numbers[script] - completed \in 0..2
    BY <1>3, NextNumberIsNear
  <2>4. numbers[script] \in Nat
    BY <1>2, NumbersFacts
  <2>5. FileOffByOneAtMost'
    BY <1>1, <1>2, <2>1, <2>3, <2>4 DEF FileOffByOneAtMost
  <2>6. CASE Die
    BY <1>1, <1>3, <2>2, <2>5, <2>6 DEF FileInv, Die
  <2>7. CASE script < Len(numbers) /\ Begin(script + 1)
    <3>1. script + 1 \in 1..LastOf(env)
      BY <1>2, <2>7, NumbersFacts
    <3>2. Awaits(Steps(env, script + 1), Numbering(script + 1))
      BY <1>2, <1>3, <3>1, ScriptWrites
    <3>3. script' = script + 1 /\ todo' = Steps(env, script + 1)
      BY <2>7 DEF Begin
    <3>4. Awaits(todo', Numbering(script)')
      BY <1>1, <3>2, <3>3 DEF Numbering
    <3>5. inflight' = 0 /\ env' \in Truffle
      BY <1>1, <1>3, <2>2
    <3> QED
      BY <2>5, <3>4, <3>5 DEF FileInv
  <2> QED
    BY <2>6, <2>7 DEF SetCompleted
<1>4. CASE env \notin Truffle
  BY <1>1, <1>4 DEF FileInv
<1> QED
  BY <1>3, <1>4

LEMMA RestartKeepsFile ==
    ASSUME TypeOK, OrderInv, FileInv, KeepsNumbers(env), Restart
    PROVE  FileInv'
<1>1. /\ env \in Truffle /\ inflight' = 0
      /\ completed' = IF inflight = 0 THEN completed ELSE inflight
      /\ UNCHANGED <<env, numbers, lastFile>>
  BY DEF Restart, files
<1>2. completed \in Nat /\ script \in 1..LastOf(env) /\ env \in Environments
  BY NumbersFacts DEF TypeOK
<1>3. FileOffByOneAtMost'
  <2>1. CASE inflight = 0
    BY <1>1, <2>1 DEF FileInv, FileOffByOneAtMost
  <2>2. CASE inflight # 0
    <3>1. lastFile = completed + 1
      BY <1>1, <2>2, AwaitsNothing DEF FileInv
    <3>2. completed' = numbers[script]
      BY <1>1, <2>2 DEF OrderInv
    <3>3. numbers[script] - completed \in 0..2 /\ numbers[script] \in Nat
      BY <1>1, <1>2, NextNumberIsNear, NumbersFacts
    <3>4. \A c, n \in Nat : n - c \in 0..2 => (c + 1) - n \in {-1, 0, 1}
      OBVIOUS
    <3>5. (completed + 1) - numbers[script] \in {-1, 0, 1}
      BY <1>2, <3>3, <3>4
    <3>6. lastFile' = completed + 1
      BY <1>1, <3>1
    <3> QED
      BY <3>2, <3>5, <3>6 DEF FileOffByOneAtMost
  <2> QED
    BY <2>1, <2>2
<1>4. PICK i \in FirstPending(completed) : Begin(i)
  BY DEF Restart
<1>5. i \in 1..LastOf(env)
  BY RestartFacts
<1>6. Awaits(Steps(env, i), Numbering(i))
  BY <1>1, <1>2, <1>5, ScriptWrites
<1>7. Awaits(todo', Numbering(script)')
  <2>1. script' = i /\ todo' = Steps(env, i)
    BY <1>4 DEF Begin
  <2> QED
    BY <1>1, <1>6, <2>1 DEF Numbering
<1> QED
  BY <1>1, <1>3, <1>7 DEF FileInv

(* Starting and dying apart from the above.                                  *)
LEMMA DyingKeepsFile ==
    ASSUME TypeOK, OrderInv, FileInv, UNCHANGED <<env, numbers, completed, lastFile, script, todo>>,
           \/ inflight' = inflight /\ (running' => running)
           \/ running /\ todo = << >>
    PROVE  FileInv'
<1>1. Numbering(script)' = Numbering(script)
  BY DEF Numbering
<1>2. running => inflight = 0
  BY DEF OrderInv
<1>3. FileOffByOneAtMost => FileOffByOneAtMost'
  BY DEF FileOffByOneAtMost
<1> QED
  BY <1>1, <1>2, <1>3 DEF FileInv

LEMMA NextFile == ASSUME TypeOK, OrderInv, FileInv, KeepsNumbers(env), [Next]_vars PROVE FileInv'
<1>1. CASE DeployContract
  BY <1>1, DeployKeepsNumber, OtherStatementsKeepFile DEF DeployContract, Creating
<1>2. CASE UpdateBook \/ CallContract \/ SwitchPause \/ ParameterIsSet
  BY <1>2, OtherStatementsKeepFile DEF UpdateBook, CallContract, SwitchPause, ParameterIsSet
<1>3. CASE UpdateLastCompletedMigration
  BY <1>3, WritingKeepsFile
<1>4. CASE SetCompleted
  BY <1>4, SetCompletedKeepsFile
<1>5. CASE Restart
  BY <1>5, RestartKeepsFile
<1>6. CASE CrashInFlight
  <2>1. /\ running /\ todo = << >>
        /\ UNCHANGED <<env, numbers, completed, lastFile, script, todo>>
    BY <1>6 DEF CrashInFlight, ScriptEnds, Fault, Die, files
  <2> QED
    BY <2>1, DyingKeepsFile
<1>7. CASE Fail \/ Crash \/ ParameterIsMissing \/ RepairPause \/ OwnerConfirms \/ UNCHANGED vars
  <2>1. UNCHANGED <<env, numbers, completed, inflight, lastFile, script, todo>>
    BY <1>7 DEF Fail, Crash, ParameterIsMissing, RepairPause, OwnerConfirms, Fault, Die, vars,
                onChain, files, process
  <2>2. running' = FALSE \/ running' = running
    BY <1>7 DEF Fail, Crash, ParameterIsMissing, RepairPause, OwnerConfirms, Fault, Die, vars,
                process
  <2> QED
    BY <2>1, <2>2, DyingKeepsFile
<1> QED
  BY <1>1, <1>2, <1>3, <1>4, <1>5, <1>6, <1>7 DEF Next, Proceed

LEMMA InitFile == ASSUME Init, KeepsNumbers(env) PROVE FileInv
<1>1. /\ env \in Environments /\ 1 \in 1..LastOf(env)
      /\ completed = 0 /\ inflight = 0 /\ lastFile = 0
      /\ script = 1 /\ todo = Steps(env, 1)
  BY InitTyped, NumbersFacts DEF Init
<1>2. CASE env \in Truffle
  <2>1. Awaits(todo, Numbering(script))
    BY <1>1, <1>2, ScriptWrites
  <2> QED
    BY <1>1, <1>2, <2>1 DEF FileInv, FileOffByOneAtMost
<1>3. CASE env \notin Truffle
  BY <1>1, <1>3 DEF FileInv
<1> QED
  BY <1>2, <1>3

(* If every script ends by writing the file and no two numbers in a row are  *)
(* missing, the number in the file is at most one off, wherever processes    *)
(* died and however late a transaction was mined (json_func.js:35).          *)
THEOREM FileStaysNear ==
    ASSUME \A e \in Environments : KeepsNumbers(e)
    PROVE  Spec => []FileOffByOneAtMost
<1>1. Init => FileInv
  BY InitTyped, InitFile DEF TypeOK
<1>2. TypeOK /\ OrderInv /\ FileInv /\ [Next]_vars => FileInv'
  BY NextFile DEF TypeOK
<1>3. TypeOK /\ OrderInv /\ FileInv => FileOffByOneAtMost
  <2> SUFFICES ASSUME TypeOK, OrderInv, FileInv PROVE FileOffByOneAtMost
    OBVIOUS
  <2>1. CASE env \in Truffle
    BY <2>1 DEF FileInv
  <2>2. CASE env \notin Truffle
    <3>1. env \in Environments /\ completed \in Numbers \cup {0}
      BY DEF TypeOK
    <3>2. Numbers = {1}
      BY <2>2, <3>1, NumbersFacts DEF KeepsNumbers, Numbers
    <3> QED
      BY <2>2, <3>1, <3>2 DEF FileInv, FileOffByOneAtMost
  <2> QED
    BY <2>1, <2>2
<1> QED
  BY <1>1, <1>2, <1>3, TypeCorrect, OrderInvariant, PTL DEF Spec

-----------------------------------------------------------------------------
(* What a contract is given. The invariant: what the book and the variables  *)
(* name is of some script, so that a statement which is given something else *)
(* throws.                                                                   *)
MadeInv == DOMAIN book \subseteq Made[env] /\ DOMAIN memory \subseteq Made[env]

Naming == Creating \cup {"record", "note", "bind"}

LEMMA NamingMakes ==
    ASSUME NEW e \in Environments, NEW i \in 1..LastOf(e), NEW s \in Statements[e][i],
           s.op \in Naming
    PROVE  s.key \in MadeBy(e, i) /\ s.key \in Made[e]
<1>1. PICK j \in 1..Len(Steps(e, i)) : s = Steps(e, i)[j]
  BY DEF Statements
<1>2. s.key \in MadeBy(e, i)
  BY <1>1 DEF MadeBy, Naming
<1>3. Made[e] = UNION {MadeBy(e, n) : n \in 1..LastOf(e)}
  BY DEF Made
<1> QED
  BY <1>2, <1>3

LEMMA NamesAdded ==
    ASSUME NEW w, NEW s
    PROVE  /\ DOMAIN BookAfter(s, w) \subseteq DOMAIN w.book \cup {s.key}
           /\ DOMAIN MemoryAfter(s, w) \subseteq DOMAIN w.memory \cup {s.key}
           /\ s.op \notin Naming => BookAfter(s, w) = w.book /\ MemoryAfter(s, w) = w.memory
BY DEF BookAfter, MemoryAfter, Updated, Put, Naming, Creating

LEMMA NextMade == ASSUME TypeOK, MadeInv, [Next]_vars PROVE MadeInv'
<1>1. CASE \E ops : Execute(ops)
  <2>1. /\ InScript /\ book' = BookAfter(Current, world)
        /\ memory' = MemoryAfter(Current, world) /\ env' = env
    BY <1>1 DEF Execute
  <2>2. /\ Current \in Statements[env][script]
        /\ env \in Environments /\ script \in 1..LastOf(env)
    BY <2>1, CurrentTyped DEF TypeOK
  <2>3. DOMAIN world.book \subseteq Made[env] /\ DOMAIN world.memory \subseteq Made[env]
    BY DEF MadeInv, world
  <2>4. CASE Current.op \in Naming
    BY <2>1, <2>2, <2>3, <2>4, NamingMakes, NamesAdded DEF MadeInv
  <2>5. CASE Current.op \notin Naming
    BY <2>1, <2>3, <2>5, NamesAdded DEF MadeInv
  <2> QED
    BY <2>4, <2>5
<1>2. CASE OutsideScript
  <2>1. env' = env
    BY DEF Next, Proceed, DeployContract, UpdateBook, CallContract, SwitchPause,
           ParameterIsSet, UpdateLastCompletedMigration, Execute, Fail, SetCompleted, Crash,
           CrashInFlight, ParameterIsMissing, Restart, RepairPause, OwnerConfirms, vars
  <2>2. DOMAIN Empty = {}
    BY DEF Empty
  <2> QED
    BY <1>2, <2>1, <2>2 DEF OutsideScript, MadeInv
<1> QED
  BY <1>1, <1>2, StatementOrNot

LEMMA InitMade == Init => MadeInv
BY DEF Init, MadeInv, Empty

LEMMA AcceptedIsPossible ==
    ASSUME TypeOK, MadeInv, InScript, Accepted(Current, world)
    PROVE  Current \notin Impossible[env]
<1>1. \A f \in DOMAIN Current.wiring : Known(Current.wiring[f], world)
  BY DEF Accepted
<1>2. \A f \in DOMAIN Current.wiring : Current.wiring[f] \in Accounts \cup Made[env]
  BY <1>1 DEF Known, world, MadeInv
<1> QED
  BY <1>2 DEF TypeOK, Impossible, Throws

(* The slots of a contract that stands for a key fit.                        *)
RoleIn(key, c) ==
    \A f \in DOMAIN c.slots : Misfit(env, key, f) \/ Fits(key, f, c.slots[f][1])

LEMMA StatementKeepsRoles ==
    ASSUME TypeOK, BookNamesDeployed, MadeInv, RolesRespected, KeepsRoles(env),
           NEW ops, Execute(ops)
    PROVE  RolesRespected'
<1> DEFINE s == Current
           w == world
<1>1. /\ InScript /\ Accepted(s, w) /\ chain' = ChainAfter(s, w) /\ env' = env
      /\ w.chain = chain
  BY DEF Execute, world
<1>2. /\ s \in Statements[env][script] /\ IsStep(s) /\ IsWorld(w)
      /\ script \in 1..LastOf(env)
  BY <1>1, CurrentTyped DEF TypeOK
<1>3. s \notin Impossible[env]
  BY <1>1, AcceptedIsPossible
<1>4. HasNames(w)
  BY DEF BookNamesDeployed, HasNames, world
<1>5. s.op \in Creating \cup {"set"} =>
        \A f \in DOMAIN s.wiring : Misfit(env, s.key, f) \/ Fits(s.key, f, s.wiring[f])
  BY <1>2, <1>3 DEF KeepsRoles
<1>6. \A a \in DOMAIN chain : RoleIn(a[1], chain[a])
  BY DEF RolesRespected, RoleIn
<1>7. \A k : Resolve(k, w)[1] = k
  BY <1>4, ResolveExists
<1> HIDE DEF s, w
<1>8. \A a \in DOMAIN chain' : RoleIn(a[1], chain'[a])
  <2>1. CASE s.op \in Creating
    <3>1. chain' = Put(chain, NewAddress(s, w), NewContract(s, w))
      BY <1>1, <2>1 DEF ChainAfter
    <3>2. RoleIn(s.key, NewContract(s, w))
      BY <1>5, <1>7, <2>1 DEF RoleIn, NewContract
    <3>3. NewAddress(s, w)[1] = s.key
      BY <1>2, NewAddressTyped
    <3> QED
      BY <1>6, <3>1, <3>2, <3>3 DEF Put
  <2>2. CASE s.op \in OnContract
    <3> DEFINE t == Resolve(s.key, w)
    <3>1. t \in DOMAIN chain /\ t[1] = s.key
      BY <1>1, <1>7, <2>2 DEF Accepted
    <3>2. chain' = [chain EXCEPT ![t] = Called(chain[t], s, w)]
      BY <1>1, <2>2 DEF ChainAfter, Creating, OnContract
    <3>3. IsContract(chain[t])
      BY <3>1 DEF TypeOK, IsChain
    <3> HIDE DEF t
    <3>4. RoleIn(s.key, Called(chain[t], s, w))
      <4>1. CASE s.op = "set"
        <5>1. Called(chain[t], s, w).slots = Rewired(chain[t], s, w)
          BY <3>3, <4>1 DEF Called, IsContract
        <5>2. \A f \in DOMAIN s.wiring : Misfit(env, s.key, f) \/ Fits(s.key, f, s.wiring[f])
          BY <1>5, <4>1
        <5>3. RoleIn(s.key, chain[t])
          BY <1>6, <3>1
        <5> QED
          BY <1>7, <5>1, <5>2, <5>3 DEF RoleIn, Rewired
      <4>2. CASE s.op # "set"
        <5>1. Called(chain[t], s, w).slots = chain[t].slots
          BY <2>2, <3>3, <4>2 DEF Called, IsContract, OnContract
        <5> QED
          BY <1>6, <3>1, <5>1 DEF RoleIn
      <4> QED
        BY <4>1, <4>2
    <3>5. \A a \in DOMAIN chain : a # t => chain'[a] = chain[a]
      BY <3>2
    <3>6. chain'[t] = Called(chain[t], s, w) /\ DOMAIN chain' = DOMAIN chain
      BY <3>1, <3>2
    <3> QED
      BY <1>6, <3>1, <3>4, <3>5, <3>6
  <2>3. CASE s.op \notin Creating \cup OnContract
    BY <1>1, <1>6, <2>3 DEF ChainAfter
  <2> QED
    BY <2>1, <2>2, <2>3
<1> QED
  BY <1>1, <1>8 DEF RolesRespected, RoleIn, Misfit

LEMMA EnvStays == ASSUME TypeOK, OrderInv, [Next]_vars PROVE env' = env /\ numbers' = numbers
BY ScriptMoves DEF StatementDone, ScriptStarts, ScriptStays

LEMMA NextRoles ==
    ASSUME TypeOK, OrderInv, BookNamesDeployed, MadeInv, RolesRespected, KeepsRoles(env),
           [Next]_vars
    PROVE  RolesRespected'
<1>1. CASE OutsideScript
  BY <1>1, EnvStays DEF OutsideScript, RolesRespected, Misfit
<1> QED
  BY <1>1, StatementOrNot, StatementKeepsRoles

(* If every deployment and setter of the scripts names a fitting contract,   *)
(* every contract refers to fitting ones only, whichever scripts ran again   *)
(* and whatever they found in the book: a name never stands for another kind.*)
THEOREM RolesAlwaysRespected ==
    ASSUME \A e \in Environments : KeepsRoles(e)
    PROVE  Spec => []RolesRespected
<1>1. Init => RolesRespected
  BY DEF Init, RolesRespected, Empty
<1>2. TypeOK /\ MadeInv /\ [Next]_vars => MadeInv'
  BY NextMade
<1>3. TypeOK /\ OrderInv /\ BookNamesDeployed /\ MadeInv /\ RolesRespected /\ [Next]_vars
        => RolesRespected'
  BY NextRoles DEF TypeOK
<1> QED
  BY <1>1, <1>2, <1>3, InitMade, TypeCorrect, OrderInvariant, NamesAreDeployed, PTL DEF Spec

-----------------------------------------------------------------------------
(* The hand-over. The invariant: the contracts are those of the scripts up   *)
(* to the present one; while that one hands over, it has no variables, and   *)
(* what it transfers is still to come or on its way to the owner.            *)
TransfersOf(i, k) == {s \in Statements[env][i] : s.op = "transfer" /\ s.key = k}

Hopeless(i) == Statements[env][i] \cap Impossible[env]

CreatedInv == \A a \in DOMAIN chain : a[1] \in CreatedUpTo(env, numbers[script])

HandOverInv ==
    TransferredBy(env, script) # {} =>
        /\ DOMAIN memory = {}
        /\ running => /\ \A k \in TransferredBy(env, script) :
                            \/ Awaits(todo, TransfersOf(script, k))
                            \/ k \in Recorded => Leaving(Now(k))
                      /\ Hopeless(script) # {} => Awaits(todo, Hopeless(script))

LEMMA CreatedMore ==
    ASSUME NEW e \in Environments, NEW m \in Int, NEW n \in Int, m <= n
    PROVE  CreatedUpTo(e, m) \subseteq CreatedUpTo(e, n)
<1>1. \A j \in 1..LastOf(e) : Program[e][j].number \in Int
  BY ProgramFacts
<1> QED
  BY <1>1 DEF CreatedUpTo

LEMMA NextCreated == ASSUME TypeOK, OrderInv, CreatedInv, [Next]_vars PROVE CreatedInv'
<1>1. /\ env \in Environments /\ script \in 1..LastOf(env) /\ LastOf(env) \in Nat
      /\ numbers[script] \in Nat /\ numbers[script] = Program[env][script].number
      /\ env' = env /\ numbers' = numbers
  BY NumbersFacts, EnvStays DEF TypeOK
<1>2. CASE StatementDone
  <2>1. PICK ops : Execute(ops)
    BY <1>2 DEF StatementDone
  <2>2. InScript /\ chain' = ChainAfter(Current, world) /\ Accepted(Current, world)
    BY <2>1 DEF Execute
  <2>3. Current \in Statements[env][script] /\ IsStep(Current) /\ IsWorld(world)
        /\ world.chain = chain
    BY <2>2, CurrentTyped DEF world
  <2>4. script' = script
    BY <1>2 DEF StatementDone
  <2>5. ASSUME NEW a \in DOMAIN chain'
        PROVE  a[1] \in CreatedUpTo(env, numbers[script])
    <3>1. CASE a \in DOMAIN chain
      BY <3>1 DEF CreatedInv
    <3>2. CASE a \notin DOMAIN chain
      <4>1. Current.op \in Creating /\ a = NewAddress(Current, world)
        BY <2>2, <2>3, <2>5, <3>2 DEF ChainAfter, Put
      <4>2. a[1] = Current.key
        BY <2>3, <4>1, NewAddressTyped
      <4>3. Current.key \in CreatedBy(env, script)
        BY <2>3, <4>1 DEF CreatedBy
      <4>4. numbers[script] <= numbers[script]
        BY <1>1
      <4> QED
        BY <1>1, <4>2, <4>3, <4>4 DEF CreatedUpTo
    <3> QED
      BY <3>1, <3>2
  <2> QED
    BY <1>1, <2>4, <2>5 DEF CreatedInv
<1>3. CASE ScriptStarts /\ OutsideScript
  <2>1. script' \in 1..LastOf(env) /\ numbers[script'] >= numbers[script]
        /\ DOMAIN chain' = DOMAIN chain
    BY <1>3 DEF ScriptStarts, OutsideScript
  <2>2. numbers[script'] \in Nat
    BY <2>1, NumbersFacts
  <2>3. CreatedUpTo(env, numbers[script]) \subseteq CreatedUpTo(env, numbers[script'])
    BY <1>1, <2>1, <2>2, CreatedMore
  <2> QED
    BY <1>1, <2>1, <2>3 DEF CreatedInv
<1>4. CASE ScriptStays /\ OutsideScript
  BY <1>1, <1>4 DEF ScriptStays, OutsideScript, CreatedInv
<1> QED
  BY <1>2, <1>3, <1>4, ScriptMoves

(* A statement of a script that only hands over.                             *)
LEMMA HandingOver ==
    ASSUME TypeOK, HandOverInv, TransferredBy(env, script) # {}, MadeBy(env, script) = {},
           NEW ops, Execute(ops)
    PROVE  /\ book' = book /\ memory' = memory /\ DOMAIN chain' = DOMAIN chain
           /\ \A a \in DOMAIN chain : Leaving(chain[a]) => Leaving(chain'[a])
           /\ Current.op = "transfer" /\ Current.key \in Recorded =>
                  Leaving(chain'[book[Current.key]])
<1>1. /\ InScript /\ Accepted(Current, world) /\ chain' = ChainAfter(Current, world)
      /\ book' = BookAfter(Current, world) /\ memory' = MemoryAfter(Current, world)
      /\ world.chain = chain /\ world.book = book /\ world.memory = memory
  BY DEF Execute, world
<1>2. /\ Current \in Statements[env][script] /\ IsStep(Current)
      /\ env \in Environments /\ script \in 1..LastOf(env)
  BY <1>1, CurrentTyped DEF TypeOK
<1>3. Current.op \notin Naming
  BY <1>2, NamingMakes
<1>4. book' = book /\ memory' = memory
  BY <1>1, <1>3, NamesAdded
<1>5. CASE Current.op \in OnContract
  <2> DEFINE t == Resolve(Current.key, world)
             c == Called(chain[t], Current, world)
  <2>1. t \in DOMAIN chain
    BY <1>1, <1>5 DEF Accepted
  <2>2. chain' = [chain EXCEPT ![t] = c]
    BY <1>1, <1>5 DEF ChainAfter, Creating, OnContract
  <2>3. IsContract(chain[t])
    BY <2>1 DEF TypeOK, IsChain
  <2>4. /\ Leaving(chain[t]) => Leaving(c)
        /\ Current.op = "transfer" => Leaving(c)
    <3> HIDE DEF t
    <3>1. CASE Current.op = "transfer"
      BY <2>3, <3>1 DEF Called, IsContract, Leaving
    <3>2. CASE Current.op \in {"set", "pause", "unpause", "grant"}
      BY <2>3, <3>2 DEF Called, IsContract, Leaving
    <3> QED
      BY <1>5, <3>1, <3>2 DEF OnContract
  <2>5. Current.key \in Recorded => t = book[Current.key]
    BY <1>1 DEF HandOverInv, Resolve, Recorded
  <2> HIDE DEF t, c
  <2> QED
    BY <1>4, <2>1, <2>2, <2>4, <2>5
<1>6. CASE Current.op \notin OnContract
  <2>1. chain' = chain
    BY <1>1, <1>3, <1>6 DEF ChainAfter, Naming
  <2> QED
    BY <1>4, <1>6, <2>1 DEF OnContract
<1> QED
  BY <1>5, <1>6

LEMMA StatementKeepsHandOver ==
    ASSUME TypeOK, MadeInv, HandOverInv, HandsOverAll(env), StatementDone
    PROVE  HandOverInv'
<1>1. PICK ops : Execute(ops)
  BY DEF StatementDone
<1>2. UNCHANGED <<env, numbers, script, running>>
  BY DEF StatementDone
<1>3. /\ InScript /\ Accepted(Current, world) /\ running
      /\ Current \in Statements[env][script]
  BY <1>1, CurrentTyped DEF Execute, InScript
<1>4. SUFFICES ASSUME TransferredBy(env, script) # {} PROVE HandOverInv'
  BY <1>2 DEF HandOverInv
<1>5. MadeBy(env, script) = {}
  BY <1>4 DEF HandsOverAll, TypeOK
<1>6. /\ book' = book /\ memory' = memory /\ DOMAIN chain' = DOMAIN chain
      /\ \A a \in DOMAIN chain : Leaving(chain[a]) => Leaving(chain'[a])
      /\ Current.op = "transfer" /\ Current.key \in Recorded =>
             Leaving(chain'[book[Current.key]])
  BY <1>1, <1>4, <1>5, HandingOver
<1>7. ASSUME NEW k \in TransferredBy(env, script)
      PROVE  Awaits(todo', TransfersOf(script, k)) \/ (k \in Recorded' => Leaving(Now(k)'))
  <2>1. Recorded' = Recorded
    BY <1>6 DEF Recorded
  <2>2. CASE Awaits(todo, TransfersOf(script, k)) /\ Current \notin TransfersOf(script, k)
    BY <1>1, <2>2, ExecuteAwaits
  <2>3. CASE Current \in TransfersOf(script, k)
    <3>1. Current.op = "transfer" /\ Current.key = k
      BY <2>3 DEF TransfersOf
    <3> QED
      BY <1>6, <2>1, <3>1 DEF Now
  <2>4. CASE k \in Recorded => Leaving(Now(k))
    BY <1>6, <2>1, <2>4 DEF Now, Recorded
  <2> QED
    BY <1>3, <1>4, <2>2, <2>3, <2>4 DEF HandOverInv
<1>8. Hopeless(script) # {} => Awaits(todo', Hopeless(script))
  <2>1. Current \notin Hopeless(script)
    BY <1>3, AcceptedIsPossible DEF Hopeless
  <2> QED
    BY <1>1, <1>3, <1>4, <2>1, ExecuteAwaits DEF HandOverInv
<1>9. DOMAIN memory' = {}
  BY <1>4, <1>6 DEF HandOverInv
<1>10. /\ TransferredBy(env, script)' = TransferredBy(env, script)
       /\ Hopeless(script)' = Hopeless(script)
       /\ \A k : TransfersOf(script, k)' = TransfersOf(script, k)
  BY <1>2 DEF TransferredBy, Hopeless, TransfersOf
<1> QED
  BY <1>7, <1>8, <1>9, <1>10 DEF HandOverInv

LEMMA StartKeepsHandOver ==
    ASSUME TypeOK, ScriptStarts
    PROVE  HandOverInv'
<1>1. /\ env \in Environments /\ script' \in 1..LastOf(env) /\ env' = env
      /\ todo' = Steps(env, script') /\ memory' = Empty
  BY DEF TypeOK, ScriptStarts
<1>2. DOMAIN memory' = {}
  BY <1>1 DEF Empty
<1>3. ASSUME NEW k \in TransferredBy(env, script')
      PROVE  Awaits(todo', TransfersOf(script', k))
  <2>1. PICK s \in Statements[env][script'] : s.op = "transfer" /\ s.key = k
    BY DEF TransferredBy
  <2>2. s \in TransfersOf(script', k)
    BY <2>1 DEF TransfersOf
  <2> QED
    BY <1>1, <2>2, AwaitsAll
<1>4. Hopeless(script') # {} => Awaits(todo', Hopeless(script'))
  BY <1>1, AwaitsAll DEF Hopeless
<1>5. /\ TransferredBy(env, script)' = TransferredBy(env, script')
      /\ Hopeless(script)' = Hopeless(script')
      /\ \A k : TransfersOf(script, k)' = TransfersOf(script', k)
  BY <1>1 DEF TransferredBy, Hopeless, TransfersOf
<1> QED
  BY <1>2, <1>3, <1>4, <1>5 DEF HandOverInv

LEMMA StayKeepsHandOver ==
    ASSUME HandOverInv, ScriptStays, OutsideScript
    PROVE  HandOverInv'
<1>1. UNCHANGED <<env, numbers, script, todo>> /\ (running' => running)
  BY DEF ScriptStays
<1>2. /\ book' = book /\ memory' \in {memory, Empty} /\ DOMAIN chain' = DOMAIN chain
      /\ \A a \in DOMAIN chain : Leaving(chain[a]) => Leaving(chain'[a])
  BY DEF OutsideScript
<1>3. /\ TransferredBy(env, script)' = TransferredBy(env, script)
      /\ Hopeless(script)' = Hopeless(script)
      /\ \A k : TransfersOf(script, k)' = TransfersOf(script, k)
  BY <1>1 DEF TransferredBy, Hopeless, TransfersOf
<1>4. DOMAIN memory = {} => DOMAIN memory' = {}
  BY <1>2 DEF Empty
<1>5. \A k : (k \in Recorded => Leaving(Now(k))) => (k \in Recorded' => Leaving(Now(k)'))
  BY <1>2 DEF Recorded, Now
<1> QED
  BY <1>1, <1>3, <1>4, <1>5 DEF HandOverInv

LEMMA NextHandOver ==
    ASSUME TypeOK, OrderInv, MadeInv, HandOverInv, HandsOverAll(env), [Next]_vars
    PROVE  HandOverInv'
BY ScriptMoves, StatementKeepsHandOver, StartKeepsHandOver, StayKeepsHandOver

LEMMA InitHandOver == Init => CreatedInv /\ HandOverInv
<1> SUFFICES ASSUME Init PROVE CreatedInv /\ HandOverInv
  OBVIOUS
<1>1. /\ env \in Environments /\ script \in 1..LastOf(env)
      /\ todo = Steps(env, script) /\ memory = Empty /\ chain = Empty
  BY InitTyped, NumbersFacts DEF Init
<1>2. DOMAIN Empty = {}
  BY DEF Empty
<1>3. ASSUME NEW k \in TransferredBy(env, script)
      PROVE  Awaits(todo, TransfersOf(script, k))
  <2>1. PICK s \in Statements[env][script] : s.op = "transfer" /\ s.key = k
    BY DEF TransferredBy
  <2>2. s \in TransfersOf(script, k)
    BY <2>1 DEF TransfersOf
  <2> QED
    BY <1>1, <2>2, AwaitsAll
<1>4. Hopeless(script) # {} => Awaits(todo, Hopeless(script))
  BY <1>1, AwaitsAll DEF Hopeless
<1> QED
  BY <1>1, <1>2, <1>3, <1>4 DEF CreatedInv, HandOverInv

LEMMA HandedOver ==
    ASSUME TypeOK, BookNamesDeployed, CreatedInv, HandOverInv, HandsOverAll(env)
    PROVE  NobodyLeftBehind
<1> SUFFICES ASSUME ScriptEnds,
                    NEW i \in 1..Len(Steps(env, script)), Steps(env, script)[i].op = "transfer",
                    NEW k \in Recorded, Len(k) = 3, k[1] \notin NotOwnable
             PROVE  Now(k).appointed \/ Now(k).owner = "owner"
  BY DEF NobodyLeftBehind
<1>1. /\ running /\ todo = << >> /\ script \in 1..LastOf(env) /\ env \in Environments
      /\ numbers[script] = Program[env][script].number
  BY NumbersFacts DEF ScriptEnds, TypeOK
<1>2. TransferredBy(env, script) # {}
  <2>1. Steps(env, script)[i] \in Statements[env][script]
    BY <1>1 DEF Statements
  <2> QED
    BY <2>1 DEF TransferredBy
<1>3. Hopeless(script) = {}
  BY <1>1, <1>2, AwaitsNothing DEF HandOverInv
<1>4. \A j \in CreatedUpTo(env, numbers[script]) :
          Len(j) = 3 /\ j[1] \notin NotOwnable => j \in TransferredBy(env, script)
  BY <1>1, <1>2, <1>3 DEF HandsOverAll, Hopeless
<1>5. book[k] \in DOMAIN chain /\ book[k][1] = k
  BY DEF Recorded, BookNamesDeployed, NamesExist
<1>6. k \in TransferredBy(env, script)
  BY <1>4, <1>5 DEF CreatedInv
<1>7. Leaving(Now(k))
  BY <1>1, <1>2, <1>6, AwaitsNothing DEF HandOverInv
<1> QED
  BY <1>7 DEF Leaving

(* If a script that hands over makes nothing and names every contract that   *)
(* the scripts so far deploy, none in the book stays with the deployer alone *)
(* when it ends, whatever died, ran twice or was confirmed before.           *)
THEOREM NobodyEverLeftBehind ==
    ASSUME \A e \in Environments : HandsOverAll(e)
    PROVE  Spec => []NobodyLeftBehind
<1>1. TypeOK /\ MadeInv /\ [Next]_vars => MadeInv'
  BY NextMade
<1>2. TypeOK /\ OrderInv /\ CreatedInv /\ [Next]_vars => CreatedInv'
  BY NextCreated
<1>3. TypeOK /\ OrderInv /\ MadeInv /\ HandOverInv /\ [Next]_vars => HandOverInv'
  BY NextHandOver DEF TypeOK
<1>4. TypeOK /\ BookNamesDeployed /\ CreatedInv /\ HandOverInv => NobodyLeftBehind
  BY HandedOver DEF TypeOK
<1> QED
  BY <1>1, <1>2, <1>3, <1>4, InitMade, InitHandOver, TypeCorrect, OrderInvariant,
     NamesAreDeployed, PTL DEF Spec

-----------------------------------------------------------------------------
(* Each step of the migrations is a step of an orderly run or a stutter.     *)
LEMMA SetCompletedRefines ==
    ASSUME TypeOK, OrderInv, SetCompleted
    PROVE  [Order!Next]_Order!orderVars
<1>1. script \in 1..LastOf(env) /\ completed \in Nat
  BY NumbersFacts DEF TypeOK
<1>2. Numbers' = Numbers /\ completed' = numbers[script] /\ numbers[script] \in Numbers
  BY <1>1, NumbersFacts DEF SetCompleted, Numbers
<1>3. CASE completed = numbers[script]
  BY <1>2, <1>3 DEF Order!Next, Order!Disturb, Order!orderVars
<1>4. CASE completed < numbers[script]
  BY <1>2, <1>4
  DEF OrderInv, Order!Next, Order!CompleteNext, Order!Later
<1> QED
  BY <1>1, <1>3, <1>4, NumbersFacts DEF OrderInv

LEMMA RestartRefines ==
    ASSUME TypeOK, OrderInv, Restart
    PROVE  [Order!Next]_Order!orderVars
<1>1. Numbers' = Numbers /\ failure' = failure
  BY DEF Restart, Numbers
<1>2. CASE completed' = completed
  BY <1>1, <1>2 DEF Order!orderVars
<1>3. CASE completed' # completed
  BY <1>1, <1>3, RestartCompletes DEF Order!Next, Order!CompleteNext, Order!Later
<1> QED
  BY <1>2, <1>3

LEMMA OtherRefine ==
    ASSUME UNCHANGED <<numbers, completed>>
    PROVE  [Order!Next]_Order!orderVars
<1>1. Numbers' = Numbers
  BY DEF Numbers
<1> QED
  BY <1>1 DEF Order!Next, Order!Disturb, Order!orderVars

LEMMA NextRefines ==
    ASSUME TypeOK, OrderInv, [Next]_vars
    PROVE  [Order!Next]_Order!orderVars
<1>1. CASE Proceed
  BY <1>1, ProceedOrder, SetCompletedRefines, OtherRefine
<1>2. CASE Restart
  BY <1>2, RestartRefines
<1>3. CASE Crash \/ CrashInFlight \/ ParameterIsMissing \/ RepairPause \/ OwnerConfirms
           \/ UNCHANGED vars
  <2>1. UNCHANGED <<numbers, completed>>
    BY <1>3 DEF Crash, CrashInFlight, ParameterIsMissing, RepairPause, OwnerConfirms, vars,
                onChain
  <2> QED
    BY <2>1, OtherRefine
<1> QED
  BY <1>1, <1>2, <1>3 DEF Next

(* The safety half of OrderlyRun, for every list of scripts: none is passed  *)
(* over, none is taken back, whatever crashes (Migrations.sol:16, truffle).  *)
THEOREM OrderlyScripts == Spec => Order!Init /\ [][Order!Next]_Order!orderVars
<1>1. Init => Order!Init
  BY InitTyped, NumbersFacts DEF Init, Order!Init
<1>2. TypeOK /\ OrderInv /\ [Next]_vars => [Order!Next]_Order!orderVars
  BY NextRefines
<1> QED
  BY <1>1, <1>2, TypeCorrect, OrderInvariant, PTL DEF Spec
=============================================================================
