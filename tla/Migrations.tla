----------------------------- MODULE Migrations -----------------------------
(* truffle migrate, as run.sh starts it: the scripts of an environment run   *)
(* in the order of their numbers, from the one after last_completed_migration*)
(* of the Migrations contract. After a script, the number is written to the  *)
(* file .ipor/...-last-completed-migration.json by the script's last         *)
(* statement and to the contract by truffle. The process can die anywhere,   *)
(* and is started again by hand. The owner that the scripts appoint confirms *)
(* whenever it likes. A deployment by Hardhat (src/scripts) is an            *)
(* environment with one script, which keeps nothing in the files and is run  *)
(* once; completed then says that the script got to its end.                 *)
EXTENDS MigrationSteps

CONSTANTS Environments,  \* names of the sets of scripts
          Truffle,       \* those that run.sh migrates, as often as need be
          Program,       \* the scripts of each: a sequence of [number, steps]
          MigrationKey,  \* the key of the Migrations contract
          MaxFaults,     \* bound on how often the process dies, for each environment
          MayDie(_, _)   \* bound on where: in a script of an environment

IsScript(s) == /\ s.number \in Nat \ {0}
               /\ s.steps \in Seq({s.steps[i] : i \in DOMAIN s.steps})
               /\ \A i \in 1..Len(s.steps) : IsStep(s.steps[i])

(* truffle sorts the files by their numbers, of which several may be equal;  *)
(* only the first script deploys the Migrations contract.                    *)
IsProgram(p) ==
    /\ p \in Seq({p[i] : i \in DOMAIN p})
    /\ Len(p) > 0
    /\ \A i \in 1..Len(p) : IsScript(p[i])
    /\ \A i, j \in 1..Len(p) : i <= j => p[i].number <= p[j].number
    /\ \A i \in 2..Len(p) :
          /\ p[i].number > p[1].number
          /\ \A j \in 1..Len(p[i].steps) : p[i].steps[j].key = MigrationKey
                 => p[i].steps[j].op \notin Creating

ASSUME ProgramAssumption ==
    /\ \A e \in Environments : IsProgram(Program[e])
    /\ Truffle \subseteq Environments
    /\ MigrationKey \in Keys
    /\ MaxFaults \in [Environments -> Nat]
    /\ Keys \cap Accounts = {}

VARIABLES env,        \* the environment that is migrated
          numbers,    \* the numbers of its scripts, in the order they run
          chain, book, memory,
          completed,  \* Migrations.last_completed_migration
          inflight,   \* the argument of a setCompleted sent and not mined, or 0
          lastFile,   \* lastCompletedMigration in the file
          script,     \* the script that runs or ran last, by its place in the list
          todo,       \* its statements still to come
          running,    \* is there a process?
          failure,    \* the statement truffle stopped at, until a script succeeds
          faults,     \* how often the process died
          passedOver  \* history: the scripts unfinished when a later one was started

world == [chain |-> chain, book |-> book, memory |-> memory, script |-> script]

onChain == <<chain, completed, inflight>>
files == <<book, lastFile>>
process == <<memory, script, todo, running>>
vars == <<env, numbers, onChain, files, process, failure, faults, passedOver>>

LastOf(e) == Len(Program[e])
Steps(e, i) == Program[e][i].steps
NumbersOf == [e \in Environments |-> [i \in 1..LastOf(e) |-> Program[e][i].number]]

Current == Head(todo)
InScript == running /\ todo # << >>
Failing == InScript /\ ~Accepted(Current, world)

Begin(i) == script' = i /\ todo' = Steps(env, i) /\ memory' = Empty /\ running' = TRUE

Die == running' = FALSE /\ memory' = Empty /\ UNCHANGED <<script, todo>>

Init ==
    /\ env \in Environments
    /\ numbers = NumbersOf[env]
    /\ chain = Empty /\ completed = 0 /\ inflight = 0
    /\ book = Empty /\ lastFile = 0
    /\ memory = Empty /\ script = 1 /\ todo = Steps(env, 1) /\ running = TRUE
    /\ failure = "none" /\ faults = 0 /\ passedOver = {}

-----------------------------------------------------------------------------
(* One awaited statement of the script.                                      *)
Execute(ops) ==
    /\ InScript /\ Current.op \in ops /\ Accepted(Current, world)
    /\ chain' = ChainAfter(Current, world)
    /\ book' = BookAfter(Current, world)
    /\ memory' = MemoryAfter(Current, world)
    /\ todo' = Tail(todo)
    /\ UNCHANGED <<env, numbers, inflight, script, running, failure, faults, passedOver>>

(* A fresh Migrations contract has no completed migration.                   *)
DeployContract ==
    /\ Execute(Creating)
    /\ completed' = IF Current.key = MigrationKey THEN 0 ELSE completed
    /\ UNCHANGED lastFile

UpdateBook == Execute({"record", "note"}) /\ UNCHANGED <<completed, lastFile>>

(* Mutant: truffle sends the transaction twice.                              *)
CallContract_Twice ==
    /\ InScript /\ Current.op \in {"set", "transfer", "grant"} /\ Accepted(Current, world)
    /\ chain' = ChainAfter(Current, [world EXCEPT !.chain = ChainAfter(Current, world)])
    /\ todo' = Tail(todo)
    /\ UNCHANGED <<env, numbers, completed, inflight, files, memory, script, running,
                   failure, faults, passedOver>>

CallContract == Execute({"set", "transfer", "grant"}) /\ UNCHANGED <<completed, lastFile>>

SwitchPause == Execute({"pause", "unpause"}) /\ UNCHANGED <<completed, lastFile>>

ParameterIsSet == Execute({"require", "bind"}) /\ UNCHANGED <<completed, lastFile>>

(* Mutants: one less than the contract has; one more than the file has.      *)
UpdateLastCompletedMigration_Less ==
    /\ Execute({"updateLast"})
    /\ lastFile' = completed - 1
    /\ UNCHANGED completed
UpdateLastCompletedMigration_FromFile ==
    /\ Execute({"updateLast"})
    /\ lastFile' = lastFile + 1
    /\ UNCHANGED completed

(* The script's own setCompleted is still to come, so it writes what the     *)
(* contract has, and one more.                                               *)
UpdateLastCompletedMigration ==
    /\ Execute({"updateLast"})
    /\ lastFile' = completed + 1
    /\ UNCHANGED completed

(* The statement throws: truffle stops.                                      *)
Fail ==
    /\ Failing
    /\ Die /\ failure' = Current.op
    /\ UNCHANGED <<env, numbers, onChain, files, faults, passedOver>>

ScriptEnds == running /\ todo = << >>

(* truffle calls Migrations.setCompleted with the number of the script and   *)
(* goes on with the next one. When none has been written yet, it ends.       *)
SetCompleted ==
    /\ ScriptEnds
    /\ completed' = numbers[script]
    /\ failure' = "none"
    /\ Die \/ (script < Len(numbers) /\ Begin(script + 1))
    /\ UNCHANGED <<env, numbers, chain, inflight, files, faults, passedOver>>

-----------------------------------------------------------------------------
Fault == /\ running /\ faults < MaxFaults[env] /\ MayDie(env, numbers[script])
         /\ faults' = faults + 1 /\ Die /\ UNCHANGED passedOver

(* The process dies between two statements; what it sent so far is mined.    *)
Crash == Fault /\ UNCHANGED <<env, numbers, onChain, files, failure>>

(* It dies with setCompleted sent and not yet mined. The first script is     *)
(* left out: it replaces the contract that the transaction goes to.          *)
CrashInFlight ==
    /\ ScriptEnds /\ script > 1 /\ Fault
    /\ inflight' = numbers[script]
    /\ UNCHANGED <<env, numbers, chain, completed, files, failure>>

(* The environment lacks a parameter that the script asks for.               *)
ParameterIsMissing ==
    /\ InScript /\ Current.op = "require" /\ Fault
    /\ failure' = "require"
    /\ UNCHANGED <<env, numbers, onChain, files>>

Pending(n) == {i \in DOMAIN numbers : numbers[i] > n}

(* Mutants: any of them; after the number of the file, which is one ahead.   *)
FirstPending_Any(n) == Pending(n)
FirstPending_FromFile(n) ==
    {i \in Pending(n + 1) : \A j \in 1..(i - 1) : numbers[j] <= n + 1}

FirstPending(n) == {i \in Pending(n) : \A j \in 1..(i - 1) : numbers[j] <= n}

(* The scripts before i that have not got to their end.                      *)
Unfinished(i) == {j \in script..(i - 1) : j > script \/ todo # << >>}

(* run.sh migrate, again: truffle reads last_completed_migration and starts  *)
(* the first later script from its beginning. A transaction still in flight  *)
(* is mined after that, before anything the new process sends.               *)
Restart ==
    /\ ~running /\ env \in Truffle
    /\ \E i \in FirstPending(completed) : Begin(i)
    /\ completed' = IF inflight = 0 THEN completed ELSE inflight
    /\ inflight' = 0
    /\ passedOver' = passedOver \cup Unfinished(script')
    /\ UNCHANGED <<env, numbers, chain, files, failure, faults>>

(* The person at the keyboard pauses by hand the Milton that a script that   *)
(* died left running, so that its unpause passes.                            *)
RepairPause ==
    /\ ~running /\ failure = "unpause" /\ todo # << >> /\ Current.op = "unpause"
    /\ Resolve(Current.key, world) \in DOMAIN chain
    /\ Target(Current, world).owner = "deployer" /\ ~Target(Current, world).paused
    /\ chain' = [chain EXCEPT ![Resolve(Current.key, world)].paused = TRUE]
    /\ UNCHANGED <<env, numbers, completed, inflight, files, process, failure, faults,
                   passedOver>>

Appointing == {a \in DOMAIN chain : chain[a].appointed}

(* confirmTransferOwnership of all the contracts that wait for it, between   *)
(* two scripts or while none runs: no script calls a contract that it has    *)
(* handed over, so a confirmation inside it might as well come at its end.   *)
OwnerConfirms ==
    /\ ~InScript /\ Appointing # {}
    /\ chain' = [a \in DOMAIN chain |->
                    IF a \in Appointing
                    THEN [chain[a] EXCEPT !.owner = "owner", !.appointed = FALSE]
                    ELSE chain[a]]
    /\ UNCHANGED <<env, numbers, completed, inflight, files, process, failure, faults,
                   passedOver>>

-----------------------------------------------------------------------------
Proceed == DeployContract \/ UpdateBook \/ CallContract \/ SwitchPause
           \/ ParameterIsSet \/ UpdateLastCompletedMigration \/ Fail \/ SetCompleted

Next == Proceed \/ Crash \/ CrashInFlight \/ ParameterIsMissing \/ Restart
        \/ RepairPause \/ OwnerConfirms

(* A process goes on, and somebody starts it again. RepairPause is enabled   *)
(* only between two attempts that fail, hence SF: who starts the migration   *)
(* again and again looks at why it fails. Nobody need confirm.               *)
Fairness == WF_vars(Proceed) /\ WF_vars(Restart) /\ SF_vars(RepairPause)

Spec == Init /\ [][Next]_vars /\ Fairness

-----------------------------------------------------------------------------
Statements == [e \in Environments |->
                  [i \in 1..LastOf(e) |-> {Steps(e, i)[j] : j \in 1..Len(Steps(e, i))}]]

Numbers == {numbers[i] : i \in DOMAIN numbers}

IsBook(b) == DOMAIN b \subseteq Keys /\ b \in [DOMAIN b -> Address]

IsChain(c) == /\ DOMAIN c \subseteq Address /\ IsFiniteSet(DOMAIN c)
              /\ c = [a \in DOMAIN c |-> c[a]]
              /\ \A a \in DOMAIN c : IsContract(c[a])

(* The type invariant: the files hold addresses and numbers whatever died,   *)
(* and no contract but the deployed ones is called.                          *)
TypeOK ==
    /\ env \in Environments
    /\ numbers = NumbersOf[env]
    /\ IsChain(chain)
    /\ completed \in Numbers \cup {0} /\ inflight \in Numbers \cup {0}
    /\ IsBook(book) /\ lastFile \in Nat
    /\ IsBook(memory)
    /\ script \in 1..LastOf(env) /\ todo \in Seq(Statements[env][script])
    /\ running \in BOOLEAN
    /\ failure \in Ops \cup {"none"} /\ faults \in 0..MaxFaults[env]
    /\ passedOver \subseteq 1..LastOf(env)

Exists(a, c) == a[2] = 0 \/ a \in DOMAIN c

NamesExist(b, c) == \A k \in DOMAIN b : b[k][1] = k /\ Exists(b[k], c)

SlotsExist(c) == \A a \in DOMAIN c : \A f \in DOMAIN c[a].slots : Exists(c[a].slots[f], c)

(* Whenever the process dies, the address book (json_func.js:11) names under *)
(* each key a contract that was deployed for that key, or one that existed   *)
(* before, and so does every reference between the contracts.                *)
BookNamesDeployed ==
    NamesExist(book, chain) /\ NamesExist(memory, chain) /\ SlotsExist(chain)

-----------------------------------------------------------------------------
Twin(i) == \E j \in 1..(i - 1) : numbers[j] = numbers[i]

(* Truffle passes over a script that has not got to its end only when an     *)
(* earlier one has the same number (0056 of mainnet), or when a process died *)
(* with setCompleted in flight: its number is mined while the script runs    *)
(* again, and the next start finds it completed.                             *)
PassedOverForAReason == \A i \in passedOver : faults > 0 \/ Twin(i)

-----------------------------------------------------------------------------
(* Through every crash, restart and repair the migrations are an orderly run.*)
(* What blocks them for good is a failure that nobody can repair.            *)
Order == INSTANCE MigrationOrder WITH
             numbers <- Numbers, done <- completed,
             blocked <- failure \notin {"none", "unpause", "require"}
OrderlyRun == Order!Spec
=============================================================================
