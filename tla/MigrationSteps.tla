--------------------------- MODULE MigrationSteps ---------------------------
(* What one statement of a migration script does to the contracts on chain   *)
(* and to the address book (.ipor/<profile>-<network>-ipor-addresses.json).  *)
(* A script is a sequence of steps. Each step names what it uses by the key  *)
(* it has in the address book; a key is <<kind, asset, build>>, and the      *)
(* implementation behind a proxy has the key of the proxy with "impl" added. *)
(* An address is <<key, n>>: the n-th contract deployed for that key; for an *)
(* implementation n is the script that made it; n = 0 is for a contract or   *)
(* an account that existed before the scripts.                               *)
EXTENDS Integers, FiniteSets, Sequences

CONSTANTS Keys,      \* the keys of json_keys.js
          Accounts   \* what the process takes from its environment, not the book

Values == Keys \cup Accounts

Address == Values \X Nat

External(k) == <<k, 0>>

(* Statements: deployProxy and deployer.deploy (deploy); the implementation  *)
(* that deployProxy and prepareUpgrade make first (implement); func.update,  *)
(* of what was deployed (record) or of an address the script knows (note);   *)
(* calls to setters, pause, unpause and transferOwnership; tokens sent       *)
(* (grant); a check that a parameter is set (require); the number of the     *)
(* script written to the file (updateLast); an address written into a script *)
(* of Hardhat (bind).                                                        *)
OnContract == {"set", "pause", "unpause", "transfer", "grant"}
Creating == {"deploy", "implement"}
Ops == OnContract \cup Creating \cup {"record", "note", "require", "updateLast", "bind"}

(* wiring: the keys of what is passed, by the name of the formal parameter.  *)
IsStep(s) == /\ s \in [op: Ops, key: Keys, wiring: {s.wiring}, paused: BOOLEAN]
             /\ \A f \in DOMAIN s.wiring : s.wiring[f] \in Values

Owners == {"deployer", "owner"}

(* What the scripts set up of a contract: slots are the addresses it was     *)
(* given, by formal parameter; grants is how often tokens were sent to it.   *)
IsContract(c) ==
    /\ c \in [slots: {c.slots}, owner: Owners, appointed: BOOLEAN, paused: BOOLEAN,
              grants: Nat]
    /\ \A f \in DOMAIN c.slots : c.slots[f] \in Address

Put(f, k, v) == [j \in DOMAIN f \cup {k} |-> IF j = k THEN v ELSE f[j]]

(* A world is [chain, book, memory, script]: the deployed contracts by       *)
(* address, the address book, and the variables and the place in the list of *)
(* the running script.                                                       *)
Resolve(k, w) == IF k \in DOMAIN w.memory THEN w.memory[k]
                 ELSE IF k \in DOMAIN w.book THEN w.book[k]
                 ELSE External(k)

Known(k, w) == k \in DOMAIN w.memory \cup DOMAIN w.book \cup Accounts

Target(s, w) == w.chain[Resolve(s.key, w)]

(* deployProxy and the setters reject undefined; the calls revert unless the *)
(* deployer still owns the contract and, setters and pause, unless it runs.  *)
Accepted(s, w) ==
    /\ \A f \in DOMAIN s.wiring : Known(s.wiring[f], w)
    /\ s.op = "record" => s.key \in DOMAIN w.memory
    /\ s.op = "updateLast" => Known(s.key, w)
    /\ s.op \in OnContract => Known(s.key, w) /\ Resolve(s.key, w) \in DOMAIN w.chain
    /\ s.op \in OnContract \ {"grant"} => Target(s, w).owner = "deployer"
    /\ s.op \in {"set", "pause"} => ~Target(s, w).paused
    /\ s.op = "unpause" => Target(s, w).paused

Deployments(k, w) == {a \in DOMAIN w.chain : a[1] = k}

(* The upgrades plugin keeps what it deployed: a script that runs again gets *)
(* the implementation it made before. Every proxy is new.                    *)
NewAddress(s, w) == IF s.op = "implement" THEN <<s.key, w.script>>
                    ELSE <<s.key, Cardinality(Deployments(s.key, w)) + 1>>

NewContract(s, w) ==
    [slots |-> [f \in DOMAIN s.wiring |-> Resolve(s.wiring[f], w)],
     owner |-> "deployer", appointed |-> FALSE, paused |-> s.paused, grants |-> 0]

Rewired(c, s, w) ==
    [f \in DOMAIN c.slots \cup DOMAIN s.wiring |->
        IF f \in DOMAIN s.wiring THEN Resolve(s.wiring[f], w) ELSE c.slots[f]]

Called(c, s, w) ==
    CASE s.op = "set"      -> [c EXCEPT !.slots = Rewired(c, s, w)]
      [] s.op = "pause"    -> [c EXCEPT !.paused = TRUE]
      [] s.op = "unpause"  -> [c EXCEPT !.paused = FALSE]
      [] s.op = "transfer" -> [c EXCEPT !.appointed = TRUE]
      [] s.op = "grant"    -> [c EXCEPT !.grants = @ + 1]

(* Mutant: the implementation is not awaited.                                *)
ChainAfter_NotAwaited(s, w) ==
    IF s.op = "deploy"
    THEN Put(w.chain, NewAddress(s, w), NewContract(s, w))
    ELSE IF s.op \in OnContract
    THEN [w.chain EXCEPT ![Resolve(s.key, w)] = Called(@, s, w)]
    ELSE w.chain

ChainAfter(s, w) ==
    IF s.op \in Creating
    THEN Put(w.chain, NewAddress(s, w), NewContract(s, w))
    ELSE IF s.op \in OnContract
    THEN [w.chain EXCEPT ![Resolve(s.key, w)] = Called(@, s, w)]
    ELSE w.chain

(* Mutant: a key that the file has keeps its value.                          *)
Updated_KeepsOld(book, k, a) == IF k \in DOMAIN book THEN book ELSE Put(book, k, a)

(* json_func.update: read the file, set the key, save the file.              *)
Updated(book, k, a) == Put(book, k, a)

BookAfter(s, w) ==
    CASE s.op = "record" -> Updated(w.book, s.key, w.memory[s.key])
      [] s.op = "note"   -> Updated(w.book, s.key, External(s.key))
      [] OTHER           -> w.book

MemoryAfter(s, w) ==
    CASE s.op \in Creating -> Updated(w.memory, s.key, NewAddress(s, w))
      [] s.op = "bind"     -> Updated(w.memory, s.key, External(s.key))
      [] OTHER             -> w.memory

After(w, s) == [w EXCEPT !.chain = ChainAfter(s, w), !.book = BookAfter(s, w),
                         !.memory = MemoryAfter(s, w)]

Empty == [x \in {} |-> 0]

NoWorld == [chain |-> Empty, book |-> Empty, memory |-> Empty, script |-> 0]
=============================================================================
