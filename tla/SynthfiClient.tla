------------------------------ MODULE SynthfiClient ------------------------------
(***************************************************************************)
(* synthfi-client: the commands of the command line program.               *)
(*                                                                         *)
(* Two processes run a command each, over one key store directory.  The    *)
(* strategies run in the process Trader.  init_synthfi and init_product    *)
(* have no body, synthfi_rpc_server only parses its address.               *)
(***************************************************************************)
EXTENDS TakeStrategy

VARIABLES
    command,        \* the command of each process
    tag,            \* its --file option
    step,           \* where main stands: "main", "key store", "strategy" or "exited"
    made,           \* the number of calls made of the key store
    exitCode

clientVars == <<command, tag, step, made, exitCode>>
allVars == <<vars, testVars, clientVars>>

Commands == {"take_strategy", "backtest_strategy", "get_public_key", "init_key", "init_program",
             "init_usdt", "init_synthfi", "init_product", "synthfi_rpc_server"}
Strategies == {"take_strategy", "backtest_strategy"}

\* The calls of the key store each command waits for, the tag its key pair is created under.
Calls == [init_key |-> <<"createDirectory", "verifyDirectory", "create">>,
          init_usdt |-> <<"verifyDirectory", "create">>,
          init_program |-> <<"verifyDirectory", "create">>,
          get_public_key |-> <<"verifyDirectory", "load", "get">>,
          init_synthfi |-> <<>>, init_product |-> <<>>, synthfi_rpc_server |-> <<>>]
CreatedTag == [init_key |-> "publish", init_usdt |-> "usdt_testnet", init_program |-> "synthfi_program"]

\* A strategy runs alone here, the other commands in pairs.
ClientInit ==
    /\ SlotInit /\ KeyInit /\ OrderInit /\ StrategyInit /\ TestInit
    /\ command \in [Processes -> Commands \cup {"noSuchCommand"}]
    /\ \A p \in Processes : command[p] \in Strategies => p = Trader
    /\ command[Trader] \in Strategies => \A p \in Processes \ {Trader} : command[p] = "init_synthfi"
    /\ tag \in [Processes -> Tags]
    /\ \A p \in Processes :
          tag[p] = IF command[p] \in DOMAIN CreatedTag THEN CreatedTag[command[p]] ELSE OwnerTag
    /\ \A t \in Tags : files[t] # "none" => \E p \in Processes : tag[p] = t
    /\ step = [p \in Processes |-> IF command[Trader] \in Strategies /\ p # Trader THEN "exited" ELSE "main"]
    /\ made = [p \in Processes |-> 0] /\ exitCode = [p \in Processes |-> -1]

Exits(p, code) ==
    /\ step' = [step EXCEPT ![p] = "exited"] /\ exitCode' = [exitCode EXCEPT ![p] = code]
    /\ UNCHANGED made
GoesTo(p, to) == step' = [step EXCEPT ![p] = to] /\ UNCHANGED <<made, exitCode>>
LoadThrew(p) == command[p] = "get_public_key" /\ made[p] = 2 /\ keyCall[p].at = "thrown"
CommandKept == UNCHANGED <<command, tag, testVars>>
StrategyKept == UNCHANGED <<slotVars, orderVars, strategyVars>>

\* main: options that cannot be parsed and a severity there is not end it with 1, help and
\* version with 0, and so does a command there is not.
Main(p) ==
    /\ step[p] = "main"
    /\ \/ \E code \in {0, 1} : Exits(p, code)
       \/ command[p] \in DOMAIN Calls /\ GoesTo(p, "keyStore")
       \/ command[p] \in Strategies /\ GoesTo(p, "strategy")
    /\ CommandKept /\ StrategyKept /\ UNCHANGED keyVars

\* on_command waits for each call and goes on whatever comes of it, ...
CallKeyStore(p) ==
    /\ step[p] = "keyStore" /\ made[p] < Len(Calls[command[p]]) /\ ~LoadThrew(p)
    /\ LET call == Calls[command[p]][made[p] + 1]
       IN  \/ call = "createDirectory" /\ CreateKeyStoreDirectory(p)
           \/ call = "verifyDirectory" /\ VerifyKeyStoreDirectory(p)
           \/ call = "create" /\ CreateKeyPair(p, tag[p])
           \/ call = "load" /\ LoadKeyPair(p, tag[p])
           \/ call = "get" /\ GetKey(p, tag[p])
    /\ made' = [made EXCEPT ![p] = @ + 1]
    /\ CommandKept /\ StrategyKept /\ UNCHANGED <<step, exitCode>>

\* ... only get_public_key returns 1 for a key pair that cannot be loaded.  What a command
\* returns is dropped by execute_command: the program exits with 0.
CommandReturns(p) ==
    /\ step[p] = "keyStore" /\ NextCall(p)
    /\ made[p] = Len(Calls[command[p]]) \/ LoadThrew(p)
    /\ Exits(p, 0)
    /\ CommandKept /\ StrategyKept /\ UNCHANGED keyVars

\* A configuration that cannot be parsed makes the command return 1, to the same end.
ConfigFails ==
    /\ step[Trader] = "strategy" /\ phase = "none" /\ testPhase = "none"
    /\ Exits(Trader, 0)
    /\ CommandKept /\ StrategyKept /\ UNCHANGED keyVars

\* The process is killed, in the middle of a call as well.
Kill(p) ==
    /\ step[p] = "keyStore"
    /\ Killed(p) /\ Exits(p, 137)
    /\ CommandKept /\ StrategyKept

ClientNext ==
    \/ \E p \in Processes : Main(p) \/ CallKeyStore(p) \/ CommandReturns(p) \/ Kill(p)
    \/ \E p \in Processes : step[p] = "keyStore" /\ KeyStoreStep(p) /\ StrategyKept /\ UNCHANGED <<clientVars, testVars>>
    \/ ConfigFails
    \/ /\ step[Trader] = "strategy"
       /\ \/ command[Trader] = "take_strategy" /\ StrategyStep /\ UNCHANGED <<clientVars, testVars>>
          \/ command[Trader] = "backtest_strategy" /\ TestStep /\ UNCHANGED clientVars

\* The steps of the program; those of the network, of the users and of failures are not
\* among them.
ClientSpec == ClientInit /\ [][ClientNext]_allVars
=============================================================================
