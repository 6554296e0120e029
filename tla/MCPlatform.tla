----------------------------- MODULE MCPlatform -----------------------------
(***************************************************************************)
(* The parts around the CPU that share no state: the stream converter, the *)
(* memories on the pipelined bus, and of the simulation the SPI bridge and *)
(* the console.  A behaviour is one of the four.                           *)
(***************************************************************************)
EXTENDS StreamSlowdown, MemoryBus, SpiTcp, SimConsole, TLC

VARIABLE job

\* Initial contents: a file that ends in the middle of a word, and an empty one.
Images == {<< >>, 0 :> 1 @@ 1 :> 0 @@ 2 :> 1}

MCPatterns == {<< 1, 0, 1, 1, 0, 0, 1, 0 >>, << 0, 1, 1, 0, 1, 0, 0, 0 >>}
AllOnes == [n \in 1..8 |-> 1]

\* More bytes than the queue holds: ones, zeros and alternating bits.
Letters == << {0, 2, 4, 6}, {}, 0..7, {1, 3, 5, 7} >>
Printed == [n \in 1..20 |-> Letters[(n % 4) + 1]]

----------------------------------------------------------------------------
MCInit ==
  /\ job \in {"slowdown", "memory", "bridge", "console"}
  /\ Init /\ (job # "slowdown" => ~ready /\ \E w \in {CHOOSE w \in Words : TRUE} :
                                     payload = w /\ \A n \in DOMAIN chain : chain[n] = w)
  /\ MemoryInit /\ (job # "memory" => kind = "asic")
  /\ BridgeInit /\ (job # "bridge" => shifter = CHOOSE p \in Patterns : TRUE)
  /\ ConsoleInit /\ (job # "console" => direction = "print")

Converts  == job = "slowdown" /\ Next /\ UNCHANGED << job, memoryVars, bridgeVars, consoleVars >>
Remembers == job = "memory" /\ MemoryNext /\ UNCHANGED << job, vars, bridgeVars, consoleVars >>
Exchanges == job = "bridge" /\ BridgeNext /\ UNCHANGED << job, vars, memoryVars, consoleVars >>
Talks     == job = "console" /\ ConsoleNext /\ UNCHANGED << job, vars, memoryVars, bridgeVars >>

MCNext == Converts \/ Remembers \/ Exchanges \/ Talks

\* Both threads of the bridge go on.
ServerSteps == job = "bridge" /\ Server
ThreadSteps == job = "bridge" /\ Thread

MCSpec ==
  /\ MCInit /\ [][MCNext]_<< job, vars, memoryVars, bridgeVars, consoleVars >>
  /\ WF_bridgeVars(ServerSteps) /\ WF_bridgeVars(ThreadSteps)
=============================================================================
