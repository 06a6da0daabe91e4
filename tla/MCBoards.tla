------------------------------ MODULE MCBoards -------------------------------
(***************************************************************************)
(* The components that share nothing with the modelled rest of the system, *)
(* checked together: in each behaviour one of them runs from its initial   *)
(* states and the others stay in theirs.                                   *)
(***************************************************************************)
EXTENDS MciDrive, BmsRelays, Lights, BootConfig, CanDatagram, Charger, SolarRelay

VARIABLE board    \* the component that runs

boardsVars == <<board, toMci, toConsole, mciVars, bmsVars, lightsVars, configVars, datagramVars,
                chargerVars, solarVars>>

\* A command for another board leaves bytes and watchdogs for the two that follow.
MCCommands == <<"theirs", "ours", "ours">>

BoardsInit ==
  /\ board \in {"mci", "bms", "lights", "config", "datagram", "charger", "solar"}
  /\ BusInit /\ MciInit /\ BmsInit /\ LightsInit /\ ConfigInit /\ DatagramInit /\ ChargerInit /\ SolarInit
  /\ board # "lights" => ~receives
  /\ board # "config" => flash[1][1] = Erased
  /\ board # "charger" => charger.prev = "unplugged"

MciRuns ==
  /\ board = "mci" /\ (MciNext \/ MciEnvironment)
  /\ UNCHANGED <<board, bmsVars, lightsVars, configVars, datagramVars, chargerVars, solarVars>>

BmsRuns ==
  /\ board = "bms" /\ BmsNext
  /\ UNCHANGED <<board, toMci, toConsole, mciVars, lightsVars, configVars, datagramVars, chargerVars,
                 solarVars>>

LightsRun ==
  /\ board = "lights" /\ LightsGo
  /\ UNCHANGED <<board, toMci, toConsole, mciVars, bmsVars, configVars, datagramVars, chargerVars,
                 solarVars>>

ConfigRuns ==
  /\ board = "config" /\ ConfigNext
  /\ UNCHANGED <<board, toMci, toConsole, mciVars, bmsVars, lightsVars, datagramVars, chargerVars,
                 solarVars>>

DatagramRuns ==
  /\ board = "datagram" /\ DatagramNext
  /\ UNCHANGED <<board, toMci, toConsole, mciVars, bmsVars, lightsVars, configVars, chargerVars,
                 solarVars>>

ChargerRuns ==
  /\ board = "charger" /\ ChargerNext
  /\ UNCHANGED <<board, toMci, toConsole, mciVars, bmsVars, lightsVars, configVars, datagramVars,
                 solarVars>>

SolarRuns ==
  /\ board = "solar" /\ SolarNext
  /\ UNCHANGED <<board, toMci, toConsole, mciVars, bmsVars, lightsVars, configVars, datagramVars,
                 chargerVars>>

BoardsNext ==
  MciRuns \/ BmsRuns \/ LightsRun \/ ConfigRuns \/ DatagramRuns \/ ChargerRuns \/ SolarRuns

\* The states that the properties of the relays speak of.
NotDisturbed == ~disturbed

BoardsSpec == BoardsInit /\ [][BoardsNext]_boardsVars
=============================================================================
