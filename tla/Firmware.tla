------------------------------ MODULE Firmware ------------------------------
(***************************************************************************)
(* The programs kept under sim/sw, one of which is linked into the         *)
(* instruction memory: what each does, statement by statement, from the    *)
(* reset vector on.                                                        *)
(***************************************************************************)
EXTENDS UartEcho, YarvMon, Sha256, Quicksort, CLib, BenchPort, CoreList

Images == {"uart_echo", "yarvmon", "sha256", "quicksort", "library",
           "coremark", "dhrystone", "core_list"}

FirmwareInit ==
  /\ image \in Images /\ Boot
  /\ EchoInit /\ MonInit /\ ShaInit /\ QsortInit /\ LibInit /\ BenchInit /\ ListInit

FirmwareNext ==
  \/ EchoNext  /\ UNCHANGED <<monVars, shaVars, qsVars, libVars, benchVars, listVars>>
  \/ MonNext   /\ UNCHANGED <<echoVars, shaVars, qsVars, libVars, benchVars, listVars>>
  \/ ShaNext   /\ UNCHANGED <<echoVars, monVars, qsVars, libVars, benchVars, listVars>>
  \/ QsortNext /\ UNCHANGED <<echoVars, monVars, shaVars, libVars, benchVars, listVars>>
  \/ LibNext   /\ UNCHANGED <<echoVars, monVars, shaVars, qsVars, benchVars, listVars>>
  \/ BenchNext /\ UNCHANGED <<echoVars, monVars, shaVars, qsVars, libVars, listVars>>
  \/ ListNext  /\ UNCHANGED <<echoVars, monVars, shaVars, qsVars, libVars, benchVars>>

firmwareVars ==
  <<image, pc, echoVars, monVars, shaVars, qsVars, libVars, benchVars, listVars>>

FirmwareSpec == FirmwareInit /\ [][FirmwareNext]_firmwareVars /\ EchoFairness
=============================================================================
