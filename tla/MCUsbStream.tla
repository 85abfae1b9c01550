---------------------------- MODULE MCUsbStream ----------------------------
(* TLC instances of UsbStream and MtpStream: one USB port, two protocols.  *)
(* StartInstallServer (source/mtp_server.cpp) closes the awoo endpoints    *)
(* before it starts MTP and reopens them when it stops.  The sizes are in  *)
(* the .cfg file.                                                          *)
EXTENDS UsbStream, MtpStream

VARIABLE protocol    \* who has the port: "awoo" (UsbStream) or "mtp"

cableVars == <<vars, mtpVars, protocol>>

OverAwoo(steps) == protocol = "awoo" /\ steps /\ UNCHANGED <<mtpVars, protocol>>
OverMtp(steps) == protocol = "mtp" /\ Running(steps) /\ UNCHANGED <<vars, protocol>>

CableInit == Init /\ MtpInit /\ protocol \in {"awoo", "mtp"}

CableNext == OverAwoo(Next) \/ OverMtp(MtpNext)

CableSpec ==
  /\ CableInit /\ [][CableNext]_cableVars
  /\ WF_cableVars(OverAwoo(UsbThread)) /\ WF_cableVars(OverAwoo(Writer))
  /\ WF_cableVars(OverAwoo(Main))
  /\ WF_cableVars(OverMtp(ResponderSteps)) /\ WF_cableVars(OverMtp(WorkerSteps))
  /\ WF_cableVars(OverMtp(StopSteps))
=============================================================================
