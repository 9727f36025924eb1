------------------------------ MODULE MCDevices ------------------------------
(***************************************************************************)
(* What runs beside the synthesizer, for TLC: the update of a voicecard's  *)
(* firmware, the bootloader of the controller, and the Nunchuk peripheral. *)
(* Each behaviour runs one of them at a time; the others rest.             *)
(***************************************************************************)
EXTENDS Firmware, ControllerLoader, Nunchuk

VARIABLE device     \* which of the three runs

MCImage == << <<18, 0>>, <<0, 240>>, <<255, 255>> >>

devicevars == <<device, vars, loadervars, box>>

DevicesInit == device = "voicecard" /\ Init /\ LoaderInit /\ BoxInit

\* Once the voicecard has booted the bootloader of the controller may run instead, and once it
\* has been updated the Nunchuk.
Turns ==
    /\ device = "voicecard" /\ vc = "app" /\ pc = "page" /\ card /\ found /\ floating = 0
    /\ losses = 0
    /\ \/ Untouched /\ ~opened /\ device' = "controller"
       \/ Whole /\ device' = "nunchuk"
    /\ UNCHANGED <<vars, loadervars, box>>

VoicecardUpdates == device = "voicecard" /\ Next /\ UNCHANGED <<device, loadervars, box>>
ControllerLoads  == device = "controller" /\ LoaderNext /\ UNCHANGED <<device, vars, box>>
NunchukPlays     == device = "nunchuk" /\ BoxNext /\ UNCHANGED <<device, vars, loadervars>>

DevicesNext == VoicecardUpdates \/ ControllerLoads \/ NunchukPlays \/ Turns

\* The fairness of Firmware's Spec, where it runs.
DevicesSpec ==
    /\ DevicesInit /\ [][DevicesNext]_devicevars
    /\ WF_vars(device = "voicecard" /\ VoicecardRuns)
    /\ WF_vars(device = "voicecard" /\ PowerCycle)
=============================================================================
